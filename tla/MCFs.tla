-------------------------------- MODULE MCFs --------------------------------
(* Two processes in a tree of a file /a and a directory /d, for TLC. *)
EXTENDS Fs

Call(op, path) == [op |-> op, path |-> path]
Open(path, mode) == [op |-> "open", path |-> path, mode |-> mode]
Link(old, new) == [op |-> "link", path |-> old, new |-> new]
IO(op, n) == [op |-> op, n |-> n]
Close == [op |-> "close"]

FilesAtBoot == << <<"a", 1>> >>
MadeAtBoot == <<"d">>

\* What one process does: make, remove, open and link the same few names.
Scripts == {
    <<Open(<<"/", "d", "c">>, {"create"}), Close>>,
    <<Call("unlink", <<"/", "d">>), Call("mkdir", <<"d">>)>>,
    <<Call("unlink", <<"d", "c">>), Call("unlink", <<"d">>)>>,
    <<Call("mkdir", <<"d", "c">>), Call("chdir", <<"d", "c">>)>>,
    <<Call("chdir", <<"d">>), Call("mknod", <<"c">>), [op |-> "exit"]>>,
    <<Link(<<"a">>, <<"d", "c">>), Call("unlink", <<"a">>)>>,
    <<Link(<<"a">>, <<"d", "c">>), Link(<<"d">>, <<"c">>), Call("exec", <<"a">>)>>,
    <<Open(<<"a">>, {"write"}), IO("write", 7), Close>>,
    <<Call("unlink", <<"a">>), Open(<<"c">>, {"create", "trunc", "write"}), IO("write", 2)>>,
    <<Open(<<"a">>, {}), IO("fstat", 0), IO("read", 2), IO("write", 1)>>,
    <<Open(<<"d">>, {"write"}), Open(<<"a">>, {"create", "write", "trunc"}), IO("write", 3)>> }

Plans == Scripts \X Scripts

\* Outside Plans.  A directory is removed between nameiparent() and the entry made in it;
\* a process looks up ".." in a directory whose parent has been removed after it.
RemovedPlans ==
    {<< <<Open(<<"d", "c">>, {"create"}), Close>>, <<Call("unlink", <<"d">>)>> >>,
     << <<Call("mkdir", <<"d", "c">>), Call("chdir", <<"d", "c">>), Call("chdir", <<"..">>)>>,
        <<Call("unlink", <<"d", "c">>), Call("unlink", <<"d">>)>> >>}
=============================================================================
