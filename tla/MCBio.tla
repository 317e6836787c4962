------------------------------- MODULE MCBio -------------------------------
(* Three processes, four buffers and the driver's eight descriptors for TLC. *)
EXTENDS Bio

Handlers == {-1}
Locks == {"vdisk", "l1", "l2", "l3", "l4"}
SleepLocks == {"l1", "l2", "l3", "l4"}
Buffers == {"b1", "b2", "b3", "b4"}
Channels == SleepLocks \cup Buffers \cup {"free"}

\* Blocks 1 to 4 are cached, block 1 in the buffer that is recycled first.
BufferLock == [b1 |-> "l1", b2 |-> "l2", b3 |-> "l3", b4 |-> "l4"]
Boot == [b1 |-> 1, b2 |-> 2, b3 |-> 3, b4 |-> 4]
Order == <<"b4", "b3", "b2", "b1">>

BlockNumbers == 1 .. 6
Values == -3 .. 6

\* Who makes which calls: several processes after one block, three requests at a time,
\* a block that is logged and installed while others recycle buffers.
Plans == {
    << <<<<"log", 5>>>>, <<<<"read", 5>>>>, <<>> >>,
    << <<<<"read", 5>>>>, <<<<"read", 6>>>>, <<<<"read", 1>>>> >>,
    << <<<<"write", 5>>>>, <<<<"write", 5>>>>, <<<<"read", 5>>>> >>,
    << <<<<"log", 1>>>>, <<<<"read", 5>>>>, <<<<"install", 1>>>> >>,
    << <<<<"log", 5>>, <<"install", 5>>>>, <<<<"write", 5>>, <<"read", 1>>>>, <<>> >>,
    << <<<<"log", 1>>>>, <<<<"read", 5>>, <<"read", 6>>, <<"read", 2>>, <<"read", 3>>>>, <<>> >> }
=============================================================================
