-------------------------------- MODULE Pipe --------------------------------
(***************************************************************************)
(* Pipes (kernel/pipe.c) and the open files that refer to them             *)
(* (kernel/file.c, and sys_pipe, sys_dup, sys_close, sys_read and          *)
(* sys_write of kernel/sysfile.c).  There is one page for a pipe: pipe()   *)
(* fails while it is in use, as when kalloc() returns 0.  The counters     *)
(* nread and nwrite are taken modulo CountMod, the code's 2^32.            *)
(***************************************************************************)
EXTENDS Sleep, SequencesExt

CONSTANTS
    NFILE, NOFILE,        \* sizes of ftable.file and of p->ofile
    PIPESIZE, CountMod,
    Start,                \* who has which descriptors initially
    Length,               \* of a read() or write()
    MaxCalls              \* bound: system calls made by all processes

ASSUME PipeAssumption ==
    /\ {NFILE, NOFILE, PIPESIZE, CountMod, MaxCalls} \cup Length \subseteq Nat \ {0}
    /\ NFILE >= 2 /\ NOFILE >= 2
    /\ \A s \in Start : DOMAIN s = Proc /\ UNION Range(s) = {1, 2}
    /\ CountMod % PIPESIZE = 0 /\ CountMod > PIPESIZE

VARIABLES
    ofile,      \* per process and descriptor, the file or 0
    file,       \* ftable.file: ref, type and, of a pipe's end, writable
    pi,         \* the pipe's page: alloc (kalloc()ed), data, nread, nwrite, readopen, writeopen
    loc,        \* per process, the locals of the system call it is in
    calls,      \* calls made
    delivered,  \* history: the bytes the last piperead() copied out
    unannounced \* history: a write gave up after bytes that no wakeup() followed

\* A byte a process writes: told apart by the process and the place in its write().
Byte == Proc \X Nat

File == 1 .. NFILE
FD == 1 .. NOFILE
history == <<delivered, unannounced>>
pipeVars == <<ofile, file, pi, loc, calls, history>>

\* close: the files still to be fileclose()d, after which the process goes on at "then".
Idle == [f |-> 0, np |-> 0, n |-> 0, i |-> 0, wr |-> FALSE, close |-> <<>>, then |-> "user"]
NoFile == [ref |-> 0, type |-> "none", writable |-> FALSE]

initproc == 1

PipeEnd(refs, w) == [ref |-> refs, type |-> "pipe", writable |-> w]

\* A pipe has been made, many bytes have gone through it, and each process has the ends
\* of it that Start says: 1 for reading, 2 for writing.
PipeInit ==
    /\ \E s \in Start :
        /\ ofile = [p \in Proc |-> [d \in FD |-> IF d \in s[p] THEN d ELSE 0]]
        /\ file = [f \in File |->
                IF f <= 2 THEN PipeEnd(Cardinality({p \in Proc : f \in s[p]}), f = 2)
                          ELSE NoFile]
    /\ pi = [alloc |-> TRUE, data |-> [k \in 0 .. PIPESIZE - 1 |-> <<initproc, 0>>],
             nread |-> CountMod - 1, nwrite |-> CountMod - 1,
             readopen |-> TRUE, writeopen |-> TRUE]
    /\ loc = [p \in Proc |-> Idle]
    /\ calls = 0
    /\ delivered = <<>> /\ unannounced = FALSE

\* A system call is entered from user space by a process that has not been killed.
Enters(p) == pc[p] = "user" /\ ~killed[p] /\ calls < MaxCalls /\ calls' = calls + 1
Returns(p) == Jump(p, "user") /\ loc' = [loc EXCEPT ![p] = Idle]

FreeFd(p) == {d \in FD : ofile[p][d] = 0}
Lowest(S) == CHOOSE x \in S : \A y \in S : x <= y
FreeFile == {f \in File : file[f].ref = 0}

-----------------------------------------------------------------------------
(* Closing files *)

\* Mutation: a file is taken for the last one a reference too early.
fileclose_early(p) ==
    LET f == Head(loc[p].close)  last == file[f].ref <= 2 IN
    /\ pc[p] = "fileclose" /\ loc[p].close # <<>>
    /\ file' = [file EXCEPT ![f] = IF last THEN NoFile ELSE [@ EXCEPT !.ref = @ - 1]]
    /\ loc' = [loc EXCEPT ![p].close = Tail(@), ![p].wr = file[f].writable]
    /\ IF last /\ file[f].type = "pipe" THEN Jump(p, "pipeclose") ELSE Jump(p, "fileclose")
    /\ UNCHANGED <<procs, lock, ofile, pi, calls, history>>

\* fileclose() of the next file: the last reference closes the pipe's end.
fileclose(p) ==
    LET f == Head(loc[p].close)  last == file[f].ref = 1 IN
    /\ pc[p] = "fileclose" /\ loc[p].close # <<>>
    /\ file' = [file EXCEPT ![f] = IF last THEN NoFile ELSE [@ EXCEPT !.ref = @ - 1]]
    /\ loc' = [loc EXCEPT ![p].close = Tail(@), ![p].wr = file[f].writable]
    /\ IF last /\ file[f].type = "pipe" THEN Jump(p, "pipeclose") ELSE Jump(p, "fileclose")
    /\ UNCHANGED <<procs, lock, ofile, pi, calls, history>>

closed(p) ==
    /\ pc[p] = "fileclose" /\ loc[p].close = <<>>
    /\ Jump(p, loc[p].then)
    /\ loc' = [loc EXCEPT ![p] = Idle]
    /\ UNCHANGED <<procs, lock, ofile, file, pi, calls, history>>

pipeclose(p) ==
    /\ pc[p] = "pipeclose" /\ Acquire(p, "pi")
    /\ pi' = [pi EXCEPT !.writeopen = @ /\ ~loc[p].wr, !.readopen = @ /\ loc[p].wr]
    /\ Waking(p, IF loc[p].wr THEN "nread" ELSE "nwrite", "pipeclose_free")
    /\ UNCHANGED <<procs, ofile, file, loc, calls, history>>

\* Mutation: the page is freed as soon as one end is closed.
pipeclose_either(p) ==
    /\ pc[p] = "pipeclose_free" /\ Release(p, "pi")
    /\ pi' = [pi EXCEPT !.alloc = @ /\ pi.readopen /\ pi.writeopen]
    /\ Jump(p, "fileclose")
    /\ UNCHANGED <<procs, ofile, file, loc, calls, history>>

\* Release the lock and, if the other end is closed too, free the page.
pipeclose_free(p) ==
    /\ pc[p] = "pipeclose_free" /\ Release(p, "pi")
    /\ pi' = [pi EXCEPT !.alloc = @ /\ (pi.readopen \/ pi.writeopen)]
    /\ Jump(p, "fileclose")
    /\ UNCHANGED <<procs, ofile, file, loc, calls, history>>

-----------------------------------------------------------------------------
(* sys_pipe(), sys_dup(), sys_close() *)

\* pipealloc() fails for want of a file or of the page, and closes what it had.
sys_pipe_fails(p) ==
    /\ Enters(p)
    /\ Cardinality(FreeFile) < 2 \/ pi.alloc
    /\ Jump(p, "user")
    /\ UNCHANGED <<procs, lock, ofile, file, pi, loc, history>>

\* Two files and two descriptors, or, if there are too few descriptors or the result
\* cannot be copied out, both files are closed again.
sys_pipe(p) ==
    /\ Enters(p)
    /\ ~pi.alloc
    /\ \E r, w \in FreeFile :
        /\ r = Lowest(FreeFile) /\ w = Lowest(FreeFile \ {r})
        /\ file' = [file EXCEPT ![r] = PipeEnd(1, FALSE), ![w] = PipeEnd(1, TRUE)]
        /\ pi' = [pi EXCEPT !.alloc = TRUE, !.nread = 0, !.nwrite = 0,
                            !.readopen = TRUE, !.writeopen = TRUE]
        /\ \/ \E d, e \in FreeFd(p) :
                /\ d = Lowest(FreeFd(p)) /\ e = Lowest(FreeFd(p) \ {d})
                /\ ofile' = [ofile EXCEPT ![p] = [@ EXCEPT ![d] = r, ![e] = w]]
                /\ Jump(p, "user")
                /\ UNCHANGED loc
           \/ /\ loc' = [loc EXCEPT ![p] = [Idle EXCEPT !.close = <<r, w>>]]
              /\ Jump(p, "fileclose")
              /\ UNCHANGED ofile
    /\ unannounced' = FALSE
    /\ UNCHANGED <<procs, lock, delivered>>

sys_dup(p) ==
    /\ Enters(p)
    /\ \E d \in FD \ FreeFd(p) :
          /\ FreeFd(p) # {}
          /\ ofile' = [ofile EXCEPT ![p][Lowest(FreeFd(p))] = ofile[p][d]]
          /\ file' = [file EXCEPT ![ofile[p][d]].ref = @ + 1]
    /\ Jump(p, "user")
    /\ UNCHANGED <<procs, lock, pi, loc, history>>

sys_close(p) ==
    /\ Enters(p)
    /\ \E d \in FD \ FreeFd(p) :
          /\ ofile' = [ofile EXCEPT ![p][d] = 0]
          /\ loc' = [loc EXCEPT ![p] = [Idle EXCEPT !.close = <<ofile[p][d]>>]]
    /\ Jump(p, "fileclose")
    /\ UNCHANGED <<procs, lock, file, pi, history>>

-----------------------------------------------------------------------------
(* Reading and writing: the locals are those of piperead() and pipewrite(). *)

Full == pi.nwrite = (pi.nread + PIPESIZE) % CountMod
Empty == pi.nread = pi.nwrite
InPipe == (pi.nwrite - pi.nread) % CountMod

\* The bytes in the pipe, oldest first.
Content == [k \in 1 .. InPipe |-> pi.data[((pi.nread + k - 1) % CountMod) % PIPESIZE]]

\* sys_read() and sys_write() dispatch on the file, which must be open for that.
sys_read(p) ==
    /\ Enters(p)
    /\ \E d \in FD \ FreeFd(p), n \in Length :
          /\ ~file[ofile[p][d]].writable
          /\ loc' = [loc EXCEPT ![p] = [Idle EXCEPT !.f = ofile[p][d], !.n = n]]
    /\ Jump(p, "piperead")
    /\ UNCHANGED <<procs, lock, ofile, file, pi, history>>

sys_write(p) ==
    /\ Enters(p)
    /\ \E d \in FD \ FreeFd(p), n \in Length :
          /\ file[ofile[p][d]].writable
          /\ loc' = [loc EXCEPT ![p] = [Idle EXCEPT !.f = ofile[p][d], !.n = n]]
    /\ Jump(p, "pipewrite")
    /\ UNCHANGED <<procs, lock, ofile, file, pi, history>>

piperead(p) ==
    /\ pc[p] = "piperead" /\ Acquire(p, "pi")
    /\ Jump(p, "piperead_loop")
    /\ UNCHANGED <<procs, pipeVars>>

\* Nothing to read and somebody may still write: wait, unless killed.
piperead_wait(p) ==
    /\ pc[p] = "piperead_loop" /\ Empty /\ pi.writeopen
    /\ \/ /\ killed[p]
          /\ Release(p, "pi")
          /\ Returns(p)
       \/ /\ ~killed[p]
          /\ Sleeping(p, "nread", "pi", "piperead_loop")
          /\ UNCHANGED <<lock, loc>>
    /\ UNCHANGED <<procs, ofile, file, pi, calls, history>>

\* k bytes are copied out.  If the next copyout() fails, its byte is consumed all the same.
piperead_copy(p) ==
    /\ pc[p] = "piperead_loop" /\ ~(Empty /\ pi.writeopen)
    /\ \E k \in 0 .. Min({loc[p].n, InPipe}) :
        /\ delivered' = SubSeq(Content, 1, k)
        /\ LET lost == IF k < Min({loc[p].n, InPipe}) THEN 1 ELSE 0
           IN  pi' = [pi EXCEPT !.nread = (@ + k + lost) % CountMod]
    /\ Waking(p, "nwrite", "piperead_done")
    /\ UNCHANGED <<procs, lock, ofile, file, loc, calls, unannounced>>

\* piperead() and pipewrite() release the lock and return.
pipe_done(p) ==
    /\ pc[p] \in {"piperead_done", "pipewrite_done"}
    /\ Release(p, "pi")
    /\ Returns(p)
    /\ UNCHANGED <<procs, ofile, file, pi, calls, history>>

pipewrite(p) ==
    /\ pc[p] = "pipewrite" /\ Acquire(p, "pi")
    /\ Jump(p, "pipewrite_loop")
    /\ UNCHANGED <<procs, pipeVars>>

pipewrite_fails(p) ==
    /\ pc[p] = "pipewrite_loop" /\ loc[p].i < loc[p].n
    /\ ~pi.readopen \/ killed[p]
    /\ Release(p, "pi")
    /\ Returns(p)
    /\ unannounced' = (unannounced \/ loc[p].i > 0)
    /\ UNCHANGED <<procs, ofile, file, pi, calls, delivered>>

pipewrite_full(p) ==
    /\ pc[p] = "pipewrite_loop" /\ loc[p].i < loc[p].n
    /\ pi.readopen /\ ~killed[p] /\ Full
    /\ Waking(p, "nread", "pipewrite_sleep")
    /\ unannounced' = FALSE
    /\ UNCHANGED <<procs, lock, ofile, file, pi, loc, calls, delivered>>

pipewrite_sleep(p) ==
    /\ pc[p] = "pipewrite_sleep"
    /\ Sleeping(p, "nwrite", "pi", "pipewrite_loop")
    /\ UNCHANGED <<procs, lock, pipeVars>>

\* Mutation: the pipe is taken to be full one byte later.
pipewrite_byte_over(p) ==
    /\ pc[p] = "pipewrite_loop" /\ loc[p].i < loc[p].n
    /\ pi.readopen /\ ~killed[p] /\ InPipe <= PIPESIZE
    /\ pi' = [pi EXCEPT !.data[pi.nwrite % PIPESIZE] = <<p, loc[p].i>>,
                        !.nwrite = (@ + 1) % CountMod]
    /\ loc' = [loc EXCEPT ![p].i = @ + 1]
    /\ Jump(p, "pipewrite_loop")
    /\ UNCHANGED <<procs, lock, ofile, file, calls, history>>

pipewrite_byte(p) ==
    /\ pc[p] = "pipewrite_loop" /\ loc[p].i < loc[p].n
    /\ pi.readopen /\ ~killed[p] /\ ~Full
    /\ pi' = [pi EXCEPT !.data[pi.nwrite % PIPESIZE] = <<p, loc[p].i>>,
                        !.nwrite = (@ + 1) % CountMod]
    /\ loc' = [loc EXCEPT ![p].i = @ + 1]
    /\ Jump(p, "pipewrite_loop")
    /\ UNCHANGED <<procs, lock, ofile, file, calls, history>>

\* All written, or copyin() fails: wake the readers.
pipewrite_end(p) ==
    /\ pc[p] = "pipewrite_loop"
    /\ loc[p].i = loc[p].n \/ (pi.readopen /\ ~killed[p] /\ ~Full)
    /\ Waking(p, "nread", "pipewrite_done")
    /\ unannounced' = FALSE
    /\ UNCHANGED <<procs, lock, ofile, file, pi, loc, calls, delivered>>

PipeCall(p) ==
    \/ sys_pipe(p) \/ sys_pipe_fails(p) \/ sys_dup(p) \/ sys_close(p)
    \/ sys_read(p) \/ sys_write(p)

PipeStep(p) ==
    \/ fileclose(p) \/ closed(p) \/ pipeclose(p) \/ pipeclose_free(p)
    \/ piperead(p) \/ piperead_wait(p) \/ piperead_copy(p) \/ pipe_done(p)
    \/ pipewrite(p) \/ pipewrite_fails(p) \/ pipewrite_full(p) \/ pipewrite_sleep(p)
    \/ pipewrite_byte(p) \/ pipewrite_end(p)
=============================================================================
