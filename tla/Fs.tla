--------------------------------- MODULE Fs ---------------------------------
(***************************************************************************)
(* The file system calls of kernel/sysfile.c and kernel/file.c over the    *)
(* inode table of kernel/fs.c: processes look up paths, create, link,      *)
(* unlink, open, write and close at the same time, and the machine may     *)
(* crash.  What happens while a process holds an inode's sleep lock is one *)
(* step; between two steps it may hold the locks of a directory, or of a   *)
(* directory and an entry of it.  itable.lock is a step's atomicity.  The  *)
(* log is what module Log shows it to be: what a group of calls did        *)
(* becomes durable when the last of them ends.                             *)
(*                                                                         *)
(* A path is the sequence of its elements, the first of which is "/" if it *)
(* starts at the root.  A slot of the inode table is known by its inode    *)
(* number; what a slot nobody refers to held is forgotten.                 *)
(***************************************************************************)
EXTENDS Inode

CONSTANTS
    NPROC, NFILE,
    NINODE,        \* slots of the inode table
    MAXOPBLOCKS, LOGSIZE,
    Made,          \* directories made in the root since mkfs, a sequence of names
    Shared,        \* a subset of BOOLEAN: may the processes share a file opened by an ancestor?
    Plan,          \* who makes which calls: a set of functions of Proc
    MaxCrashes

Proc == 1 .. NPROC
File == 1 .. NFILE
None == 0

ASSUME FsAssumption ==
    /\ {NPROC, NFILE, NINODE, MAXOPBLOCKS, LOGSIZE} \subseteq Nat \ {0}
    /\ MAXOPBLOCKS <= LOGSIZE /\ MaxCrashes \in Nat /\ Shared \subseteq BOOLEAN

VARIABLES
    disk,          \* inodes, bitmap and block contents, as the buffer cache shows them
    committed,     \* the same, as recovery would find them
    outstanding, logged, wrote,   \* log.outstanding, the blocks in the log, those of each call
    ref, valid, core, lock,       \* the inode table
    ftable, ofile, cwd,
    fr,            \* where each process is in its call, and the references it holds there
    todo, panic, crashes

vars == <<disk, committed, outstanding, logged, wrote, ref, valid, core, lock,
          ftable, ofile, cwd, fr, todo, panic, crashes>>
logVars == <<committed, outstanding, logged>>
userVars == <<ftable, ofile, cwd, todo, crashes>>

User == [pc |-> "user", call |-> <<>>, path |-> <<>>, parent |-> FALSE, ok |-> "", bad |-> "",
         cur |-> None, ip |-> None, dp |-> None, n |-> 0, puts |-> <<>>, next |-> ""]

NoFile == [ref |-> 0, ip |-> None, off |-> 0, writable |-> FALSE]

-----------------------------------------------------------------------------
(* What a process works on, and what it leaves behind. *)

Working(p) == [inode |-> disk.inode, used |-> disk.used, cell |-> disk.cell, core |-> core,
               log |-> wrote[p], panic |-> panic, res |-> 0, tot |-> 0]

Leaves(p, z) ==
    /\ disk' = [inode |-> z.inode, used |-> z.used, cell |-> z.cell]
    /\ core' = z.core
    /\ wrote' = [wrote EXCEPT ![p] = z.log]
    /\ logged' = logged \cup z.log
    /\ panic' = z.panic
    /\ UNCHANGED <<committed, outstanding>>

Free(i) == lock[i] = None

\* The copy of an inode in memory once it is locked.
ilock(z, i) ==
    IF valid[i] THEN z
    ELSE [z EXCEPT !.core[i] = z.inode[i], !.panic = @ \/ z.inode[i].type = "free"]

Loaded(S) == valid' = [i \in Inum |-> valid[i] \/ i \in S]

\* Only an inode that is not in the table takes a slot of it.
TableFull(i) == ref[i] = 0 /\ Cardinality({k \in Inum : ref[k] > 0}) = NINODE

iget(z, i) == [z EXCEPT !.panic = @ \/ TableFull(i)]
Referred(i) == ref' = [ref EXCEPT ![i] = @ + 1]

At(p, label) == fr[p].pc = label

\* Nothing goes on after a panic.
Goto(p, f) == ~panic /\ fr' = [fr EXCEPT ![p] = f]

\* iput() of each of these in turn, then go on at next.
Puts(f, is, next) == [f EXCEPT !.pc = "iput", !.puts = is, !.next = next]

\* The call has failed, and lets go of its inode before end_op().
Fails(f, is) == [Puts(f, is, "end_op") EXCEPT !.cur = None]

-----------------------------------------------------------------------------
(* Transactions. *)

MayBegin == Cardinality(logged) + (outstanding + 1) * MAXOPBLOCKS <= LOGSIZE

begin_op == MayBegin /\ outstanding' = outstanding + 1

\* chdir's p->cwd = ip comes after end_op(), filewrite() goes on with its next piece.
end_op(p) ==
    LET f == fr[p]
        more == f.call.op = "write" /\ f.n > 0
    IN  /\ At(p, "end_op")
        /\ outstanding' = outstanding - 1
        /\ IF outstanding = 1
           THEN committed' = disk /\ logged' = {}
           ELSE UNCHANGED <<committed, logged>>
        /\ wrote' = [wrote EXCEPT ![p] = {}]
        /\ cwd' = [cwd EXCEPT ![p] = IF f.call.op = "chdir" /\ f.cur # None THEN f.cur ELSE @]
        /\ Goto(p, IF more THEN [f EXCEPT !.pc = "filewrite"] ELSE User)
        /\ UNCHANGED <<disk, ref, valid, core, lock, ftable, ofile, todo, panic, crashes>>

-----------------------------------------------------------------------------
(* iput(): the decision under itable.lock, freeing the inode with its sleep *)
(* lock held, dropping the reference.                                       *)

LastRef(i) == ref[i] = 1 /\ valid[i] /\ core[i].nlink = 0

Puts_next(f) == IF Len(f.puts) = 1 THEN [f EXCEPT !.pc = f.next, !.puts = <<>>, !.next = ""]
                ELSE [f EXCEPT !.pc = "iput", !.puts = Tail(@)]

Drops(i) ==
    /\ ref' = [ref EXCEPT ![i] = @ - 1]
    /\ valid' = [valid EXCEPT ![i] = @ /\ ref[i] > 1]
    /\ core' = IF ref[i] > 1 THEN core ELSE [core EXCEPT ![i] = Blank]

iput(p) ==
    LET i == Head(fr[p].puts)
    IN  /\ At(p, "iput")
        /\ \/ LastRef(i) /\ Free(i)
              /\ lock' = [lock EXCEPT ![i] = p]
              /\ Goto(p, [fr[p] EXCEPT !.pc = "iput_free"])
              /\ UNCHANGED <<ref, valid, core>>
           \/ ~LastRef(i) /\ Drops(i)
              /\ Goto(p, Puts_next(fr[p]))
              /\ UNCHANGED lock
        /\ UNCHANGED <<disk, wrote, panic, logVars, userVars>>

Freed(z, i) == iupdate([z EXCEPT !.core[i].type = "free"], i)

iput_free(p) ==
    /\ At(p, "iput_free")
    /\ \E i \in {Head(fr[p].puts)} :
          /\ Leaves(p, [Freed(itrunc(Working(p), i), i) EXCEPT !.core[i] = Blank])
          /\ valid' = [valid EXCEPT ![i] = FALSE]
          /\ lock' = [lock EXCEPT ![i] = None]
    /\ Goto(p, [fr[p] EXCEPT !.pc = "iput_ref"])
    /\ UNCHANGED <<ref, userVars>>

iput_ref(p) ==
    /\ At(p, "iput_ref")
    /\ Drops(Head(fr[p].puts))
    /\ Goto(p, Puts_next(fr[p]))
    /\ UNCHANGED <<disk, wrote, panic, lock, logVars, userVars>>

-----------------------------------------------------------------------------
(* namex(): one directory at a time is locked. *)

\* The frame with which namei() or nameiparent() of path starts; it goes on at ok
\* with the inode in cur, or at bad.
Namex(p, f, path, parent, ok, bad) ==
    LET abs == path[1] = "/"
        start == IF abs THEN ROOTINO ELSE cwd[p]
        elems == IF abs THEN Tail(path) ELSE path
        g == [f EXCEPT !.path = elems, !.parent = parent, !.ok = ok, !.bad = bad, !.cur = start]
    IN  IF elems # <<>> THEN [g EXCEPT !.pc = "namex"]
        ELSE IF parent THEN [Puts(g, <<start>>, bad) EXCEPT !.cur = None]
        ELSE [g EXCEPT !.pc = ok]

Start(p, path) == IF path[1] = "/" THEN ROOTINO ELSE cwd[p]

namex(p) ==
    /\ At(p, "namex") /\ Free(fr[p].cur)
    /\ Loaded({fr[p].cur})
    /\ \E f \in {fr[p]}, z \in {ilock(Working(p), fr[p].cur)} :
         \E off \in {IF z.core[f.cur].type = "dir" THEN dirlookup(z, f.cur, Head(f.path)) ELSE -1} :
           \/ /\ z.core[f.cur].type = "dir" /\ f.parent /\ Len(f.path) = 1
              /\ Leaves(p, z)
              /\ Goto(p, [f EXCEPT !.pc = f.ok])
              /\ UNCHANGED ref
           \/ /\ off = -1 /\ (z.core[f.cur].type = "dir" => ~(f.parent /\ Len(f.path) = 1))
              /\ Leaves(p, z)
              /\ Goto(p, [Puts(f, <<f.cur>>, f.bad) EXCEPT !.cur = None])
              /\ UNCHANGED ref
           \/ /\ off # -1 /\ ~(f.parent /\ Len(f.path) = 1)
              /\ \E next \in {EntryAt(z, f.cur, off)[2]} :
                    /\ Leaves(p, iget(z, next)) /\ Referred(next)
                    /\ Goto(p, [Puts(f, <<f.cur>>, IF Len(f.path) = 1 THEN f.ok ELSE "namex") EXCEPT
                                   !.cur = next, !.path = Tail(@)])
    /\ UNCHANGED <<lock, userVars>>

-----------------------------------------------------------------------------
(* A call begins: begin_op(), and the first reference of its path. *)

NextCall(p) == Head(todo[p])
Enters(p) == ~panic /\ At(p, "user") /\ todo[p] # <<>> /\ todo' = [todo EXCEPT ![p] = Tail(@)]

\* Where the look-up of a call goes on when it has found its inode.
Target(c) ==
    CASE c.op = "link" -> "link_ip"
      [] c.op = "chdir" -> "chdir"
      [] c.op = "exec" -> "exec"
      [] c.op = "unlink" -> "unlink"
      [] c.op = "open" /\ "create" \notin c.mode -> "open"
      [] OTHER -> "create"

PathCall(p) ==
    LET c == NextCall(p)
        start == Start(p, c.path)
    IN  /\ Enters(p) /\ c.op \in {"open", "mkdir", "mknod", "link", "unlink", "chdir", "exec"}
        /\ begin_op
        /\ Referred(start)
        /\ panic' = (panic \/ TableFull(start))
        /\ Goto(p, Namex(p, [User EXCEPT !.call = c], c.path, Target(c) \in {"unlink", "create"},
                         Target(c), "end_op"))
        /\ UNCHANGED <<disk, committed, logged, wrote, valid, core, lock, ftable, ofile, cwd, crashes>>

\* exit(): the process gives up its working directory and makes no more calls.
sys_exit(p) ==
    LET c == NextCall(p)
    IN  /\ Enters(p) /\ c.op = "exit"
        /\ begin_op
        /\ cwd' = [cwd EXCEPT ![p] = None]
        /\ Goto(p, Puts([User EXCEPT !.call = c], <<cwd[p]>>, "end_op"))
        /\ UNCHANGED <<disk, committed, logged, wrote, ref, valid, core, lock, ftable, ofile, panic, crashes>>

-----------------------------------------------------------------------------
(* create() *)

TypeOf(c) == CASE c.op = "mkdir" -> "dir" [] c.op = "mknod" -> "dev" [] OTHER -> "file"

\* The new inode ip, locked, its entries "." and "..", its entry in dp, dp's new link; or,
\* with no block for one of them, an inode without links.
AndLink(z, dp, name, i) == IF z.res = 0 THEN dirlink(z, dp, name, i) ELSE z
Dots(z, ip, dp) == AndLink(dirlink(z, ip, ".", ip), ip, "..", dp)
NewInode(z, ip) == iupdate([z EXCEPT !.core[ip].nlink = 1, !.res = 0], ip)
Counted(z, dp, ip, type) ==
    IF z.res # 0 THEN iupdate([z EXCEPT !.core[ip].nlink = 0], ip)
    ELSE IF type = "dir" THEN iupdate([z EXCEPT !.core[dp].nlink = @ + 1], dp)
    ELSE z

create_inode(z, dp, ip, type, name) ==
    Counted(AndLink(IF type = "dir" THEN Dots(NewInode(z, ip), ip, dp) ELSE NewInode(z, ip), dp, name, ip),
            dp, ip, type)

Created(f) == IF f.call.op = "open" THEN "open_new" ELSE "made"

\* create() goes on with the inode that has the name, once dp is put.
create_finds(p, z, old) ==
    /\ Leaves(p, iget(z, old)) /\ Referred(old) /\ Loaded({fr[p].cur})
    /\ Goto(p, [Puts(fr[p], <<fr[p].cur>>, "create_old") EXCEPT !.cur = old])
    /\ UNCHANGED lock

\* create() has allocated inode new.  If it fails, dp stays locked until new is put.
create_new(p, y, new) ==
    LET f == fr[p]
        dp == f.cur
    IN  /\ Free(new) /\ Referred(new) /\ Loaded({dp, new})
        /\ \E z \in {create_inode(ilock(iget(y, new), new), dp, new, TypeOf(f.call), Head(f.path))} :
             /\ Leaves(p, z)
             /\ \/ /\ z.res = 0
                   /\ lock' = [lock EXCEPT ![new] = p]
                   /\ Goto(p, [Puts(f, <<dp>>, Created(f)) EXCEPT !.cur = new])
                \/ /\ z.res # 0
                   /\ lock' = [lock EXCEPT ![dp] = p]
                   /\ Goto(p, [Puts(f, <<new>>, "unlock_dp") EXCEPT !.cur = None, !.dp = dp])

create(p) ==
    /\ At(p, "create") /\ Free(fr[p].cur)
    /\ \E f \in {fr[p]}, z \in {ilock(Working(p), fr[p].cur)} :
         \E dp \in {f.cur}, off \in {dirlookup(z, f.cur, Head(f.path))} :
           \/ off # -1 /\ create_finds(p, z, EntryAt(z, dp, off)[2])
           \/ off = -1 /\ \E y \in {ialloc(z, TypeOf(f.call))} :
                \/ /\ y.res = 0
                   /\ Leaves(p, y) /\ Loaded({dp})
                   /\ Goto(p, Fails(f, <<dp>>))
                   /\ UNCHANGED <<ref, lock>>
                \/ y.res # 0 /\ create_new(p, y, y.res)
    /\ UNCHANGED userVars

\* iunlockput(dp) after iunlockput(ip): the failing ends of create() and sys_unlink().
unlock_dp(p) ==
    LET f == fr[p]
    IN  /\ At(p, "unlock_dp")
        /\ lock' = [lock EXCEPT ![f.dp] = None]
        /\ Goto(p, [Fails(f, <<f.dp>>) EXCEPT !.dp = None])
        /\ UNCHANGED <<disk, wrote, ref, valid, core, panic, logVars, userVars>>

create_old_leaks(p) ==
    /\ At(p, "create_old") /\ Free(fr[p].cur)
    /\ Loaded({fr[p].cur})
    /\ \E f \in {fr[p]}, z \in {ilock(Working(p), fr[p].cur)} :
         LET takes == f.call.op = "open" /\ z.core[f.cur].type \in {"file", "dev"}
         IN  /\ Leaves(p, z)
             /\ \/ takes /\ lock' = [lock EXCEPT ![f.cur] = p] /\ Goto(p, [f EXCEPT !.pc = "open_new"])
                \/ ~takes /\ Goto(p, [f EXCEPT !.pc = "end_op", !.cur = None]) /\ UNCHANGED lock
    /\ UNCHANGED <<ref, userVars>>

\* The name was there: only open(O_CREATE) of a file or device takes it.
create_old(p) ==
    /\ At(p, "create_old") /\ Free(fr[p].cur)
    /\ Loaded({fr[p].cur})
    /\ \E f \in {fr[p]}, z \in {ilock(Working(p), fr[p].cur)} :
         LET takes == f.call.op = "open" /\ z.core[f.cur].type \in {"file", "dev"}
         IN  /\ Leaves(p, z)
             /\ \/ takes /\ lock' = [lock EXCEPT ![f.cur] = p] /\ Goto(p, [f EXCEPT !.pc = "open_new"])
                \/ ~takes /\ Goto(p, Fails(f, <<f.cur>>)) /\ UNCHANGED lock
    /\ UNCHANGED <<ref, userVars>>

\* sys_mkdir() and sys_mknod() after create().
made(p) ==
    LET f == fr[p]
    IN  /\ At(p, "made")
        /\ lock' = [lock EXCEPT ![f.cur] = None]
        /\ Goto(p, Fails(f, <<f.cur>>))
        /\ UNCHANGED <<disk, wrote, ref, valid, core, panic, logVars, userVars>>

-----------------------------------------------------------------------------
(* sys_open() with the inode found, or created and locked. *)

FreeFiles == {x \in File : ftable[x].ref = 0}

Truncated(z, f) == IF "trunc" \in f.call.mode /\ z.core[f.cur].type = "file" THEN itrunc(z, f.cur) ELSE z

sys_open(p) ==
    /\ (At(p, "open") /\ Free(fr[p].cur)) \/ (At(p, "open_new") /\ lock[fr[p].cur] = p)
    /\ Loaded({fr[p].cur})
    /\ lock' = [lock EXCEPT ![fr[p].cur] = None]
    /\ \E f \in {fr[p]}, z \in {ilock(Working(p), fr[p].cur)} :
         LET refused == At(p, "open") /\ z.core[f.cur].type = "dir" /\ f.call.mode # {}
             nofile == FreeFiles = {} \/ ofile[p] # None
         IN  \/ /\ refused \/ nofile
                /\ Leaves(p, z)
                /\ Goto(p, Fails(f, <<f.cur>>))
                /\ UNCHANGED <<ftable, ofile>>
             \/ /\ ~refused /\ ~nofile
                /\ Leaves(p, Truncated(z, f))
                /\ ftable' = [ftable EXCEPT ![Min(FreeFiles)] = [ref |-> 1, ip |-> f.cur, off |-> 0,
                                                                 writable |-> "write" \in f.call.mode]]
                /\ ofile' = [ofile EXCEPT ![p] = Min(FreeFiles)]
                /\ Goto(p, [f EXCEPT !.pc = "end_op", !.cur = None])
    /\ UNCHANGED <<ref, cwd, todo, crashes>>

\* iput(p->cwd) uses the old pointer for the last time.
sys_chdir(p) ==
    /\ At(p, "chdir") /\ Free(fr[p].cur)
    /\ Loaded({fr[p].cur})
    /\ \E f \in {fr[p]}, z \in {ilock(Working(p), fr[p].cur)} :
         /\ Leaves(p, z)
         /\ \/ /\ z.core[f.cur].type # "dir"
               /\ Goto(p, Fails(f, <<f.cur>>))
               /\ UNCHANGED cwd
            \/ /\ z.core[f.cur].type = "dir"
               /\ Goto(p, Puts(f, <<cwd[p]>>, "end_op"))
               /\ cwd' = [cwd EXCEPT ![p] = None]
    /\ UNCHANGED <<ref, lock, ftable, ofile, todo, crashes>>

\* exec() reads the program with its inode locked.  The image it builds is no part of
\* this module, and a file that is no program is let go of in the same way.
exec_ip(p) ==
    LET i == fr[p].cur
    IN  /\ At(p, "exec") /\ Free(i)
        /\ Leaves(p, ilock(Working(p), i)) /\ Loaded({i})
        /\ Goto(p, Fails(fr[p], <<i>>))
        /\ UNCHANGED <<ref, lock, userVars>>

-----------------------------------------------------------------------------
(* sys_link(): the count first, then the entry; taken back if that fails. *)

AddLink(z, i, k) == iupdate([z EXCEPT !.core[i].nlink = @ + k], i)

link_ip_uncounted(p) ==
    /\ At(p, "link_ip") /\ Free(fr[p].cur)
    /\ Loaded({fr[p].cur})
    /\ \E f \in {fr[p]}, z \in {ilock(Working(p), fr[p].cur)} :
         \/ /\ z.core[f.cur].type = "dir"
            /\ Leaves(p, z)
            /\ Goto(p, Fails(f, <<f.cur>>))
            /\ UNCHANGED ref
         \/ /\ z.core[f.cur].type # "dir"
            /\ Leaves(p, iget(z, Start(p, f.call.new)))
            /\ Referred(Start(p, f.call.new))
            /\ Goto(p, Namex(p, [f EXCEPT !.ip = f.cur], f.call.new, TRUE, "link_dp", "link_bad"))
    /\ UNCHANGED <<lock, userVars>>

link_ip(p) ==
    /\ At(p, "link_ip") /\ Free(fr[p].cur)
    /\ Loaded({fr[p].cur})
    /\ \E f \in {fr[p]}, z \in {ilock(Working(p), fr[p].cur)} :
         \/ /\ z.core[f.cur].type = "dir"
            /\ Leaves(p, z)
            /\ Goto(p, Fails(f, <<f.cur>>))
            /\ UNCHANGED ref
         \/ /\ z.core[f.cur].type # "dir"
            /\ Leaves(p, iget(AddLink(z, f.cur, 1), Start(p, f.call.new)))
            /\ Referred(Start(p, f.call.new))
            /\ Goto(p, Namex(p, [f EXCEPT !.ip = f.cur], f.call.new, TRUE, "link_dp", "link_bad"))
    /\ UNCHANGED <<lock, userVars>>

link_dp(p) ==
    /\ At(p, "link_dp") /\ Free(fr[p].cur)
    /\ Loaded({fr[p].cur})
    /\ \E f \in {fr[p]} :
         \E z \in {dirlink(ilock(Working(p), f.cur), f.cur, Head(f.path), f.ip)} :
           /\ Leaves(p, z)
           /\ \/ z.res = 0 /\ Goto(p, [Fails(f, <<f.cur, f.ip>>) EXCEPT !.ip = None])
              \/ z.res # 0 /\ Goto(p, [Puts(f, <<f.cur>>, "link_bad") EXCEPT !.cur = None])
    /\ UNCHANGED <<ref, lock, userVars>>

link_bad(p) ==
    LET f == fr[p]
    IN  /\ At(p, "link_bad") /\ Free(f.ip)
        /\ Leaves(p, AddLink(ilock(Working(p), f.ip), f.ip, -1)) /\ Loaded({f.ip})
        /\ Goto(p, [Fails(f, <<f.ip>>) EXCEPT !.ip = None])
        /\ UNCHANGED <<ref, lock, userVars>>

-----------------------------------------------------------------------------
(* sys_unlink(): the directory stays locked until the entry is gone. *)

sys_unlink_unlocked(p) ==
    /\ At(p, "unlink") /\ Free(fr[p].cur)
    /\ Loaded({fr[p].cur})
    /\ \E f \in {fr[p]}, z \in {ilock(Working(p), fr[p].cur)} :
         \E off \in {IF Head(f.path) \in {".", ".."} THEN -1 ELSE dirlookup(z, f.cur, Head(f.path))} :
           \/ /\ off = -1
              /\ Leaves(p, z)
              /\ Goto(p, Fails(f, <<f.cur>>))
              /\ UNCHANGED ref
           \/ /\ off # -1
              /\ \E i \in {EntryAt(z, f.cur, off)[2]} :
                    /\ Leaves(p, iget(z, i)) /\ Referred(i)
                    /\ Goto(p, [f EXCEPT !.pc = "unlink_ip", !.cur = i, !.dp = f.cur, !.n = off])
    /\ UNCHANGED <<lock, userVars>>

sys_unlink(p) ==
    /\ At(p, "unlink") /\ Free(fr[p].cur)
    /\ Loaded({fr[p].cur})
    /\ \E f \in {fr[p]}, z \in {ilock(Working(p), fr[p].cur)} :
         \E off \in {IF Head(f.path) \in {".", ".."} THEN -1 ELSE dirlookup(z, f.cur, Head(f.path))} :
           \/ /\ off = -1
              /\ Leaves(p, z)
              /\ Goto(p, Fails(f, <<f.cur>>))
              /\ UNCHANGED <<ref, lock>>
           \/ /\ off # -1
              /\ \E i \in {EntryAt(z, f.cur, off)[2]} :
                    /\ Leaves(p, iget(z, i)) /\ Referred(i)
                    /\ Goto(p, [f EXCEPT !.pc = "unlink_ip", !.cur = i, !.dp = f.cur, !.n = off])
              /\ lock' = [lock EXCEPT ![f.cur] = p]
    /\ UNCHANGED userVars

\* "unlink: nlink < 1" and "unlink: writei".
Unlinkable(z, i) == [z EXCEPT !.panic = @ \/ z.core[i].nlink < 1]
Panics(z) == [z EXCEPT !.panic = @ \/ z.res # 1]

\* The entry of i in dp is cleared, and dp has a link less if i was a directory.
ClearedEntry(z, dp, off, isdir) ==
    IF isdir THEN AddLink(Panics(writei(z, dp, off, 1, Zero)), dp, -1) ELSE Panics(writei(z, dp, off, 1, Zero))

unlink_ip_keeps(p) ==
    /\ At(p, "unlink_ip") /\ Free(fr[p].cur)
    /\ Loaded({fr[p].cur})
    /\ \E f \in {fr[p]}, z \in {Unlinkable(ilock(Working(p), fr[p].cur), fr[p].cur)} :
         LET isdir == z.core[f.cur].type = "dir"
         IN  \/ /\ isdir /\ ~isdirempty(z, f.cur)
                /\ Leaves(p, z)
                /\ Goto(p, [Puts(f, <<f.cur, f.dp>>, "end_op") EXCEPT !.cur = None, !.dp = None])
                /\ UNCHANGED lock
             \/ /\ isdir => isdirempty(z, f.cur)
                /\ Leaves(p, ClearedEntry(z, f.dp, f.n, isdir))
                /\ lock' = [lock EXCEPT ![f.cur] = p, ![f.dp] = None]
                /\ Goto(p, [Puts(f, <<f.dp>>, "unlink_done") EXCEPT !.dp = None])
    /\ UNCHANGED <<ref, userVars>>

unlink_ip(p) ==
    /\ At(p, "unlink_ip") /\ Free(fr[p].cur)
    /\ Loaded({fr[p].cur})
    /\ \E f \in {fr[p]}, z \in {Unlinkable(ilock(Working(p), fr[p].cur), fr[p].cur)} :
         LET isdir == z.core[f.cur].type = "dir"
         IN  \/ /\ isdir /\ ~isdirempty(z, f.cur)
                /\ Leaves(p, z)
                /\ Goto(p, [Puts(f, <<f.cur>>, "unlock_dp") EXCEPT !.cur = None])
                /\ UNCHANGED lock
             \/ /\ isdir => isdirempty(z, f.cur)
                /\ Leaves(p, ClearedEntry(z, f.dp, f.n, isdir))
                /\ lock' = [lock EXCEPT ![f.cur] = p, ![f.dp] = None]
                /\ Goto(p, [Puts(f, <<f.dp>>, "unlink_done") EXCEPT !.dp = None])
    /\ UNCHANGED <<ref, userVars>>

unlink_done(p) ==
    LET i == fr[p].cur
    IN  /\ At(p, "unlink_done")
        /\ Leaves(p, AddLink(Working(p), i, -1))
        /\ lock' = [lock EXCEPT ![i] = None]
        /\ Goto(p, Fails(fr[p], <<i>>))
        /\ UNCHANGED <<ref, valid, userVars>>

-----------------------------------------------------------------------------
(* file.c: an open file's offset moves with the inode locked. *)

OpenFile(p) == ftable[ofile[p]]

\* A call on a descriptor that is not open returns at once.
BadFd(p) ==
    /\ Enters(p) /\ NextCall(p).op \in {"read", "write", "fstat", "close"} /\ ofile[p] = None
    /\ UNCHANGED <<disk, wrote, ref, valid, core, lock, ftable, ofile, cwd, fr, panic, crashes, logVars>>

filestat(p) ==
    /\ Enters(p) /\ NextCall(p).op = "fstat" /\ ofile[p] # None
    /\ Free(OpenFile(p).ip)
    /\ Leaves(p, ilock(Working(p), OpenFile(p).ip)) /\ Loaded({OpenFile(p).ip})
    /\ UNCHANGED <<ref, lock, ftable, ofile, cwd, fr, crashes>>

fileread(p) ==
    /\ Enters(p) /\ NextCall(p).op = "read" /\ ofile[p] # None
    /\ Free(OpenFile(p).ip)
    /\ \E z \in {ilock(Working(p), OpenFile(p).ip)} :
         /\ Leaves(p, z)
         /\ ftable' = [ftable EXCEPT ![ofile[p]].off = @ + readi(z, OpenFile(p).ip, @, NextCall(p).n)]
    /\ Loaded({OpenFile(p).ip})
    /\ UNCHANGED <<ref, lock, ofile, cwd, fr, crashes>>

sys_write(p) ==
    /\ Enters(p) /\ NextCall(p).op = "write" /\ ofile[p] # None
    /\ fr' = IF OpenFile(p).writable
             THEN [fr EXCEPT ![p] = [User EXCEPT !.pc = "filewrite", !.call = NextCall(p), !.n = NextCall(p).n]]
             ELSE fr
    /\ UNCHANGED <<disk, wrote, ref, valid, core, lock, ftable, ofile, cwd, panic, crashes, logVars>>

filewrite(p) ==
    /\ At(p, "filewrite")
    /\ begin_op
    /\ Goto(p, [fr[p] EXCEPT !.pc = "writei"])
    /\ UNCHANGED <<disk, committed, logged, wrote, ref, valid, core, lock, panic, userVars>>

Piece_all(n) == n

\* How much of a write goes into one transaction.
Piece(n) == Min({n, ((MAXOPBLOCKS - 1 - 1 - 2) \div 2) * BSIZE})

filewrite_ip(p) ==
    LET i == OpenFile(p).ip
        n1 == Piece(fr[p].n)
    IN  /\ At(p, "writei") /\ Free(i)
        /\ \E z \in {writei(ilock(Working(p), i), i, OpenFile(p).off, n1, Zero)} :
             /\ Leaves(p, z)
             /\ ftable' = [ftable EXCEPT ![ofile[p]].off = @ + Max({z.res, 0})]
             /\ Goto(p, [fr[p] EXCEPT !.pc = "end_op", !.n = IF z.res = n1 THEN @ - n1 ELSE 0])
        /\ Loaded({i})
        /\ UNCHANGED <<ref, lock, ofile, cwd, todo, crashes>>

\* sys_close(): the last reference to the file gives up its inode, in a transaction.
fileclose(p) ==
    LET x == ofile[p]
    IN  /\ Enters(p) /\ NextCall(p).op = "close" /\ x # None
        /\ ofile' = [ofile EXCEPT ![p] = None]
        /\ \/ ftable[x].ref > 1
              /\ ftable' = [ftable EXCEPT ![x].ref = @ - 1]
              /\ UNCHANGED fr
           \/ ftable[x].ref = 1
              /\ ftable' = [ftable EXCEPT ![x] = NoFile]
              /\ Goto(p, [User EXCEPT !.pc = "fileclose", !.call = NextCall(p), !.cur = ftable[x].ip])
        /\ UNCHANGED <<disk, wrote, ref, valid, core, lock, cwd, panic, crashes, logVars>>

fileclose_ip(p) ==
    /\ At(p, "fileclose")
    /\ begin_op
    /\ Goto(p, Fails(fr[p], <<fr[p].cur>>))
    /\ UNCHANGED <<disk, committed, logged, wrote, ref, valid, core, lock, panic, userVars>>

-----------------------------------------------------------------------------
(* The machine stops; recovery installs what was committed, and the        *)
(* processes start again in the root with what is left of their plans.     *)

Crash ==
    /\ ~panic /\ crashes < MaxCrashes
    /\ crashes' = crashes + 1
    /\ disk' = committed
    /\ core' = [i \in Inum |-> Blank]
    /\ ref' = [i \in Inum |-> IF i = ROOTINO THEN NPROC ELSE 0]
    /\ valid' = [i \in Inum |-> FALSE]
    /\ lock' = [i \in Inum |-> None]
    /\ outstanding' = 0 /\ logged' = {} /\ wrote' = [p \in Proc |-> {}]
    /\ ftable' = [x \in File |-> NoFile]
    /\ ofile' = [p \in Proc |-> None]
    /\ cwd' = [p \in Proc |-> ROOTINO]
    /\ fr' = [p \in Proc |-> User]
    /\ UNCHANGED <<committed, todo, panic>>

-----------------------------------------------------------------------------
(* The directory a mkdir() made in the root before the processes started. *)
mkdir_inode(z, i, name) == create_inode([z EXCEPT !.core[i] = z.inode[i]], ROOTINO, i, "dir", name)
mkdir_root(z, name) == mkdir_inode(ialloc(z, "dir"), Min(FreeInodes(z)), name)

DiskOf(z) == [inode |-> z.inode, used |-> z.used, cell |-> z.cell]
Mounted(m) == [inode |-> m.inode, used |-> m.used, cell |-> m.cell, core |-> m.inode,
               log |-> {}, panic |-> FALSE, res |-> 0, tot |-> 0]
Image == DiskOf(FoldLeft(mkdir_root, Mounted(mkfs), Made))

Init ==
    /\ disk = Image
    /\ committed = disk
    /\ outstanding = 0 /\ logged = {} /\ wrote = [p \in Proc |-> {}]
    /\ core = [i \in Inum |-> Blank]
    /\ valid = [i \in Inum |-> FALSE]
    /\ lock = [i \in Inum |-> None]
    /\ \E shared \in Shared :
          /\ ref = [i \in Inum |-> CASE i = ROOTINO -> NPROC [] shared /\ i = ROOTINO + 1 -> 1 [] OTHER -> 0]
          /\ ftable = [x \in File |-> IF shared /\ x = 1
                                      THEN [ref |-> NPROC, ip |-> ROOTINO + 1, off |-> 0, writable |-> TRUE]
                                      ELSE NoFile]
          /\ ofile = [p \in Proc |-> IF shared THEN 1 ELSE None]
    /\ cwd = [p \in Proc |-> ROOTINO]
    /\ fr = [p \in Proc |-> User]
    /\ todo \in Plan
    /\ panic = FALSE
    /\ crashes = 0

Step(p) ==
    \/ PathCall(p) \/ sys_exit(p) \/ end_op(p)
    \/ iput(p) \/ iput_free(p) \/ iput_ref(p) \/ namex(p)
    \/ create(p) \/ unlock_dp(p) \/ create_old(p) \/ made(p)
    \/ sys_open(p) \/ sys_chdir(p) \/ exec_ip(p)
    \/ link_ip(p) \/ link_dp(p) \/ link_bad(p)
    \/ sys_unlink(p) \/ unlink_ip(p) \/ unlink_done(p)
    \/ BadFd(p) \/ filestat(p) \/ fileread(p) \/ sys_write(p) \/ filewrite(p) \/ filewrite_ip(p)
    \/ fileclose(p) \/ fileclose_ip(p)

Finished(p) == At(p, "user") /\ todo[p] = <<>>

Done == (\A p \in Proc : Finished(p)) /\ UNCHANGED vars

Next == Crash \/ Done \/ \E p \in Proc : Step(p)

Spec == Init /\ [][Next]_vars

-----------------------------------------------------------------------------
(* Properties. *)

\* Every variable has its type.
TypeOK ==
    /\ \A d \in {disk, committed} :
          /\ d.inode \in [Inum -> Dinode] /\ d.used \subseteq Block
          /\ d.cell \in [Block -> [0 .. NINDIRECT - 1 -> STRING \X Nat]]
    /\ outstanding \in 0 .. NPROC /\ panic \in BOOLEAN /\ crashes \in 0 .. MaxCrashes
    /\ ref \in [Inum -> Nat] /\ valid \in [Inum -> BOOLEAN] /\ core \in [Inum -> Dinode]
    /\ lock \in [Inum -> Proc \cup {None}]
    /\ ofile \in [Proc -> File \cup {None}] /\ cwd \in [Proc -> Inum \cup {None}]
    /\ \A x \in File : ftable[x].ref \in 0 .. NPROC /\ ftable[x].off \in 0 .. MAXFILE * BSIZE

\* How often process p's call refers to inode i.
Holds(p, i) ==
    Cardinality({k \in {"cur", "ip", "dp"} : fr[p][k] = i})
    + Cardinality({k \in DOMAIN fr[p].puts : fr[p].puts[k] = i})

\* The pointers to inode i: working directories, open files, and what calls in progress
\* hold.
Pointers(i) ==
    Cardinality({p \in Proc : cwd[p] = i})
    + Cardinality({x \in File : ftable[x].ref > 0 /\ ftable[x].ip = i})
    + FoldSet(LAMBDA p, s : s + Holds(p, i), 0, Proc)

\* What the inode table says is true.  ip->ref is the number of pointers to the inode:
\* every path out of every call, failing ones included, puts exactly what it got.  And a
\* valid copy that nobody has locked is what is on the disk, although an inode may be
\* freed and its number allocated again while the slot is still referred to.
TableFaithful ==
    /\ TypeOK
    /\ \A i \in Inum : ref[i] = Pointers(i)
    /\ \A i \in Inum : (valid[i] /\ Free(i)) => core[i] = disk.inode[i]

\* The blocks listed by inodes, each as often as it is listed.
Lists(d, b) ==
    FoldSet(LAMBDA i, s :
              s + Cardinality({k \in 0 .. NDIRECT : d.inode[i].addrs[k] = b})
                + FoldSet(LAMBDA a, t : t + Cardinality({k \in 0 .. NINDIRECT - 1 : d.cell[a][k][2] = b}),
                          0, Indirect(d.inode[i])),
            0, Inum)

\* Every block marked in the bitmap is listed by exactly one inode, once, and no other
\* block is, also when the disk fills up in the middle of a write; and no file has
\* a hole, so that bmap() never allocates for a reader.
BlocksAccounted ==
    /\ \A b \in Block : Lists(disk, b) = IF b \in disk.used THEN 1 ELSE 0
    /\ \A i \in Inum : \A bn \in 0 .. MAXFILE - 1 :
          bn * BSIZE < disk.inode[i].size
             => BlockAt([core |-> disk.inode, cell |-> disk.cell], i, bn) # 0

\* No call writes more blocks than begin_op() reserved for it: what Log assumes of its callers.
OpFitsReservation == \A p \in Proc : Cardinality(wrote[p]) <= MAXOPBLOCKS

\* Directory entries of a disk image, "." and ".." left out.
Entries(d, i) ==
    LET z == [core |-> d.inode, cell |-> d.cell]
    IN  {EntryAt(z, i, off) : off \in {o \in Offsets(z, i) \ {0, 1} : EntryAt(z, i, o)[2] # 0}}

\* The inodes that have names in directory i.
Named(d, i) == IF d.inode[i].type = "dir" THEN {e[2] : e \in Entries(d, i)} ELSE {}
Reachable(d) ==
    FoldLeft(LAMBDA S, k : {ROOTINO} \cup UNION {Named(d, i) : i \in S}, {ROOTINO}, [k \in Inum |-> k])

\* How many names inode i has in these directories.
Links(d, dirs, i) == FoldSet(LAMBDA dp, s : s + Cardinality({e \in Entries(d, dp) : e[2] = i}), 0, dirs)

\* What a crash leaves, at any point, is a tree: every name leads to an allocated inode,
\* a directory has one name and its ".." is where that name is, directories count
\* their subdirectories, and no file has more names than links.
FsckClean ==
    LET d == committed
        z == [core |-> d.inode, cell |-> d.cell]
        all == Reachable(d)
        dirs == {i \in all : d.inode[i].type = "dir"}
    IN  /\ \A i \in all : d.inode[i].type # "free" /\ Links(d, dirs, i) <= d.inode[i].nlink
        /\ \A i \in dirs :
              /\ EntryAt(z, i, 0) = <<".", i>>
              /\ EntryAt(z, i, 1)[1] = ".."
              /\ d.inode[i].nlink = 1 + Cardinality({e \in Entries(d, i) : d.inode[e[2]].type = "dir"})
              /\ i # ROOTINO => /\ Links(d, dirs, i) = 1
                                /\ EntryAt(z, i, 1)[2] \in dirs
                                /\ i \in Named(d, EntryAt(z, i, 1)[2])

\* No call reaches a panic: an inode that is looked up is allocated, an unlinked name had
\* a link, a freed block was in use, an entry that was read can be overwritten.  And
\* iput(), which holds itable.lock, does not sleep, which would be panic("sched locks"); its
\* comment: "ip->ref == 1 means no other process can have ip locked, so this
\* acquiresleep() won't block".
NoPanic ==
    /\ ~panic
    /\ \A p \in Proc : (At(p, "iput") /\ LastRef(Head(fr[p].puts))) => Free(Head(fr[p].puts))

\* What p waits for: an inode's sleep lock, or room in the log.
Wants(p) ==
    LET f == fr[p]
    IN  CASE f.pc \in {"namex", "create", "create_old", "open", "chdir", "exec", "link_ip", "link_dp",
                       "unlink", "unlink_ip"} -> f.cur
          [] f.pc = "link_bad" -> f.ip
          [] f.pc = "iput" /\ LastRef(Head(f.puts)) -> Head(f.puts)
          [] f.pc = "writei" -> OpenFile(p).ip
          [] f.pc = "user" /\ ofile[p] # None /\ ~Finished(p) /\ NextCall(p).op \in {"read", "fstat"} ->
                OpenFile(p).ip
          [] OTHER -> None

Begins(p) ==
    \/ fr[p].pc \in {"filewrite", "fileclose"}
    \/ fr[p].pc = "user" /\ ~Finished(p) /\ NextCall(p).op \notin {"read", "write", "fstat", "close"}

Waits(p) == (Wants(p) # None /\ ~Free(Wants(p))) \/ (Begins(p) /\ ~MayBegin)

\* Processes that hold the locks of a directory and want that of an entry, of an inode and
\* want to put a directory, or have a transaction open, never all wait for one another:
\* calls are finite, so every call returns.
NobodyStuck == (\A p \in Proc : Finished(p) \/ Waits(p)) => \A p \in Proc : Finished(p)

-----------------------------------------------------------------------------
(* What a comment of the repository says, and the code does not do. *)

\* kernel/fs.c:111 on an inode: "the number of links referring to it".  When no call is in
\* progress, a file has as many links as the directories of the disk have entries for it.
LinksAreEntries ==
    LET dirs == {i \in Inum : disk.inode[i].type = "dir"}
    IN  outstanding = 0 =>
            \A i \in Inum : disk.inode[i].type = "file" => disk.inode[i].nlink = Links(disk, dirs, i)
=============================================================================
