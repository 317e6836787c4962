------------------------------- MODULE Inode -------------------------------
(***************************************************************************)
(* Blocks, inodes and directories of kernel/fs.c as functions on the       *)
(* state they work on, and the image mkfs/mkfs.c leaves on the disk.       *)
(*                                                                         *)
(* A function takes and returns a record z: the disk as the buffer cache   *)
(* shows it (inode, used, cell), the copies of inodes in memory (core),    *)
(* the blocks given to log_write() (log), whether the kernel has panicked  *)
(* (panic), the value the C function returned (res), and how much writei() *)
(* has written (tot).  Which locks a caller holds is Fs's business.        *)
(*                                                                         *)
(* A block holds BSIZE cells; a cell is a directory entry, or a byte of a  *)
(* file, or in an indirect block one of NINDIRECT block numbers.  The      *)
(* bytes of files are not told apart, and are zero.  Sizes and offsets     *)
(* count cells.                                                            *)
(***************************************************************************)
EXTENDS Integers, Sequences, FiniteSets, FiniteSetsExt, SequencesExt

CONSTANTS
    NINODES,    \* inodes are numbered 1 .. NINODES - 1
    FSSIZE,     \* data blocks are numbered nmeta .. FSSIZE - 1
    nmeta,
    NDIRECT, NINDIRECT, BSIZE,
    IPB,        \* inodes per block
    Files       \* what mkfs copies: a sequence of <<name, size>>

Inum == 1 .. NINODES - 1
Block == nmeta .. FSSIZE - 1
ROOTINO == 1
MAXFILE == NDIRECT + NINDIRECT

ASSUME InodeAssumption ==
    /\ {NINODES, FSSIZE, nmeta, NDIRECT, NINDIRECT, BSIZE, IPB} \subseteq Nat \ {0}
    /\ BSIZE <= NINDIRECT

Zero == <<"", 0>>
ZeroBlock == [k \in 0 .. NINDIRECT - 1 |-> Zero]
Blank == [type |-> "free", nlink |-> 0, size |-> 0, addrs |-> [k \in 0 .. NDIRECT |-> 0]]

IBLOCK(i) == <<"inode", i \div IPB>>
BBLOCK == <<"bitmap", 0>>
Data(b) == <<"data", b>>

Dinode ==
    [type : {"free", "dir", "file", "dev"}, nlink : Nat, size : 0 .. MAXFILE * BSIZE,
     addrs : [0 .. NDIRECT -> Block \cup {0}]]

-----------------------------------------------------------------------------
(* Blocks. *)

TakeBlock(z, b) ==
    [z EXCEPT !.res = b, !.used = @ \cup {b}, !.cell[b] = ZeroBlock, !.log = @ \cup {BBLOCK, Data(b)}]

balloc(z) ==
    IF Block \subseteq z.used THEN [z EXCEPT !.res = 0] ELSE TakeBlock(z, Min(Block \ z.used))

\* ip->addrs[n], allocated if it is zero.
SetSlot(z, i, n) == IF z.res = 0 THEN z ELSE [z EXCEPT !.core[i].addrs[n] = z.res]
Slot(z, i, n) ==
    IF z.core[i].addrs[n] # 0 THEN [z EXCEPT !.res = z.core[i].addrs[n]] ELSE SetSlot(balloc(z), i, n)

\* The k-th number in the indirect block z.res, if there is one, allocated if it is zero.
SetListed(z, ind, k) ==
    IF z.res = 0 THEN z ELSE [z EXCEPT !.cell[ind][k] = <<"", z.res>>, !.log = @ \cup {Data(ind)}]
ListedSlot(z, k) ==
    IF z.res = 0 THEN z
    ELSE IF z.cell[z.res][k][2] # 0 THEN [z EXCEPT !.res = z.cell[z.res][k][2]]
    ELSE SetListed(balloc(z), z.res, k)

bmap(z, i, bn) ==
    IF bn < NDIRECT THEN Slot(z, i, bn) ELSE ListedSlot(Slot(z, i, NDIRECT), bn - NDIRECT)

\* The blocks a dinode names: its own, the indirect block, and what that lists.
Listed(cell, b) == {cell[b][k][2] : k \in 0 .. NINDIRECT - 1} \ {0}
Direct(di) == {di.addrs[k] : k \in 0 .. NDIRECT - 1} \ {0}
Indirect(di) == {di.addrs[NDIRECT]} \ {0}
BlocksOf(cell, di) == Direct(di) \cup Indirect(di) \cup UNION {Listed(cell, b) : b \in Indirect(di)}

-----------------------------------------------------------------------------
(* Inodes. *)

iupdate(z, i) == [z EXCEPT !.inode[i] = z.core[i], !.log = @ \cup {IBLOCK(i)}]

\* bfree() of a set of blocks.
bfree(z, bs) ==
    [z EXCEPT !.used = @ \ bs, !.panic = @ \/ ~(bs \subseteq z.used),
              !.log = IF bs = {} THEN @ ELSE @ \cup {BBLOCK}]

Cleared(z, i) == [z EXCEPT !.core[i].addrs = Blank.addrs, !.core[i].size = 0]
itrunc(z, i) == iupdate(Cleared(bfree(z, BlocksOf(z.cell, z.core[i])), i), i)

TakeInode(z, i, type) ==
    [z EXCEPT !.res = i, !.inode[i] = [Blank EXCEPT !.type = type], !.log = @ \cup {IBLOCK(i)}]

FreeInodes(z) == {i \in Inum : z.inode[i].type = "free"}
ialloc(z, type) ==
    IF FreeInodes(z) = {} THEN [z EXCEPT !.res = 0] ELSE TakeInode(z, Min(FreeInodes(z)), type)

\* The block of a file's bn-th block, in a file without holes.
BlockAt(z, i, bn) ==
    IF bn < NDIRECT THEN z.core[i].addrs[bn]
    ELSE z.cell[z.core[i].addrs[NDIRECT]][bn - NDIRECT][2]

readi(z, i, off, n) == IF off > z.core[i].size THEN 0 ELSE Min({n, z.core[i].size - off})

\* The cells of block z.res, which is the file's bn-th, that lie in a range, set to c.
Fill(z, bn, off, n, c) ==
    IF z.res = 0 THEN [z EXCEPT !.tot = Max({0, bn * BSIZE - off})]
    ELSE [z EXCEPT !.cell[z.res] = [k \in DOMAIN @ |->
                                       IF k < BSIZE /\ bn * BSIZE + k \in off .. off + n - 1 THEN c ELSE @[k]],
                   !.log = @ \cup {Data(z.res)}]

\* A turn of writei()'s loop; one that found no block was the last.
WriteBlock(z, i, bn, off, n, c) == IF z.res = 0 THEN z ELSE Fill(bmap(z, i, bn), bn, off, n, c)

BlockNumbers(off, n) == [k \in 1 .. (off + n - 1) \div BSIZE - off \div BSIZE + 1 |-> off \div BSIZE + k - 1]

Grown(z, i, off) == [z EXCEPT !.core[i].size = Max({@, off + z.tot}), !.res = z.tot]

writei_lazy(z, i, off, n, c) ==
    LET y == FoldLeft(LAMBDA x, bn : WriteBlock(x, i, bn, off, n, c), [z EXCEPT !.res = 1, !.tot = n],
                      BlockNumbers(off, n))
    IN  IF off > z.core[i].size \/ off + n > MAXFILE * BSIZE THEN [z EXCEPT !.res = -1]
        ELSE IF off + y.tot <= z.core[i].size THEN [y EXCEPT !.res = y.tot]
        ELSE iupdate(Grown(y, i, off), i)

\* n copies of the cell c written at off.  The inode is written back whatever the loop did.
writei(z, i, off, n, c) ==
    IF off > z.core[i].size \/ off + n > MAXFILE * BSIZE
    THEN [z EXCEPT !.res = -1]
    ELSE iupdate(Grown(FoldLeft(LAMBDA x, bn : WriteBlock(x, i, bn, off, n, c),
                                [z EXCEPT !.res = 1, !.tot = n], BlockNumbers(off, n)),
                       i, off), i)

-----------------------------------------------------------------------------
(* Directories. *)

EntryAt(z, dp, off) == z.cell[BlockAt(z, dp, off \div BSIZE)][off % BSIZE]
Offsets(z, dp) == 0 .. z.core[dp].size - 1

Found(z, dp, name) == {off \in Offsets(z, dp) : EntryAt(z, dp, off)[2] # 0 /\ EntryAt(z, dp, off)[1] = name}

\* Where name is found; -1 if nowhere.
dirlookup(z, dp, name) == IF Found(z, dp, name) = {} THEN -1 ELSE Min(Found(z, dp, name))

FreeEntry(z, dp) == Min({off \in Offsets(z, dp) : EntryAt(z, dp, off)[2] = 0} \cup {z.core[dp].size})

\* The iput() of an entry that is there only undoes the iget() of the look-up.
WroteOne(z) == [z EXCEPT !.res = IF z.res = 1 THEN 0 ELSE -1]
dirlink(z, dp, name, inum) ==
    IF dirlookup(z, dp, name) # -1
    THEN [z EXCEPT !.res = -1]
    ELSE WroteOne(writei(z, dp, FreeEntry(z, dp), 1, <<name, inum>>))

isdirempty(z, dp) == \A off \in Offsets(z, dp) \ {0, 1} : EntryAt(z, dp, off)[2] = 0

-----------------------------------------------------------------------------
(* mkfs: blocks and inodes are handed out in order, the bitmap comes last. *)

\* freeblock++ for a block number that is still zero.
MkBlock(m, a) == IF a # 0 THEN [m EXCEPT !.res = a] ELSE [m EXCEPT !.res = m.freeblock, !.freeblock = @ + 1]

SetMkSlot(m, i, n) == [m EXCEPT !.inode[i].addrs[n] = m.res]
SetMkListed(m, ind, k) == [m EXCEPT !.cell[ind][k] = <<"", m.res>>]
MkListed(m, k) == SetMkListed(MkBlock(m, m.cell[m.res][k][2]), m.res, k)

\* The block of the file for its next cell, in m.res.
MkSlot(m, i, n) == SetMkSlot(MkBlock(m, m.inode[i].addrs[n]), i, n)
MkMap(m, i, fbn) == IF fbn < NDIRECT THEN MkSlot(m, i, fbn) ELSE MkListed(MkSlot(m, i, NDIRECT), fbn - NDIRECT)

MkPut(m, i, off, c) == [m EXCEPT !.cell[m.res][off % BSIZE] = c, !.inode[i].size = off + 1]

\* n cells c appended; iappend() works block by block to the same effect.
iappend(m, i, c, n) ==
    FoldLeft(LAMBDA y, k : MkPut(MkMap(y, i, y.inode[i].size \div BSIZE), i, y.inode[i].size, c),
             m, [k \in 1 .. n |-> k])

mkfs_ialloc(m, type) ==
    [m EXCEPT !.inode[m.freeinode] = [Blank EXCEPT !.type = type, !.nlink = 1], !.freeinode = @ + 1]

mkfs_file(m, f) ==
    iappend(iappend(mkfs_ialloc(m, "file"), ROOTINO, <<f[1], m.freeinode>>, 1), m.freeinode, Zero, f[2])

MkEmpty == [inode |-> [i \in Inum |-> Blank], cell |-> [b \in Block |-> ZeroBlock],
            freeblock |-> nmeta, freeinode |-> 1, res |-> 0]

MkRoot ==
    iappend(iappend(mkfs_ialloc(MkEmpty, "dir"), ROOTINO, <<".", ROOTINO>>, 1), ROOTINO, <<"..", ROOTINO>>, 1)

\* The root's size is made a whole number of blocks, and the bitmap is written.
MkEnd(m) ==
    [inode |-> [m.inode EXCEPT ![ROOTINO].size = ((@ \div BSIZE) + 1) * BSIZE],
     cell |-> m.cell,
     used |-> {b \in Block : b < m.freeblock}]

mkfs == MkEnd(FoldLeft(mkfs_file, MkRoot, Files))
=============================================================================
