------------------------------ MODULE Minixfs ------------------------------
(***************************************************************************)
(* finding_filesystems/minixfs.c: files with direct and indirect blocks in *)
(* one directory.  A block holds BlockSize bytes, or as many entries as    *)
(* are needed (the block numbers of an indirect block, the names of a      *)
(* directory).  Block 0 is UNASSIGNED_NODE; get_inode, the inode and block *)
(* maps and minixfs_min_blockcount are external, the last modelled by what *)
(* minixfs_write and its tests expect: it creates the file if need be,     *)
(* adds blocks one by one and fails when none is left.  Times are left     *)
(* out.                                                                    *)
(***************************************************************************)
EXTENDS Integers, Sequences, FiniteSetsExt, SequencesExt, TLC

CONSTANTS Paths, Disk,   \* the blocks of the disk, numbers from 1 on
          BlockSize, NUM_DIRECT_BLOCKS, NUM_INDIRECT_BLOCKS,
          MaxInodes, EntriesPerBlock, Offsets, Counts,
          MaxCalls

VARIABLES fs,      \* the file system, a record of
                   \*   inodes   the inode of every path that exists,
                   \*   dir      the blocks of the directory,
                   \*   used     the data map,
                   \*   data     the bytes of every block,
                   \*   table    the entries of every indirect block
          wrote,   \* history: the byte last written at every place of every path
          calls    \* history: the calls so far

vars == <<fs, wrote, calls>>

Unassigned == 0
Unwritten == 0
MaxBytes == BlockSize * (NUM_DIRECT_BLOCKS + NUM_INDIRECT_BLOCKS)

NewInode == [size |-> 0, perm |-> "rw", uid |-> 0, gid |-> 0,
             direct |-> [i \in 0..(NUM_DIRECT_BLOCKS - 1) |-> Unassigned], indirect |-> Unassigned]

Init == /\ fs = [inodes |-> <<>>, dir |-> <<>>, used |-> {},
                 data |-> [b \in Disk |-> [i \in 0..(BlockSize - 1) |-> Unwritten]],
                 table |-> [b \in Disk |-> [i \in 0..(NUM_INDIRECT_BLOCKS - 1) |-> Unassigned]]]
        /\ wrote = [p \in Paths |-> [i \in 0..(MaxBytes - 1) |-> Unwritten]]
        /\ calls = 0

Exists(f, p) == p \in DOMAIN f.inodes
Full(f) == f.used = Disk
FirstUnused(f) == Min(Disk \ f.used)

-----------------------------------------------------------------------------
\* The directory gets a block when the last one is full.
minixfs_create_inode_for_path(f, p) ==
    IF Exists(f, p) \/ Cardinality(DOMAIN f.inodes) = MaxInodes THEN f
    ELSE LET g == [f EXCEPT !.inodes = p :> NewInode @@ @]
         IN IF Cardinality(DOMAIN f.inodes) < EntriesPerBlock * Len(f.dir) THEN g
            ELSE [g EXCEPT !.dir = Append(@, FirstUnused(f)), !.used = @ \union {FirstUnused(f)}]

\* The block of a file with number bnum.
Lookup(f, p, bnum) ==
    LET node == f.inodes[p]
    IN IF bnum < NUM_DIRECT_BLOCKS THEN node.direct[bnum]
       ELSE IF node.indirect = Unassigned THEN Unassigned
       ELSE f.table[node.indirect][bnum - NUM_DIRECT_BLOCKS]

\* One more block for p, with number bnum; the first indirect one takes a
\* block for the table as well.
AddBlock(f, p, bnum) ==
    IF Full(f) THEN f
    ELSE LET b == FirstUnused(f)
             g == [f EXCEPT !.used = @ \union {b}]
             t == f.inodes[p].indirect
         IN IF bnum < NUM_DIRECT_BLOCKS THEN [g EXCEPT !.inodes[p].direct[bnum] = b]
            ELSE IF t # Unassigned THEN [g EXCEPT !.table[t][bnum - NUM_DIRECT_BLOCKS] = b]
            ELSE LET h == [g EXCEPT !.inodes[p].indirect = b]
                 IN IF Full(g) THEN h
                    ELSE [h EXCEPT !.used = @ \union {FirstUnused(g)},
                                   !.table[b][bnum - NUM_DIRECT_BLOCKS] = FirstUnused(g)]

\* minixfs_min_blockcount: the blocks that are there are kept, also on failure.
MinBlockcount(f, p, n) ==
    LET created == minixfs_create_inode_for_path(f, p)
    IN IF ~Exists(created, p) THEN created
       ELSE FoldLeft(LAMBDA g, bnum :
               IF Lookup(g, p, bnum) # Unassigned THEN g ELSE AddBlock(g, p, bnum),
             created, [i \in 1..Min({n, NUM_DIRECT_BLOCKS + NUM_INDIRECT_BLOCKS}) |-> i - 1])
Enough(f, p, n) == /\ Exists(f, p)
                   /\ n <= NUM_DIRECT_BLOCKS + NUM_INDIRECT_BLOCKS
                   /\ \A bnum \in 0..(n - 1) : Lookup(f, p, bnum) # Unassigned

\* Mutant of BlockCount: one block too few.
BlockCountShort(end) == end \div BlockSize

\* The blocks a write up to byte end needs, one more than that when it ends
\* with a block.
BlockCount(end) == end \div BlockSize + 1

\* The loop of minixfs_write: byte i of buf goes to byte off + i - 1 of p.
Put(f, p, off, buf) ==
    LET stored == [i \in DOMAIN buf |-> [b |-> Lookup(f, p, (off + i - 1) \div BlockSize),
                                         at |-> (off + i - 1) % BlockSize]]
    IN [f EXCEPT !.data = [b \in Disk |-> [at \in 0..(BlockSize - 1) |->
           LET hits == {i \in DOMAIN buf : stored[i] = [b |-> b, at |-> at]}
           IN IF hits = {} THEN f.data[b][at] ELSE buf[Max(hits)]]]]

\* The size becomes the end of what was written, also when it was larger.
minixfs_write(p, off, buf) ==
    LET n == BlockCount(off + Len(buf))
        grown == MinBlockcount(fs, p, n)
    IN IF ~Enough(grown, p, n)
       THEN fs' = grown /\ UNCHANGED wrote
       ELSE /\ fs' = [Put(grown, p, off, buf) EXCEPT !.inodes[p].size = off + Len(buf)]
            /\ wrote' = [wrote EXCEPT ![p] = [i \in DOMAIN @ |->
                           IF i \in off..(off + Len(buf) - 1) THEN buf[i - off + 1] ELSE @[i]]]

\* What minixfs_read stores.  size - *off is unsigned: beyond the end of the
\* file nothing limits the count.
minixfs_read(p, off, count) ==
    LET size == fs.inodes[p].size
        unread == IF off > size THEN count ELSE Min({size - off, count})
    IN [i \in 1..unread |-> LET b == Lookup(fs, p, (off + i - 1) \div BlockSize)
                            IN IF b = Unassigned THEN Unwritten
                               ELSE fs.data[b][(off + i - 1) % BlockSize]]

\* The numbers in the virtual file "info".
minixfs_virtual_read == [free |-> Cardinality(Disk) - Cardinality(fs.used),
                         used |-> Cardinality(fs.used)]

minixfs_chmod(p, new_permissions) ==
    /\ fs' = IF Exists(fs, p) THEN [fs EXCEPT !.inodes[p].perm = new_permissions] ELSE fs
    /\ UNCHANGED wrote

\* -1 leaves an owner as it is.
minixfs_chown(p, owner, group) ==
    /\ fs' = IF Exists(fs, p)
             THEN [fs EXCEPT !.inodes[p].uid = IF owner # -1 THEN owner ELSE @,
                             !.inodes[p].gid = IF group # -1 THEN group ELSE @]
             ELSE fs
    /\ UNCHANGED wrote

Create(p) == fs' = minixfs_create_inode_for_path(fs, p) /\ UNCHANGED wrote

\* What is written differs from byte to byte and from call to call.
Buffer(n) == [i \in 1..n |-> 10 * (calls + 1) + i]

Next == /\ calls < MaxCalls /\ calls' = calls + 1
        /\ \E p \in Paths :
             \/ Create(p)
             \/ \E off \in Offsets, n \in Counts : minixfs_write(p, off, Buffer(n))
             \/ minixfs_chmod(p, "r")
             \/ \E id \in {1, -1} : minixfs_chown(p, id, -id)

Spec == Init /\ [][Next]_vars

-----------------------------------------------------------------------------
BlocksOf(p) == {Lookup(fs, p, n) : n \in 0..(NUM_DIRECT_BLOCKS + NUM_INDIRECT_BLOCKS - 1)}
                 \union {fs.inodes[p].indirect}

(***************************************************************************)
(* minixfs_read returns, at every offset up to the end of the file and for *)
(* every count, what minixfs_write last wrote there: across blocks and the *)
(* step from direct to indirect ones, after writes that ran out of space,  *)
(* and whatever was written to other files.                                *)
(***************************************************************************)
ReadsWhatWasWritten ==
    \A p \in DOMAIN fs.inodes : \A off \in 0..fs.inodes[p].size, n \in Counts :
      LET got == minixfs_read(p, off, n)
      IN /\ Len(got) = Min({n, fs.inodes[p].size - off})
         /\ \A i \in DOMAIN got : got[i] = wrote[p][off + i - 1]

(***************************************************************************)
(* Every block the data map counts as used (the virtual file "info"        *)
(* reports the number) belongs to one file, to one table or to the         *)
(* directory, and none to two.                                             *)
(***************************************************************************)
BlocksAccounted ==
    LET owners == {BlocksOf(p) \ {Unassigned} : p \in DOMAIN fs.inodes} \union {ToSet(fs.dir)}
    IN /\ UNION owners = fs.used
       /\ \A p, q \in DOMAIN fs.inodes : p # q => BlocksOf(p) \cap BlocksOf(q) \subseteq {Unassigned}
       /\ minixfs_virtual_read.used = Cardinality(UNION owners)

MinixfsSound == ReadsWhatWasWritten /\ BlocksAccounted
=============================================================================
