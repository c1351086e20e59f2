------------------------------- MODULE Inode -------------------------------
(***************************************************************************)
(* Inodes, their sectors and the free map (filesys/inode.c, free-map.c and *)
(* the counting in file.c).                                                *)
(*                                                                         *)
(* A sector holds DISK_SECTOR_SIZE bytes, or as many sector numbers: in    *)
(* the model a number takes one byte, so the 512 and the 128 of the code   *)
(* are the same constant and its arithmetic is otherwise kept.  Every      *)
(* operation runs under filesys_lock and is one step.  The buffers         *)
(* indirect_sec_idx, doubly_sec_parent and doubly_sec_idx are zero between *)
(* operations.  The directory is the set linked of inodes it names.        *)
(*                                                                         *)
(* ERROR is BITMAP_ERROR and any other number that is no sector: the disk  *)
(* driver stops the kernel when it is asked for one, and disk[ERROR] shows *)
(* that it was.                                                            *)
(***************************************************************************)
EXTENDS Integers, FiniteSets, SequencesExt

CONSTANTS
  DISK_SECTOR_SIZE,
  DIRECT_LEN,
  DiskSize,
  Formatted,   \* sectors taken by formatting: free map and root directory
  Files,       \* struct file
  NULL,
  Offsets,     \* where writes start
  Sizes,       \* and how long they are
  Lengths,     \* lengths of files at their creation
  MaxFiles,    \* inodes ever created; none of their sectors is reused
  MaxGrow,     \* a write may extend a file up to here
  MaxRemove,   \* only files up to this length are removed
  MinFree      \* sectors that stay free

ASSUME InodeAssumption ==
  /\ DISK_SECTOR_SIZE \in Nat \ {0} /\ DIRECT_LEN \in Nat \ {0}
  /\ DiskSize \in Nat /\ Formatted \in 1..DiskSize /\ NULL \notin 0..DiskSize
  /\ Offsets \cup Lengths \subseteq Nat /\ Sizes \subseteq 1..DiskSize
  /\ {MaxFiles, MaxGrow, MaxRemove, MinFree} \subseteq Nat
  /\ IsFiniteSet(Files) /\ NULL \notin [inode : 0..DiskSize-1, deny_write : BOOLEAN]

VARIABLES
  disk,          \* what each sector holds
  free_map,      \* sectors in use
  open_inodes,   \* struct inode by its sector
  file,          \* struct file: its inode and deny_write
  linked,        \* inodes a directory entry names
  panic

vars == <<disk, free_map, open_inodes, file, linked, panic>>

Sectors == 0..DiskSize-1
ERROR == DiskSize
Index == 0..DISK_SECTOR_SIZE-1
Words == 0..DiskSize

InodeDisk == [length : Nat, direct_block : [0..DIRECT_LEN-1 -> Words],
              indirect_block : Words, doubly_indirect_block : Words]

Raw(bytes) == [kind |-> "raw", bytes |-> bytes]
Stored(data) == [kind |-> "inode", inode |-> data]
Zeros == [i \in Index |-> 0]
Junk == [i \in Index |-> ERROR]

\* What is written: bytes that are not 0 and differ from their neighbours.
Buffers == {[i \in 0..n-1 |-> i + 1] : n \in Sizes}

Init ==
  /\ disk = [s \in Words |-> Raw(Junk)]
  /\ free_map = 0..Formatted-1
  /\ open_inodes = << >>
  /\ file = [f \in Files |-> NULL]
  /\ linked = {}
  /\ panic = FALSE

-----------------------------------------------------------------------------
(* The free map.                                                           *)

\* bitmap_scan_and_flip: the first free sector, or ERROR; and the map after it.
Scan(map) == IF Sectors \subseteq map THEN ERROR ELSE Min(Sectors \ map)
Flip(map) == map \cup ({Scan(map)} \ {ERROR})

\* The map, the inode and the three index buffers that free_map_allocate_index
\* works on.
Buffered(map, data) ==
  [map |-> map, data |-> data, indirect |-> Zeros, parent |-> Zeros,
   doubly |-> [i \in 0..DISK_SECTOR_SIZE*DISK_SECTOR_SIZE-1 |-> 0]]

\* One turn of the loop of free_map_allocate_index.  A full disk is passed
\* over in silence.
AllocateBlock(a, i) ==
  LET s1 == Scan(a.map)  m1 == Flip(a.map)
      s2 == Scan(m1)     m2 == Flip(m1)
      s3 == Scan(m2)     m3 == Flip(m2)
      k == i - DIRECT_LEN
      temp == k - DISK_SECTOR_SIZE
  IN  CASE s1 = ERROR -> a
        [] s1 # ERROR /\ k < 0 ->
             [a EXCEPT !.map = m1, !.data.direct_block[i] = s1]
        [] s1 # ERROR /\ k = 0 ->
             [a EXCEPT !.map = m2, !.data.indirect_block = s1, !.indirect[0] = s2]
        [] s1 # ERROR /\ k > 0 /\ temp < 0 ->
             [a EXCEPT !.map = m1, !.indirect[k] = s1]
        [] s1 # ERROR /\ temp = 0 ->
             [a EXCEPT !.map = m3, !.data.doubly_indirect_block = s1,
                       !.parent[0] = s2, !.doubly[0] = s3]
        [] s1 # ERROR /\ temp > 0 /\ temp % DISK_SECTOR_SIZE = 0 ->
             [a EXCEPT !.map = m2, !.parent[temp \div DISK_SECTOR_SIZE] = s1,
                       !.doubly[temp] = s2]
        [] OTHER -> [a EXCEPT !.map = m1, !.doubly[temp] = s1]

Count(first, n) == [i \in 1..n |-> first + i - 1]

free_map_allocate_index(start, cnt, a) == FoldLeft(AllocateBlock, a, Count(start, cnt))

-----------------------------------------------------------------------------
(* The disk.                                                               *)

Put(d, s, bytes) == [d EXCEPT ![s] = Raw(bytes)]

\* The bytes of sector s.  The bytes of an inode mean nothing as data.
Get(d, s) == IF d[s].kind = "raw" THEN d[s].bytes ELSE Junk

Group(doubly, i) == [j \in Index |-> doubly[i * DISK_SECTOR_SIZE + j]]

\* Write the index buffers of a file of n sectors.
WriteIndex(d, a, n) ==
  LET d1 == IF n > DIRECT_LEN THEN Put(d, a.data.indirect_block, a.indirect) ELSE d
      groups == (n - DIRECT_LEN - DISK_SECTOR_SIZE) \div DISK_SECTOR_SIZE
  IN  IF n > DIRECT_LEN + DISK_SECTOR_SIZE
      THEN FoldLeft(LAMBDA e, i : Put(e, a.parent[i], Group(a.doubly, i)),
                    Put(d1, a.data.doubly_indirect_block, a.parent),
                    Count(0, groups + 1))
      ELSE d1

\* The sector of block b, looked up in the index buffers.
BufferedSector(a, b) ==
  LET k == b - DIRECT_LEN
  IN  CASE k < 0 -> a.data.direct_block[b]
        [] k \in Index -> a.indirect[k]
        [] OTHER -> a.doubly[k - DISK_SECTOR_SIZE]

\* The sector of block b, looked up on disk.
Sector(d, data, b) ==
  LET k == b - DIRECT_LEN
      c == k - DISK_SECTOR_SIZE
  IN  CASE k < 0 -> data.direct_block[b]
        [] k \in Index -> Get(d, data.indirect_block)[k]
        [] OTHER -> Get(d, Get(d, data.doubly_indirect_block)
                             [c \div DISK_SECTOR_SIZE])[c % DISK_SECTOR_SIZE]

\* inode_read_at from offset 0 to the end of the file.
inode_read_at(d, data) ==
  [i \in 0..data.length-1 |->
     Get(d, Sector(d, data, i \div DISK_SECTOR_SIZE))[i % DISK_SECTOR_SIZE]]

\* The inodes whose content somebody can still get at, and their data.
Live == linked \cup DOMAIN open_inodes
Data(s) == IF s \in DOMAIN open_inodes THEN open_inodes[s].data ELSE disk[s].inode

-----------------------------------------------------------------------------
(* Creating and opening files.                                             *)

bytes_to_sectors(size) == (size + DISK_SECTOR_SIZE - 1) \div DISK_SECTOR_SIZE

Fresh(length) ==
  [length |-> length, direct_block |-> [i \in 0..DIRECT_LEN-1 |-> 0],
   indirect_block |-> 0, doubly_indirect_block |-> 0]

\* The bound MinFree: with at least one sector left free no scan has failed.
Room(map) == Cardinality(Sectors \ map) >= MinFree

\* filesys_create: a sector for the inode, inode_create, and the directory entry.
Create(length) ==
  LET sector == Scan(free_map)
      n == bytes_to_sectors(length)
      a == free_map_allocate_index(0, n, Buffered(Flip(free_map), Fresh(length)))
      d == WriteIndex([disk EXCEPT ![sector] = Stored(a.data)], a, n)
      zeroed == FoldLeft(LAMBDA e, i : Put(e, BufferedSector(a, i), Zeros), d, Count(0, n))
  IN  /\ ~panic
      /\ sector # ERROR
      /\ Room(a.map)
      /\ Cardinality({s \in Sectors : disk[s].kind = "inode"}) < MaxFiles
      /\ disk' = zeroed
      /\ free_map' = a.map
      /\ linked' = linked \cup {sector}
      /\ panic' = (zeroed[ERROR] # Raw(Junk))
      /\ UNCHANGED <<open_inodes, file>>

\* inode_open: an inode that is open already is shared.
inode_open(s) ==
  IF s \in DOMAIN open_inodes
  THEN [open_inodes EXCEPT ![s].open_cnt = @ + 1]
  ELSE [x \in DOMAIN open_inodes \cup {s} |->
          IF x = s THEN [open_cnt |-> 1, deny_write_cnt |-> 0, removed |-> FALSE,
                         data |-> disk[s].inode]
          ELSE open_inodes[x]]

\* filesys_open and file_open.
Open(f, s) ==
  /\ ~panic
  /\ file[f] = NULL
  /\ s \in linked
  /\ open_inodes' = inode_open(s)
  /\ file' = [file EXCEPT ![f] = [inode |-> s, deny_write |-> FALSE]]
  /\ UNCHANGED <<disk, free_map, linked, panic>>

-----------------------------------------------------------------------------
(* Closing and removing.                                                   *)

\* free_map_release of each sector in turn, with its assertion.
Release(map, sectors) ==
  FoldLeft(LAMBDA r, s : [map |-> r.map \ {s}, panic |-> r.panic \/ s \notin r.map],
           [map |-> map, panic |-> FALSE], sectors)

\* The sectors inode_close releases, in its order.  Past the end of buffer it
\* reads what stands on the stack.
Releases(data) ==
  LET num_blocks == bytes_to_sectors(data.length)
      k == num_blocks - DIRECT_LEN
      c == k - DISK_SECTOR_SIZE
      Entry(b, i) == IF i \in Index THEN b[i] ELSE ERROR
      direct == [i \in 1..Min({num_blocks, DIRECT_LEN}) |-> data.direct_block[i - 1]]
      buffer == Get(disk, data.indirect_block)
      indirect == <<data.indirect_block>> \o [i \in 1..k+1 |-> Entry(buffer, i - 1)]
      parent == Get(disk, data.doubly_indirect_block)
      Child(i) == <<Entry(parent, i)>>
                  \o [j \in 1..(c % DISK_SECTOR_SIZE)+1 |->
                        Get(disk, Entry(parent, i))[j - 1]]
      doubly == <<data.doubly_indirect_block>>
                \o FlattenSeq([i \in 1..(c \div DISK_SECTOR_SIZE)+1 |-> Child(i - 1)])
  IN  direct \o (IF k > 0 THEN indirect ELSE << >>) \o (IF c > 0 THEN doubly ELSE << >>)

\* Mutant: the sectors of a removed file are released at any close.
InodeCloseEarly(inodes, s) ==
  LET inode == inodes[s]
      r == Release(free_map, IF inode.removed THEN Releases(inode.data) ELSE << >>)
  IN  /\ open_inodes' = IF inode.open_cnt > 1
                        THEN [inodes EXCEPT ![s].open_cnt = @ - 1]
                        ELSE Restrict(inodes, DOMAIN inodes \ {s})
      /\ free_map' = r.map
      /\ panic' = r.panic

\* inode_close of the inode at s in the list inodes.  The sector of the inode
\* itself is not released.
inode_close(inodes, s) ==
  LET inode == inodes[s]
      r == Release(free_map, IF inode.removed THEN Releases(inode.data) ELSE << >>)
  IN  IF inode.open_cnt > 1
      THEN /\ open_inodes' = [inodes EXCEPT ![s].open_cnt = @ - 1]
           /\ UNCHANGED <<free_map, panic>>
      ELSE /\ open_inodes' = Restrict(inodes, DOMAIN inodes \ {s})
           /\ free_map' = r.map
           /\ panic' = r.panic

\* Mutant: a file that denies writes is closed without allowing them again.
AllowedKeeps(f) == open_inodes

\* file_allow_write as part of file_close.
Allowed(f) ==
  IF file[f].deny_write
  THEN [open_inodes EXCEPT ![file[f].inode].deny_write_cnt = @ - 1]
  ELSE open_inodes

Close(f) ==
  /\ ~panic
  /\ file[f] # NULL
  /\ inode_close(Allowed(f), file[f].inode)
  /\ file' = [file EXCEPT ![f] = NULL]
  /\ UNCHANGED <<disk, linked>>

\* dir_remove of a plain file opens the inode, erases the entry, marks the
\* inode and closes it.
DirRemove(s) ==
  LET opened == inode_open(s)
  IN  /\ ~panic
      /\ s \in linked
      /\ opened[s].data.length <= MaxRemove
      /\ linked' = linked \ {s}
      /\ inode_close([opened EXCEPT ![s].removed = TRUE], s)
      /\ UNCHANGED <<disk, file>>

-----------------------------------------------------------------------------
(* Writing.                                                                *)

\* add_blocks: read the index sectors back, allocate, write them again.
add_blocks(data, new_eof, old_eof) ==
  LET old == old_eof \div DISK_SECTOR_SIZE
      new == new_eof \div DISK_SECTOR_SIZE
      partial == old_eof % DISK_SECTOR_SIZE # 0
      k == old - DIRECT_LEN
      c == k - DISK_SECTOR_SIZE
      b == Buffered(free_map, data)
      parent == Get(disk, data.doubly_indirect_block)
      b1 == IF k > 0 THEN [b EXCEPT !.indirect = Get(disk, data.indirect_block)] ELSE b
      b2 == IF c > 0
            THEN [b1 EXCEPT !.parent = parent,
                            !.doubly = [i \in DOMAIN @ |->
                               LET g == i \div DISK_SECTOR_SIZE
                               IN  IF g < c \div DISK_SECTOR_SIZE
                                   THEN Get(disk, parent[g])[i % DISK_SECTOR_SIZE]
                                   ELSE 0]]
            ELSE b1
      a == free_map_allocate_index(old + IF partial THEN 1 ELSE 0,
                                   new - old + IF partial THEN 0 ELSE 1, b2)
  IN  [buffers |-> a, disk |-> WriteIndex(disk, a, new)]

\* fill_zeros: from old_eof on, sector by sector, as long as more than one byte
\* is missing up to offset.
fill_zeros(d, a, old_eof, offset) ==
  LET first == old_eof \div DISK_SECTOR_SIZE
      Start(b) == IF b = first THEN old_eof ELSE b * DISK_SECTOR_SIZE
      blocks == {b \in first..offset : Start(b) < offset - 1}
      Zero(e, b) ==
        LET s == BufferedSector(a, b)
        IN  Put(e, s, [i \in Index |-> IF i < Start(b) % DISK_SECTOR_SIZE
                                       THEN Get(e, s)[i] ELSE 0])
  IN  FoldLeft(Zero, d, Count(first, Cardinality(blocks)))

\* The loop of inode_write_at: each byte into the sector it is looked up in.
WriteBytes(d, data, offset, buffer) ==
  FoldLeft(LAMBDA e, i :
             LET s == Sector(d, data, (offset + i) \div DISK_SECTOR_SIZE)
             IN  Put(e, s, [Get(e, s) EXCEPT ![(offset + i) % DISK_SECTOR_SIZE] = buffer[i]]),
           d, Count(0, Cardinality(DOMAIN buffer)))

\* Mutant: the longer inode is not written to disk.
ExtendNoSave(s, data, new_eof, offset) ==
  LET old_eof == data.length
      kept == [buffers |-> Buffered(free_map, data), disk |-> disk]
      added == IF bytes_to_sectors(old_eof) * DISK_SECTOR_SIZE < new_eof
               THEN add_blocks(data, new_eof, old_eof) ELSE kept
      longer == [added.buffers.data EXCEPT !.length = new_eof]
  IN  [data |-> longer, map |-> added.buffers.map,
       disk |-> fill_zeros(added.disk, added.buffers, old_eof, offset)]

\* A write past the end makes the file longer first.
Extend(s, data, new_eof, offset) ==
  LET old_eof == data.length
      kept == [buffers |-> Buffered(free_map, data), disk |-> disk]
      added == IF bytes_to_sectors(old_eof) * DISK_SECTOR_SIZE < new_eof
               THEN add_blocks(data, new_eof, old_eof) ELSE kept
      longer == [added.buffers.data EXCEPT !.length = new_eof]
      filled == fill_zeros(added.disk, added.buffers, old_eof, offset)
  IN  [data |-> longer, map |-> added.buffers.map,
       disk |-> [filled EXCEPT ![s] = Stored(longer)]]

\* file_write_at and inode_write_at.
Write(f, offset, buffer) ==
  LET s == file[f].inode
      data == open_inodes[s].data
      end == offset + Cardinality(DOMAIN buffer)
      x == IF data.length < end THEN Extend(s, data, end, offset)
           ELSE [data |-> data, map |-> free_map, disk |-> disk]
      written == WriteBytes(x.disk, x.data, offset, buffer)
  IN  /\ ~panic
      /\ file[f] # NULL
      /\ open_inodes[s].deny_write_cnt = 0
      /\ end <= Max({MaxGrow, data.length})
      /\ Room(x.map)
      /\ disk' = written
      /\ free_map' = x.map
      /\ open_inodes' = [open_inodes EXCEPT ![s].data = x.data]
      /\ panic' = (written[ERROR] # Raw(Junk))
      /\ UNCHANGED <<file, linked>>

\* file_deny_write and file_allow_write, with the assertions on the counts.
DenyWrite(f) ==
  LET s == file[f].inode
  IN  /\ ~panic
      /\ file[f] # NULL
      /\ ~file[f].deny_write
      /\ file' = [file EXCEPT ![f].deny_write = TRUE]
      /\ open_inodes' = [open_inodes EXCEPT ![s].deny_write_cnt = @ + 1]
      /\ panic' = (open_inodes'[s].deny_write_cnt > open_inodes[s].open_cnt)
      /\ UNCHANGED <<disk, free_map, linked>>

AllowWrite(f) ==
  LET inode == open_inodes[file[f].inode]
  IN  /\ ~panic
      /\ file[f] # NULL
      /\ file[f].deny_write
      /\ file' = [file EXCEPT ![f].deny_write = FALSE]
      /\ open_inodes' = Allowed(f)
      /\ panic' = (inode.deny_write_cnt \notin 1..inode.open_cnt)
      /\ UNCHANGED <<disk, free_map, linked>>

-----------------------------------------------------------------------------
MaxLen == Max(Lengths \cup {MaxGrow})

Next ==
  \/ \E length \in Lengths : Create(length)
  \/ \E f \in Files : \E s \in linked : Open(f, s)
  \/ \E f \in Files : Close(f)
  \/ \E s \in linked : DirRemove(s)
  \/ \E f \in Files, offset \in Offsets, buffer \in Buffers : Write(f, offset, buffer)
  \/ \E f \in Files : DenyWrite(f)
  \/ \E f \in Files : AllowWrite(f)

Spec == Init /\ [][Next]_vars

-----------------------------------------------------------------------------
(* Properties.                                                             *)

\* The types of the variables.
TypeOK ==
  /\ DOMAIN disk = Words
  /\ \A s \in Words :
       IF disk[s].kind = "raw" THEN disk[s].bytes \in [Index -> Words]
       ELSE disk[s].inode \in InodeDisk
  /\ free_map \subseteq Sectors
  /\ DOMAIN open_inodes \subseteq Sectors
  /\ \A s \in DOMAIN open_inodes : open_inodes[s] \in
       [open_cnt : 1..Cardinality(Files), deny_write_cnt : 0..Cardinality(Files),
        removed : BOOLEAN, data : InodeDisk]
  /\ file \in [Files -> [inode : Sectors, deny_write : BOOLEAN] \cup {NULL}]
  /\ linked \subseteq Sectors
  /\ panic \in BOOLEAN

Store == INSTANCE FileStore WITH
  Ids <- Sectors, file <- [s \in Live |-> inode_read_at(disk, Data(s))]

\* The inode layer implements FileStore: whatever index sectors, free map,
\* caching of open inodes and deferred removal do, a file changes only by
\* writes to it, reads back what was written, and survives being closed.
ImplementsStore == Store!Spec

\* All sectors of the inode at s, itself included, in a sequence.
Occupied(s) ==
  LET data == Data(s)
      n == bytes_to_sectors(data.length)
      c == n - DIRECT_LEN - DISK_SECTOR_SIZE
      parents == (c + DISK_SECTOR_SIZE - 1) \div DISK_SECTOR_SIZE
  IN  <<s>> \o [b \in 1..n |-> Sector(disk, data, b - 1)]
      \o (IF n > DIRECT_LEN THEN <<data.indirect_block>> ELSE << >>)
      \o (IF c > 0 THEN <<data.doubly_indirect_block>>
                        \o [i \in 1..parents |-> Get(disk, data.doubly_indirect_block)[i - 1]]
          ELSE << >>)

\* A sector has one use: no two blocks, index sectors or inodes of files that
\* can still be reached are the same sector, none belongs to the free map or
\* the root directory, and the free map says that each is in use
\* (free_map_allocate_index against inode_close); and so no assertion of
\* free_map_release fails and the disk is not asked for a sector it has not.
SectorsExclusive ==
  /\ ~panic
  /\ \A s \in Live : /\ IsInjective(Occupied(s))
                     /\ Range(Occupied(s)) \subseteq free_map \ (0..Formatted-1)
  /\ \A s, t \in Live : s # t => Range(Occupied(s)) \cap Range(Occupied(t)) = {}

\* The files that have the inode at s open, and those that deny writes to it.
Openers(s) == {f \in Files : file[f] # NULL /\ file[f].inode = s}
Deniers(s) == {f \in Openers(s) : file[f].deny_write}

\* An inode is in memory exactly as long as some file refers to it, and its two
\* counts are the numbers of files that have it open and that deny writes to
\* it, however files are opened, closed, removed and denied writing.
CountsExact ==
  \A s \in Sectors :
    IF s \in DOMAIN open_inodes
    THEN /\ Openers(s) # {}
         /\ open_inodes[s].open_cnt = Cardinality(Openers(s))
         /\ open_inodes[s].deny_write_cnt = Cardinality(Deniers(s))
    ELSE Openers(s) = {}
=============================================================================
