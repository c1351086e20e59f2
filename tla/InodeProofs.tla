---------------------------- MODULE InodeProofs ----------------------------
(***************************************************************************)
(* What is proved of Inode, for every disk, number of files and bound on   *)
(* their lengths: the counts of the open inodes.                           *)
(***************************************************************************)
EXTENDS Inode, FiniteSetTheorems, WellFoundedInduction, TLAPS

\* What an open inode is made of.
IsInode(x) ==
  x = [open_cnt |-> x.open_cnt, deny_write_cnt |-> x.deny_write_cnt,
       removed |-> x.removed, data |-> x.data]

\* The counts, with what they need of the other variables.  CountsExact alone
\* does not say that the files refer to sectors of the disk.
CountInv ==
  /\ file \in [Files -> [inode : Sectors, deny_write : BOOLEAN] \cup {NULL}]
  /\ linked \subseteq Sectors
  /\ DOMAIN open_inodes \subseteq Sectors
  /\ open_inodes = [s \in DOMAIN open_inodes |-> open_inodes[s]]
  /\ \A s \in DOMAIN open_inodes : IsInode(open_inodes[s])
  /\ CountsExact

-----------------------------------------------------------------------------
(* Counting.                                                               *)

\* Sets of files are finite.
LEMMA FilesCounted ==
  ASSUME NEW S, S \subseteq Files
  PROVE  IsFiniteSet(S) /\ Cardinality(S) \in Nat
BY InodeAssumption, FS_Subset, FS_CardinalityType

\* One file more, and one file less.
LEMMA OneMore ==
  ASSUME NEW S, S \subseteq Files, NEW f \in Files, f \notin S
  PROVE  Cardinality(S \cup {f}) = Cardinality(S) + 1
BY FilesCounted, FS_AddElement, Zenon

LEMMA OneLess ==
  ASSUME NEW S, S \subseteq Files, NEW f \in S
  PROVE  Cardinality(S \ {f}) = Cardinality(S) - 1
BY FilesCounted, FS_RemoveElement

\* The sector bitmap_scan_and_flip finds is one of the disk.
LEMMA ScanIsSector ==
  ASSUME NEW map, Scan(map) # ERROR
  PROVE  Scan(map) \in Sectors
<1>1. PICK S : S = Sectors \ map
  BY Zenon
<1>2. S # {} /\ Scan(map) = Min(S)
  BY <1>1 DEF Scan
<1>3. S \subseteq Nat
  BY <1>1, InodeAssumption DEF Sectors
<1>4. PICK x \in S : \A y \in S : ~(<<y, x>> \in OpToRel(<, Nat))
  BY <1>2, <1>3, NatLessThanWellFounded, WFMin
<1>5. \A y \in S : x <= y
  <2> SUFFICES ASSUME NEW y \in S, y < x
               PROVE  FALSE
    BY <1>3
  <2>1. <<y, x>> \in Nat \X Nat /\ <<y, x>>[1] < <<y, x>>[2]
    BY <1>3
  <2> QED
    BY <1>4, <2>1 DEF OpToRel
<1> QED
  BY <1>1, <1>2, <1>5 DEF Min

-----------------------------------------------------------------------------
(* One lemma per kind of step.                                             *)

\* Files and inodes as they were.
LEMMA CountsSame ==
  ASSUME CountInv, UNCHANGED <<file, open_inodes>>, linked' \subseteq Sectors
  PROVE  CountInv'
BY Zenon DEF CountInv, CountsExact, Openers, Deniers

\* A step that changes neither who has an inode open nor its counts.
LEMMA CountsKept ==
  ASSUME CountInv, UNCHANGED file, linked' \subseteq Sectors,
         DOMAIN open_inodes' = DOMAIN open_inodes,
         open_inodes' = [s \in DOMAIN open_inodes' |-> open_inodes'[s]],
         \A s \in DOMAIN open_inodes :
           /\ IsInode(open_inodes'[s])
           /\ open_inodes'[s].open_cnt = open_inodes[s].open_cnt
           /\ open_inodes'[s].deny_write_cnt = open_inodes[s].deny_write_cnt
  PROVE  CountInv'
<1>1. \A s : Openers(s)' = Openers(s) /\ Deniers(s)' = Deniers(s)
  BY DEF Openers, Deniers
<1>2. CountsExact'
  BY <1>1 DEF CountInv, CountsExact
<1> QED
  BY <1>2 DEF CountInv

\* A file refers to an inode that is open.
LEMMA OpenedIsOpen ==
  ASSUME CountInv, NEW f \in Files, file[f] # NULL
  PROVE  /\ file[f].inode \in Sectors /\ file[f].inode \in DOMAIN open_inodes
         /\ file[f].deny_write \in BOOLEAN
         /\ file[f] = [inode |-> file[f].inode, deny_write |-> file[f].deny_write]
         /\ f \in Openers(file[f].inode)
<1>1. file[f] \in [inode : Sectors, deny_write : BOOLEAN]
  BY DEF CountInv
<1>2. f \in Openers(file[f].inode)
  BY DEF Openers
<1> QED
  BY <1>1, <1>2, Zenon DEF CountInv, CountsExact

\* Writing one member of a struct inode.
LEMMA InodeMember ==
  ASSUME NEW x, IsInode(x), NEW v
  PROVE  /\ [x EXCEPT !.open_cnt = v] =
              [open_cnt |-> v, deny_write_cnt |-> x.deny_write_cnt, removed |-> x.removed, data |-> x.data]
         /\ [x EXCEPT !.deny_write_cnt = v] =
              [open_cnt |-> x.open_cnt, deny_write_cnt |-> v, removed |-> x.removed, data |-> x.data]
         /\ [x EXCEPT !.removed = v] =
              [open_cnt |-> x.open_cnt, deny_write_cnt |-> x.deny_write_cnt, removed |-> v, data |-> x.data]
         /\ [x EXCEPT !.data = v] =
              [open_cnt |-> x.open_cnt, deny_write_cnt |-> x.deny_write_cnt, removed |-> x.removed, data |-> v]
<1>1. PICK c, d, r, e : x = [open_cnt |-> c, deny_write_cnt |-> d, removed |-> r, data |-> e]
  BY DEF IsInode
<1> QED
  BY <1>1

\* What inode_open makes of the list of open inodes.
LEMMA InodeOpenIs ==
  ASSUME CountInv, NEW s
  PROVE  \E opened :
           /\ opened = inode_open(s)
           /\ DOMAIN opened = DOMAIN open_inodes \cup {s}
           /\ opened = [x \in DOMAIN opened |-> opened[x]]
           /\ \A x \in DOMAIN open_inodes : x # s => opened[x] = open_inodes[x]
           /\ IsInode(opened[s])
           /\ opened[s].open_cnt = IF s \in DOMAIN open_inodes THEN open_inodes[s].open_cnt + 1 ELSE 1
           /\ opened[s].deny_write_cnt =
                IF s \in DOMAIN open_inodes THEN open_inodes[s].deny_write_cnt ELSE 0
<1>0. PICK opened : opened = inode_open(s)
  OBVIOUS
<1>1. CASE s \in DOMAIN open_inodes
  <2>1. PICK y : y = [open_inodes[s] EXCEPT !.open_cnt = @ + 1]
    BY Zenon
  <2>2. opened = [open_inodes EXCEPT ![s] = y]
    BY <1>0, <1>1, <2>1 DEF inode_open
  <2>3. IsInode(open_inodes[s]) /\ open_inodes = [x \in DOMAIN open_inodes |-> open_inodes[x]]
    BY <1>1 DEF CountInv
  <2>4. y = [open_cnt |-> open_inodes[s].open_cnt + 1,
             deny_write_cnt |-> open_inodes[s].deny_write_cnt,
             removed |-> open_inodes[s].removed, data |-> open_inodes[s].data]
    BY <2>1, <2>3, InodeMember, Zenon
  <2>5. IsInode(y) /\ y.open_cnt = open_inodes[s].open_cnt + 1
        /\ y.deny_write_cnt = open_inodes[s].deny_write_cnt
    BY <2>4 DEF IsInode
  <2>6. DOMAIN opened = DOMAIN open_inodes /\ opened[s] = y
        /\ \A x \in DOMAIN open_inodes : x # s => opened[x] = open_inodes[x]
    BY <1>1, <2>2, Zenon
  <2>7. opened = [x \in DOMAIN opened |-> opened[x]]
    BY <2>2, Zenon
  <2> QED
    BY <1>0, <1>1, <2>5, <2>6, <2>7
<1>2. CASE s \notin DOMAIN open_inodes
  <2>1. PICK y : y = [open_cnt |-> 1, deny_write_cnt |-> 0, removed |-> FALSE, data |-> disk[s].inode]
    BY Zenon
  <2>2. opened = [x \in DOMAIN open_inodes \cup {s} |-> IF x = s THEN y ELSE open_inodes[x]]
    BY <1>0, <1>2, <2>1 DEF inode_open
  <2>3. IsInode(y) /\ y.open_cnt = 1 /\ y.deny_write_cnt = 0
    BY <2>1, Zenon DEF IsInode
  <2> QED
    BY <1>0, <1>2, <2>2, <2>3
<1> QED
  BY <1>1, <1>2

\* inode_open for a file counts it.
LEMMA OpenCounts ==
  ASSUME CountInv, NEW f \in Files, NEW s \in linked, Open(f, s)
  PROVE  CountInv'
<1>1. PICK e : e = [inode |-> s, deny_write |-> FALSE]
  BY Zenon
<1>2. s \in Sectors /\ e.inode = s /\ ~e.deny_write /\ e \in [inode : Sectors, deny_write : BOOLEAN]
  BY <1>1 DEF CountInv
<1>3. e # NULL
  BY <1>2, InodeAssumption DEF Sectors
<1>4. /\ file[f] = NULL /\ file' = [file EXCEPT ![f] = e] /\ UNCHANGED linked
      /\ open_inodes' = inode_open(s)
  BY <1>1 DEF Open
<1>5. file \in [Files -> [inode : Sectors, deny_write : BOOLEAN] \cup {NULL}]
  BY DEF CountInv
<1>6. \A g \in Files : file'[g] = IF g = f THEN e ELSE file[g]
  BY <1>4, <1>5
<1>7. \A x : Openers(x)' = IF x = s THEN Openers(s) \cup {f} ELSE Openers(x)
  BY <1>2, <1>3, <1>4, <1>6, Zenon DEF Openers
<1>8. \A x : Deniers(x)' = Deniers(x)
  <2> SUFFICES ASSUME NEW x, NEW g \in Files PROVE g \in Deniers(x)' <=> g \in Deniers(x)
    BY DEF Deniers, Openers
  <2>1. CASE g = f
    BY <1>2, <1>4, <1>6, <2>1, Zenon DEF Deniers, Openers
  <2>2. CASE g # f
    BY <1>6, <2>2 DEF Deniers, Openers
  <2> QED
    BY <2>1, <2>2
<1>9. f \notin Openers(s) /\ Openers(s) \subseteq Files
  BY <1>4 DEF Openers
<1>10. Cardinality(Openers(s) \cup {f}) = Cardinality(Openers(s)) + 1
  BY <1>9, OneMore
<1>11. /\ DOMAIN open_inodes' = DOMAIN open_inodes \cup {s}
       /\ open_inodes' = [x \in DOMAIN open_inodes' |-> open_inodes'[x]]
       /\ \A x \in DOMAIN open_inodes : x # s => open_inodes'[x] = open_inodes[x]
       /\ IsInode(open_inodes'[s])
       /\ open_inodes'[s].open_cnt =
            IF s \in DOMAIN open_inodes THEN open_inodes[s].open_cnt + 1 ELSE 1
       /\ open_inodes'[s].deny_write_cnt =
            IF s \in DOMAIN open_inodes THEN open_inodes[s].deny_write_cnt ELSE 0
  <2>2. PICK o :
        /\ o = inode_open(s)
        /\ DOMAIN o = DOMAIN open_inodes \cup {s} /\ o = [x \in DOMAIN o |-> o[x]]
        /\ \A x \in DOMAIN open_inodes : x # s => o[x] = open_inodes[x]
        /\ IsInode(o[s])
        /\ o[s].open_cnt = IF s \in DOMAIN open_inodes THEN open_inodes[s].open_cnt + 1 ELSE 1
        /\ o[s].deny_write_cnt = IF s \in DOMAIN open_inodes THEN open_inodes[s].deny_write_cnt ELSE 0
    BY InodeOpenIs, Zenon
  <2>3. open_inodes' = o
    BY <1>4, <2>2
  <2> QED
    BY <2>2, <2>3
<1>12. s \notin DOMAIN open_inodes => Cardinality(Openers(s)) = 0 /\ Cardinality(Deniers(s)) = 0
  <2> SUFFICES ASSUME s \notin DOMAIN open_inodes
               PROVE  Cardinality(Openers(s)) = 0 /\ Cardinality(Deniers(s)) = 0
    OBVIOUS
  <2>1. Openers(s) = {} /\ Deniers(s) = {}
    BY <1>2, Zenon DEF CountInv, CountsExact, Deniers
  <2> QED
    BY <2>1, FS_EmptySet
<1>13. CountsExact'
  <2> SUFFICES ASSUME NEW x \in Sectors
               PROVE  IF x \in DOMAIN open_inodes'
                      THEN /\ Openers(x)' # {}
                           /\ open_inodes'[x].open_cnt = Cardinality(Openers(x)')
                           /\ open_inodes'[x].deny_write_cnt = Cardinality(Deniers(x)')
                      ELSE Openers(x)' = {}
    BY DEF CountsExact
  <2>1. CASE x # s
    <3>1. Openers(x)' = Openers(x) /\ Deniers(x)' = Deniers(x)
      BY <1>7, <1>8, <2>1, Zenon
    <3> QED
      BY <1>11, <2>1, <3>1, Zenon DEF CountInv, CountsExact
  <2>2. CASE x = s /\ s \in DOMAIN open_inodes
    <3>1. Openers(s)' = Openers(s) \cup {f} /\ Deniers(s)' = Deniers(s)
      BY <1>7, <1>8
    <3>2. /\ open_inodes[s].open_cnt = Cardinality(Openers(s))
          /\ open_inodes[s].deny_write_cnt = Cardinality(Deniers(s))
      BY <1>2, <2>2 DEF CountInv, CountsExact
    <3> QED
      BY <1>10, <1>11, <2>2, <3>1, <3>2, Zenon
  <2>3. CASE x = s /\ s \notin DOMAIN open_inodes
    <3>1. Openers(s)' = Openers(s) \cup {f} /\ Deniers(s)' = Deniers(s)
      BY <1>7, <1>8
    <3> QED
      BY <1>10, <1>11, <1>12, <2>3, <3>1
  <2> QED
    BY <2>1, <2>2, <2>3
<1>14. file' \in [Files -> [inode : Sectors, deny_write : BOOLEAN] \cup {NULL}]
  BY <1>2, <1>4, <1>5
<1>15. /\ DOMAIN open_inodes' \subseteq Sectors
       /\ \A x \in DOMAIN open_inodes' : IsInode(open_inodes'[x])
  BY <1>2, <1>11 DEF CountInv
<1> QED
  BY <1>4, <1>11, <1>13, <1>14, <1>15 DEF CountInv

\* A step of one file and the inode at s that stays open.
LEMMA CountsMove ==
  ASSUME CountInv, NEW s \in DOMAIN open_inodes, NEW y, IsInode(y),
         open_inodes' = [open_inodes EXCEPT ![s] = y], UNCHANGED linked,
         file' \in [Files -> [inode : Sectors, deny_write : BOOLEAN] \cup {NULL}],
         \A x : x # s => Openers(x)' = Openers(x) /\ Deniers(x)' = Deniers(x),
         Openers(s)' # {}, y.open_cnt = Cardinality(Openers(s)'),
         y.deny_write_cnt = Cardinality(Deniers(s)')
  PROVE  CountInv'
<1>1. open_inodes = [x \in DOMAIN open_inodes |-> open_inodes[x]]
  BY DEF CountInv
<1>2. /\ DOMAIN open_inodes' = DOMAIN open_inodes /\ open_inodes'[s] = y
      /\ \A x \in DOMAIN open_inodes : x # s => open_inodes'[x] = open_inodes[x]
      /\ open_inodes' = [x \in DOMAIN open_inodes' |-> open_inodes'[x]]
  BY <1>1, Zenon
<1>3. CountsExact'
  <2> SUFFICES ASSUME NEW x \in Sectors
               PROVE  IF x \in DOMAIN open_inodes'
                      THEN /\ Openers(x)' # {}
                           /\ open_inodes'[x].open_cnt = Cardinality(Openers(x)')
                           /\ open_inodes'[x].deny_write_cnt = Cardinality(Deniers(x)')
                      ELSE Openers(x)' = {}
    BY DEF CountsExact
  <2>1. CASE x = s
    BY <1>2, <2>1
  <2>2. CASE x # s
    <3>1. Openers(x)' = Openers(x) /\ Deniers(x)' = Deniers(x)
      BY <2>2
    <3> QED
      BY <1>2, <2>2, <3>1, Zenon DEF CountInv, CountsExact
  <2> QED
    BY <2>1, <2>2
<1>4. \A x \in DOMAIN open_inodes' : IsInode(open_inodes'[x])
  BY <1>2 DEF CountInv
<1> QED
  BY <1>2, <1>3, <1>4 DEF CountInv

\* The counts of the inode of an open file.
LEMMA CountsOf ==
  ASSUME CountInv, NEW f \in Files, file[f] # NULL, NEW s, s = file[f].inode
  PROVE  /\ s \in DOMAIN open_inodes /\ IsInode(open_inodes[s])
         /\ open_inodes = [x \in DOMAIN open_inodes |-> open_inodes[x]]
         /\ f \in Openers(s) /\ Openers(s) \subseteq Files /\ Deniers(s) \subseteq Openers(s)
         /\ f \in Deniers(s) <=> file[f].deny_write
         /\ open_inodes[s].open_cnt = Cardinality(Openers(s)) /\ Cardinality(Openers(s)) \in Nat
         /\ open_inodes[s].deny_write_cnt = Cardinality(Deniers(s)) /\ Cardinality(Deniers(s)) \in Nat
<1>1. s \in Sectors /\ s \in DOMAIN open_inodes /\ f \in Openers(s)
  BY OpenedIsOpen, Zenon
<1>2. /\ open_inodes[s].open_cnt = Cardinality(Openers(s))
      /\ open_inodes[s].deny_write_cnt = Cardinality(Deniers(s))
      /\ IsInode(open_inodes[s]) /\ open_inodes = [x \in DOMAIN open_inodes |-> open_inodes[x]]
  BY <1>1 DEF CountInv, CountsExact
<1>3. /\ Openers(s) \subseteq Files /\ Deniers(s) \subseteq Openers(s)
      /\ f \in Deniers(s) <=> file[f].deny_write
  BY <1>1 DEF Openers, Deniers
<1>4. Cardinality(Openers(s)) \in Nat /\ Cardinality(Deniers(s)) \in Nat
  BY <1>3, FilesCounted, Zenon
<1> QED
  BY <1>1, <1>2, <1>3, <1>4, Zenon

\* file_allow_write as part of file_close, and alone.
LEMMA AllowedIs ==
  ASSUME CountInv, NEW f \in Files, file[f] # NULL, NEW s, s = file[f].inode
  PROVE  \E y : /\ IsInode(y) /\ Allowed(f) = [open_inodes EXCEPT ![s] = y]
                /\ y.open_cnt = open_inodes[s].open_cnt
                /\ y.deny_write_cnt = Cardinality(Deniers(s) \ {f})
<1>1. /\ s \in DOMAIN open_inodes /\ IsInode(open_inodes[s])
      /\ open_inodes = [x \in DOMAIN open_inodes |-> open_inodes[x]]
      /\ Deniers(s) \subseteq Files /\ (f \in Deniers(s) <=> file[f].deny_write)
      /\ open_inodes[s].deny_write_cnt = Cardinality(Deniers(s))
  BY CountsOf
<1>2. CASE file[f].deny_write
  <2>0. PICK v : v = open_inodes[s].deny_write_cnt - 1
    OBVIOUS
  <2>1. PICK y : y = [open_inodes[s] EXCEPT !.deny_write_cnt = v]
    BY Zenon
  <2>2. Allowed(f) = [open_inodes EXCEPT ![s] = y]
    BY <1>1, <1>2, <2>0, <2>1 DEF Allowed
  <2>3. IsInode(open_inodes[s])
    BY <1>1
  <2>4. y = [open_cnt |-> open_inodes[s].open_cnt, deny_write_cnt |-> v,
             removed |-> open_inodes[s].removed, data |-> open_inodes[s].data]
    <3>1. PICK x : x = open_inodes[s]
      OBVIOUS
    <3>2. IsInode(x) /\ y = [x EXCEPT !.deny_write_cnt = v]
      BY <2>1, <2>3, <3>1
    <3>3. y = [open_cnt |-> x.open_cnt, deny_write_cnt |-> v, removed |-> x.removed, data |-> x.data]
      BY <3>2, InodeMember, Zenon
    <3> QED
      BY <3>1, <3>3, Zenon
  <2>5. /\ IsInode(y) /\ y.open_cnt = open_inodes[s].open_cnt
        /\ y.deny_write_cnt = open_inodes[s].deny_write_cnt - 1
    BY <2>0, <2>4, Zenon DEF IsInode
  <2>6. Cardinality(Deniers(s) \ {f}) = Cardinality(Deniers(s)) - 1
    BY <1>1, <1>2, OneLess, Zenon
  <2> QED
    BY <1>1, <2>2, <2>5, <2>6, Zenon
<1>3. CASE ~file[f].deny_write
  <2>1. PICK y : y = open_inodes[s]
    OBVIOUS
  <2>2. Allowed(f) = open_inodes /\ open_inodes = [open_inodes EXCEPT ![s] = y]
    BY <1>1, <1>3, <2>1 DEF Allowed
  <2>3. Deniers(s) \ {f} = Deniers(s)
    BY <1>1, <1>3
  <2> QED
    BY <1>1, <2>1, <2>2, <2>3, Zenon
<1> QED
  BY <1>2, <1>3, Zenon

\* file_close: the last one takes the inode off the list.
LEMMA CloseCounts ==
  ASSUME CountInv, NEW f \in Files, Close(f)
  PROVE  CountInv'
<1>1. PICK s : s = file[f].inode
  OBVIOUS
<1>2. /\ file[f] # NULL /\ file' = [file EXCEPT ![f] = NULL] /\ UNCHANGED linked
      /\ inode_close(Allowed(f), s)
  BY <1>1 DEF Close
<1>3. file \in [Files -> [inode : Sectors, deny_write : BOOLEAN] \cup {NULL}]
  BY DEF CountInv
<1>4. \A g \in Files : file'[g] = IF g = f THEN NULL ELSE file[g]
  BY <1>2, <1>3
<1>5. ASSUME NEW x PROVE Openers(x)' = Openers(x) \ {f} /\ Deniers(x)' = Deniers(x) \ {f}
  <2>1. ASSUME NEW g \in Files
        PROVE  /\ g \in Openers(x)' <=> g \in Openers(x) /\ g # f
               /\ g \in Deniers(x)' <=> g \in Deniers(x) /\ g # f
    BY <1>4 DEF Openers, Deniers
  <2>2. Openers(x)' \subseteq Files /\ Deniers(x)' \subseteq Files /\ Openers(x) \subseteq Files
        /\ Deniers(x) \subseteq Files
    BY DEF Openers, Deniers
  <2> QED
    BY <2>1, <2>2
<1>6. ASSUME NEW x, x # s PROVE Openers(x)' = Openers(x) /\ Deniers(x)' = Deniers(x)
  <2>1. f \notin Openers(x) /\ f \notin Deniers(x)
    BY <1>1, <1>6 DEF Openers, Deniers
  <2> QED
    BY <1>5, <2>1
<1>7. /\ s \in DOMAIN open_inodes /\ f \in Openers(s) /\ Openers(s) \subseteq Files
      /\ open_inodes = [x \in DOMAIN open_inodes |-> open_inodes[x]]
      /\ open_inodes[s].open_cnt = Cardinality(Openers(s)) /\ Cardinality(Openers(s)) \in Nat
  BY <1>1, <1>2, CountsOf
<1>8. PICK y : /\ IsInode(y) /\ Allowed(f) = [open_inodes EXCEPT ![s] = y]
               /\ y.open_cnt = open_inodes[s].open_cnt
               /\ y.deny_write_cnt = Cardinality(Deniers(s) \ {f})
  BY <1>1, <1>2, AllowedIs, Zenon
<1>9. Cardinality(Openers(s) \ {f}) = Cardinality(Openers(s)) - 1
  BY <1>7, OneLess, Zenon
<1>10. PICK a : a = [open_inodes EXCEPT ![s] = y]
  BY Zenon
<1>11. /\ DOMAIN a = DOMAIN open_inodes /\ a[s] = y
       /\ \A x \in DOMAIN open_inodes : x # s => a[x] = open_inodes[x]
       /\ inode_close(a, s)
  BY <1>2, <1>7, <1>8, <1>10
<1>12. file' \in [Files -> [inode : Sectors, deny_write : BOOLEAN] \cup {NULL}]
  BY <1>2, <1>3
<1>13. CASE y.open_cnt > 1
  <2>1. PICK z : z = [y EXCEPT !.open_cnt = y.open_cnt - 1]
    BY Zenon
  <2>2. open_inodes' = [a EXCEPT ![s] = z]
    BY <1>11, <1>13, <2>1 DEF inode_close
  <2>3. open_inodes' = [open_inodes EXCEPT ![s] = z]
    BY <1>7, <1>10, <2>2, Zenon
  <2>4. z = [open_cnt |-> y.open_cnt - 1, deny_write_cnt |-> y.deny_write_cnt,
             removed |-> y.removed, data |-> y.data]
    BY <1>8, <2>1, InodeMember, Zenon
  <2>5. IsInode(z) /\ z.open_cnt = y.open_cnt - 1 /\ z.deny_write_cnt = y.deny_write_cnt
    BY <2>4 DEF IsInode
  <2>6. Openers(s)' = Openers(s) \ {f} /\ Deniers(s)' = Deniers(s) \ {f}
    BY <1>5
  <2>7. Cardinality(Openers(s) \ {f}) > 0
    BY <1>7, <1>8, <1>9, <1>13
  <2>8. Openers(s)' # {}
    BY <2>6, <2>7, FS_EmptySet
  <2>9. z.open_cnt = Cardinality(Openers(s)') /\ z.deny_write_cnt = Cardinality(Deniers(s)')
    BY <1>7, <1>8, <1>9, <2>5, <2>6, Zenon
  <2> QED
    BY <1>2, <1>6, <1>7, <1>12, <2>3, <2>5, <2>8, <2>9, CountsMove
<1>14. CASE ~(y.open_cnt > 1)
  <2>1. open_inodes' = Restrict(a, DOMAIN a \ {s})
    BY <1>11, <1>14 DEF inode_close
  <2>2. /\ DOMAIN open_inodes' = DOMAIN open_inodes \ {s}
        /\ \A x \in DOMAIN open_inodes' : open_inodes'[x] = open_inodes[x]
        /\ open_inodes' = [x \in DOMAIN open_inodes' |-> open_inodes'[x]]
    BY <1>11, <2>1 DEF Restrict
  <2>3. Openers(s)' = {}
    <3>1. Openers(s) \ {f} \subseteq Files
      BY <1>7
    <3>2. Cardinality(Openers(s) \ {f}) \in Nat /\ IsFiniteSet(Openers(s) \ {f})
      BY <3>1, FilesCounted
    <3>3. Cardinality(Openers(s) \ {f}) = 0
      BY <1>7, <1>8, <1>9, <1>14, <3>2
    <3> QED
      BY <1>5, <3>2, <3>3, FS_EmptySet, Zenon
  <2>4. CountsExact'
    <3> SUFFICES ASSUME NEW x \in Sectors
                 PROVE  IF x \in DOMAIN open_inodes'
                        THEN /\ Openers(x)' # {}
                             /\ open_inodes'[x].open_cnt = Cardinality(Openers(x)')
                             /\ open_inodes'[x].deny_write_cnt = Cardinality(Deniers(x)')
                        ELSE Openers(x)' = {}
      BY DEF CountsExact
    <3>1. CASE x = s
      BY <2>2, <2>3, <3>1
    <3>2. CASE x # s
      BY <1>6, <2>2, <3>2 DEF CountInv, CountsExact
    <3> QED
      BY <3>1, <3>2
  <2>5. \A x \in DOMAIN open_inodes' : IsInode(open_inodes'[x]) /\ x \in Sectors
    BY <2>2 DEF CountInv
  <2> QED
    BY <1>2, <1>12, <2>2, <2>4, <2>5, Zenon DEF CountInv
<1> QED
  BY <1>13, <1>14

\* dir_remove opens and closes the inode, which leaves its counts.
LEMMA RemoveCounts ==
  ASSUME CountInv, NEW s \in linked, DirRemove(s)
  PROVE  CountInv'
<1>1. PICK o :
        /\ o = inode_open(s)
        /\ DOMAIN o = DOMAIN open_inodes \cup {s}
        /\ o = [x \in DOMAIN o |-> o[x]]
        /\ \A x \in DOMAIN open_inodes : x # s => o[x] = open_inodes[x]
        /\ IsInode(o[s])
        /\ o[s].open_cnt = IF s \in DOMAIN open_inodes THEN open_inodes[s].open_cnt + 1 ELSE 1
        /\ o[s].deny_write_cnt =
             IF s \in DOMAIN open_inodes THEN open_inodes[s].deny_write_cnt ELSE 0
  BY InodeOpenIs, Zenon
<1>2. PICK y : y = [o[s] EXCEPT !.removed = TRUE]
  BY Zenon
<1>3. PICK r : r = [o EXCEPT ![s] = y]
  BY Zenon
<1>4. inode_close(r, s) /\ UNCHANGED file /\ linked' = linked \ {s}
  BY <1>1, <1>2, <1>3 DEF DirRemove
<1>5. y = [open_cnt |-> o[s].open_cnt, deny_write_cnt |-> o[s].deny_write_cnt,
           removed |-> TRUE, data |-> o[s].data]
  BY <1>1, <1>2, InodeMember, Zenon
<1>6. IsInode(y) /\ y.open_cnt = o[s].open_cnt /\ y.deny_write_cnt = o[s].deny_write_cnt
  BY <1>5 DEF IsInode
<1>7. /\ DOMAIN r = DOMAIN open_inodes \cup {s} /\ r[s] = y
      /\ \A x \in DOMAIN open_inodes : x # s => r[x] = open_inodes[x]
  BY <1>1, <1>3
<1>8. linked' \subseteq Sectors /\ s \in Sectors
  BY <1>4 DEF CountInv
<1>9. s \in DOMAIN open_inodes =>
        /\ open_inodes[s].open_cnt \in Nat /\ open_inodes[s].open_cnt > 0
  <2> SUFFICES ASSUME s \in DOMAIN open_inodes
               PROVE  open_inodes[s].open_cnt \in Nat /\ open_inodes[s].open_cnt > 0
    OBVIOUS
  <2>1. Openers(s) # {} /\ open_inodes[s].open_cnt = Cardinality(Openers(s)) /\ Openers(s) \subseteq Files
    BY <1>8 DEF CountInv, CountsExact, Openers
  <2>2. IsFiniteSet(Openers(s)) /\ Cardinality(Openers(s)) \in Nat
    BY <2>1, FilesCounted
  <2>3. Cardinality(Openers(s)) # 0
    BY <2>1, <2>2, FS_EmptySet
  <2> QED
    BY <2>1, <2>2, <2>3
<1>10. CASE s \in DOMAIN open_inodes
  <2>1. PICK z : z = [y EXCEPT !.open_cnt = y.open_cnt - 1]
    BY Zenon
  <2>2. y.open_cnt > 1 /\ y.open_cnt - 1 = open_inodes[s].open_cnt
        /\ y.deny_write_cnt = open_inodes[s].deny_write_cnt
    BY <1>1, <1>6, <1>9, <1>10
  <2>3. open_inodes' = [r EXCEPT ![s] = z]
    BY <1>4, <1>7, <2>1, <2>2 DEF inode_close
  <2>4. z = [open_cnt |-> y.open_cnt - 1, deny_write_cnt |-> y.deny_write_cnt,
             removed |-> y.removed, data |-> y.data]
    BY <1>6, <2>1, InodeMember, Zenon
  <2>5. IsInode(z) /\ z.open_cnt = open_inodes[s].open_cnt
        /\ z.deny_write_cnt = open_inodes[s].deny_write_cnt
    BY <2>2, <2>4 DEF IsInode
  <2>6. /\ DOMAIN open_inodes' = DOMAIN open_inodes /\ open_inodes'[s] = z
        /\ \A x \in DOMAIN open_inodes : x # s => open_inodes'[x] = open_inodes[x]
        /\ open_inodes' = [x \in DOMAIN open_inodes' |-> open_inodes'[x]]
    BY <1>7, <1>10, <2>3, Zenon
  <2>7. \A x \in DOMAIN open_inodes :
           /\ IsInode(open_inodes'[x])
           /\ open_inodes'[x].open_cnt = open_inodes[x].open_cnt
           /\ open_inodes'[x].deny_write_cnt = open_inodes[x].deny_write_cnt
    BY <2>5, <2>6 DEF CountInv
  <2> QED
    BY <1>4, <1>8, <2>6, <2>7, CountsKept, Zenon
<1>11. CASE s \notin DOMAIN open_inodes
  <2>1. ~(y.open_cnt > 1)
    BY <1>1, <1>6, <1>11
  <2>2. open_inodes' = Restrict(r, DOMAIN r \ {s})
    BY <1>4, <1>7, <2>1 DEF inode_close
  <2>3. open_inodes' = [x \in DOMAIN open_inodes |-> open_inodes[x]]
    BY <1>7, <1>11, <2>2 DEF Restrict
  <2>4. UNCHANGED open_inodes
    BY <2>3 DEF CountInv
  <2> QED
    BY <1>4, <1>8, <2>4, CountsSame
<1> QED
  BY <1>10, <1>11

\* file_deny_write and file_allow_write move a file between the two sets.
LEMMA DenyCounts ==
  ASSUME CountInv, NEW f \in Files, DenyWrite(f)
  PROVE  CountInv' /\ ~panic'
<1>1. PICK s : s = file[f].inode
  OBVIOUS
<1>2. PICK e : e = [file[f] EXCEPT !.deny_write = TRUE]
  BY Zenon
<1>3. PICK z : z = [open_inodes[s] EXCEPT !.deny_write_cnt = @ + 1]
  BY Zenon
<1>4. /\ file[f] # NULL /\ ~file[f].deny_write /\ UNCHANGED linked
      /\ file' = [file EXCEPT ![f] = e] /\ open_inodes' = [open_inodes EXCEPT ![s] = z]
      /\ panic' = (open_inodes'[s].deny_write_cnt > open_inodes[s].open_cnt)
  BY <1>1, <1>2, <1>3 DEF DenyWrite
<1>5. /\ s \in DOMAIN open_inodes /\ IsInode(open_inodes[s])
      /\ open_inodes = [x \in DOMAIN open_inodes |-> open_inodes[x]]
      /\ f \in Openers(s) /\ Openers(s) \subseteq Files /\ Deniers(s) \subseteq Openers(s)
      /\ f \in Deniers(s) <=> file[f].deny_write
      /\ open_inodes[s].open_cnt = Cardinality(Openers(s)) /\ Cardinality(Openers(s)) \in Nat
      /\ open_inodes[s].deny_write_cnt = Cardinality(Deniers(s)) /\ Cardinality(Deniers(s)) \in Nat
  BY <1>1, <1>4, CountsOf
<1>6. file[f] = [inode |-> s, deny_write |-> file[f].deny_write] /\ s \in Sectors
  BY <1>1, <1>4, OpenedIsOpen
<1>7. e = [inode |-> s, deny_write |-> TRUE]
  <2>1. PICK v : v = file[f]
    OBVIOUS
  <2>2. PICK d : d = file[f].deny_write
    OBVIOUS
  <2>3. v = [inode |-> s, deny_write |-> d] /\ e = [v EXCEPT !.deny_write = TRUE]
    BY <1>2, <1>6, <2>1, <2>2, Zenon
  <2> QED
    BY <2>3, Zenon
<1>8. e \in [inode : Sectors, deny_write : BOOLEAN] /\ e.inode = s /\ e.deny_write
  BY <1>6, <1>7
<1>9. e # NULL
  BY <1>8, InodeAssumption DEF Sectors
<1>10. file \in [Files -> [inode : Sectors, deny_write : BOOLEAN] \cup {NULL}]
  BY DEF CountInv
<1>11. /\ file' \in [Files -> [inode : Sectors, deny_write : BOOLEAN] \cup {NULL}]
       /\ \A g \in Files : file'[g] = IF g = f THEN e ELSE file[g]
  BY <1>4, <1>8, <1>10
<1>12. ASSUME NEW x
       PROVE  /\ Openers(x)' = Openers(x)
              /\ Deniers(x)' = IF x = s THEN Deniers(s) \cup {f} ELSE Deniers(x)
  <2>1. ASSUME NEW g \in Files
        PROVE  /\ g \in Openers(x)' <=> g \in Openers(x)
               /\ g \in Deniers(x)' <=> g \in Deniers(x) \/ (x = s /\ g = f)
    <3>1. CASE g = f
      BY <1>1, <1>4, <1>8, <1>9, <1>11, <3>1, Zenon DEF Openers, Deniers
    <3>2. CASE g # f
      BY <1>11, <3>2 DEF Openers, Deniers
    <3> QED
      BY <3>1, <3>2
  <2>2. Openers(x)' \subseteq Files /\ Deniers(x)' \subseteq Files /\ Openers(x) \subseteq Files
        /\ Deniers(x) \subseteq Files
    BY DEF Openers, Deniers
  <2> QED
    BY <2>1, <2>2
<1>13. Cardinality(Deniers(s) \cup {f}) = Cardinality(Deniers(s)) + 1
  BY <1>4, <1>5, OneMore
<1>14. z = [open_cnt |-> open_inodes[s].open_cnt,
            deny_write_cnt |-> open_inodes[s].deny_write_cnt + 1,
            removed |-> open_inodes[s].removed, data |-> open_inodes[s].data]
  <2>1. IsInode(open_inodes[s])
    BY <1>5
  <2> QED
    BY <1>3, <2>1, InodeMember, Zenon
<1>15. /\ IsInode(z) /\ z.open_cnt = open_inodes[s].open_cnt
       /\ z.deny_write_cnt = open_inodes[s].deny_write_cnt + 1
  BY <1>14 DEF IsInode
<1>16. /\ Openers(s)' # {} /\ z.open_cnt = Cardinality(Openers(s)')
       /\ z.deny_write_cnt = Cardinality(Deniers(s)')
  BY <1>5, <1>12, <1>13, <1>15, Zenon
<1>17. CountInv'
  BY <1>4, <1>5, <1>11, <1>12, <1>15, <1>16, CountsMove, Zenon
<1>18. Cardinality(Deniers(s) \cup {f}) <= Cardinality(Openers(s))
  <2>1. Deniers(s) \cup {f} \subseteq Openers(s) /\ IsFiniteSet(Openers(s))
    BY <1>5, FilesCounted
  <2> QED
    BY <2>1, FS_Subset
<1>19. open_inodes'[s].deny_write_cnt = Cardinality(Deniers(s)) + 1
  BY <1>4, <1>5, <1>15
<1>20. ~(open_inodes'[s].deny_write_cnt > open_inodes[s].open_cnt)
  BY <1>5, <1>13, <1>18, <1>19
<1> QED
  BY <1>4, <1>17, <1>20, Zenon

LEMMA AllowCounts ==
  ASSUME CountInv, NEW f \in Files, AllowWrite(f)
  PROVE  CountInv' /\ ~panic'
<1>1. PICK s : s = file[f].inode
  OBVIOUS
<1>2. PICK e : e = [file[f] EXCEPT !.deny_write = FALSE]
  BY Zenon
<1>3. /\ file[f] # NULL /\ file[f].deny_write /\ UNCHANGED linked
      /\ file' = [file EXCEPT ![f] = e] /\ open_inodes' = Allowed(f)
      /\ panic' = (open_inodes[s].deny_write_cnt \notin 1..open_inodes[s].open_cnt)
  BY <1>1, <1>2 DEF AllowWrite
<1>4. /\ s \in DOMAIN open_inodes /\ f \in Openers(s) /\ Openers(s) \subseteq Files
      /\ Deniers(s) \subseteq Openers(s) /\ f \in Deniers(s)
      /\ open_inodes[s].open_cnt = Cardinality(Openers(s)) /\ Cardinality(Openers(s)) \in Nat
      /\ open_inodes[s].deny_write_cnt = Cardinality(Deniers(s)) /\ Cardinality(Deniers(s)) \in Nat
  BY <1>1, <1>3, CountsOf, Zenon
<1>5. PICK y : /\ IsInode(y) /\ Allowed(f) = [open_inodes EXCEPT ![s] = y]
               /\ y.open_cnt = open_inodes[s].open_cnt
               /\ y.deny_write_cnt = Cardinality(Deniers(s) \ {f})
  BY <1>1, <1>3, AllowedIs
<1>6. file[f] = [inode |-> s, deny_write |-> file[f].deny_write] /\ s \in Sectors
  BY <1>1, <1>3, OpenedIsOpen, Zenon
<1>7. e = [inode |-> s, deny_write |-> FALSE]
  <2>1. PICK v : v = file[f]
    OBVIOUS
  <2>2. PICK d : d = file[f].deny_write
    OBVIOUS
  <2>3. v = [inode |-> s, deny_write |-> d] /\ e = [v EXCEPT !.deny_write = FALSE]
    BY <1>2, <1>6, <2>1, <2>2, Zenon
  <2> QED
    BY <2>3, Zenon
<1>8. e \in [inode : Sectors, deny_write : BOOLEAN] /\ e.inode = s /\ ~e.deny_write
  BY <1>6, <1>7
<1>9. e # NULL
  BY <1>8, InodeAssumption DEF Sectors
<1>10. file \in [Files -> [inode : Sectors, deny_write : BOOLEAN] \cup {NULL}]
  BY DEF CountInv
<1>11. /\ file' \in [Files -> [inode : Sectors, deny_write : BOOLEAN] \cup {NULL}]
       /\ \A g \in Files : file'[g] = IF g = f THEN e ELSE file[g]
  BY <1>3, <1>8, <1>10
<1>12. ASSUME NEW x
       PROVE  /\ Openers(x)' = Openers(x)
              /\ Deniers(x)' = IF x = s THEN Deniers(s) \ {f} ELSE Deniers(x)
  <2>1. ASSUME NEW g \in Files
        PROVE  /\ g \in Openers(x)' <=> g \in Openers(x)
               /\ g \in Deniers(x)' <=> g \in Deniers(x) /\ ~(x = s /\ g = f)
    <3>1. CASE g = f
      BY <1>1, <1>3, <1>8, <1>9, <1>11, <3>1 DEF Openers, Deniers
    <3>2. CASE g # f
      BY <1>11, <3>2 DEF Openers, Deniers
    <3> QED
      BY <3>1, <3>2
  <2>2. Openers(x)' \subseteq Files /\ Deniers(x)' \subseteq Files /\ Openers(x) \subseteq Files
        /\ Deniers(x) \subseteq Files
    BY DEF Openers, Deniers
  <2> QED
    BY <2>1, <2>2
<1>13. /\ Openers(s)' # {} /\ y.open_cnt = Cardinality(Openers(s)')
       /\ y.deny_write_cnt = Cardinality(Deniers(s)')
  BY <1>4, <1>5, <1>12
<1>14. open_inodes' = [open_inodes EXCEPT ![s] = y]
  BY <1>3, <1>5
<1>15. CountInv'
  BY <1>3, <1>4, <1>5, <1>11, <1>12, <1>13, <1>14, CountsMove, Zenon
<1>16. Cardinality(Deniers(s)) <= Cardinality(Openers(s)) /\ Cardinality(Deniers(s)) # 0
  <2>1. IsFiniteSet(Openers(s)) /\ IsFiniteSet(Deniers(s)) /\ Deniers(s) # {}
    BY <1>4, FilesCounted
  <2> QED
    BY <1>4, <2>1, FS_Subset, FS_EmptySet
<1>17. open_inodes[s].deny_write_cnt \in 1..open_inodes[s].open_cnt
  BY <1>4, <1>16
<1> QED
  BY <1>3, <1>15, <1>17, Zenon

\* inode_write_at writes the data of the inode, not its counts.
LEMMA WriteCounts ==
  ASSUME CountInv, NEW f \in Files, NEW offset, NEW buffer, Write(f, offset, buffer)
  PROVE  CountInv'
<1>1. PICK s : s = file[f].inode
  BY Zenon
<1>2. /\ file[f] # NULL /\ UNCHANGED <<file, linked>>
      /\ \E d : open_inodes' = [open_inodes EXCEPT ![s].data = d]
  BY <1>1, Zenon DEF Write
<1>3. PICK d : open_inodes' = [open_inodes EXCEPT ![s].data = d]
  BY <1>2, Zenon
<1>4. PICK z : z = [open_inodes[s] EXCEPT !.data = d]
  BY Zenon
<1>5. s \in DOMAIN open_inodes /\ IsInode(open_inodes[s])
  BY <1>1, <1>2, CountsOf
<1>6. z = [open_cnt |-> open_inodes[s].open_cnt,
           deny_write_cnt |-> open_inodes[s].deny_write_cnt,
           removed |-> open_inodes[s].removed, data |-> d]
  BY <1>4, <1>5, InodeMember, Zenon
<1>7. /\ IsInode(z) /\ z.open_cnt = open_inodes[s].open_cnt
      /\ z.deny_write_cnt = open_inodes[s].deny_write_cnt
  BY <1>6 DEF IsInode
<1>8. open_inodes = [x \in DOMAIN open_inodes |-> open_inodes[x]]
  BY DEF CountInv
<1>9. open_inodes' = [open_inodes EXCEPT ![s] = z]
  BY <1>3, <1>4, <1>5, <1>8
<1>10. /\ DOMAIN open_inodes' = DOMAIN open_inodes /\ open_inodes'[s] = z
       /\ \A x \in DOMAIN open_inodes : x # s => open_inodes'[x] = open_inodes[x]
       /\ open_inodes' = [x \in DOMAIN open_inodes' |-> open_inodes'[x]]
  BY <1>5, <1>8, <1>9, Zenon
<1>11. \A x \in DOMAIN open_inodes :
           /\ IsInode(open_inodes'[x])
           /\ open_inodes'[x].open_cnt = open_inodes[x].open_cnt
           /\ open_inodes'[x].deny_write_cnt = open_inodes[x].deny_write_cnt
  BY <1>7, <1>10 DEF CountInv
<1>12. linked' \subseteq Sectors
  BY <1>2 DEF CountInv
<1> QED
  BY <1>2, <1>10, <1>11, <1>12, CountsKept

-----------------------------------------------------------------------------
(* The theorems.                                                           *)

\* At first nothing is open.
LEMMA CountInit == Init => CountInv
<1> SUFFICES ASSUME Init PROVE CountInv
  OBVIOUS
<1>1. /\ file = [f \in Files |-> NULL] /\ linked = {} /\ open_inodes = << >>
  BY DEF Init
<1>2. DOMAIN open_inodes = {} /\ \A s : Openers(s) = {}
  BY <1>1 DEF Openers
<1>3. open_inodes = [s \in DOMAIN open_inodes |-> open_inodes[s]]
  BY <1>1
<1> QED
  BY <1>1, <1>2, <1>3 DEF CountInv, CountsExact

\* Every step keeps the counts.
LEMMA CountStep == CountInv /\ [Next]_vars => CountInv'
<1> SUFFICES ASSUME CountInv, [Next]_vars PROVE CountInv'
  OBVIOUS
<1>1. ASSUME NEW length \in Lengths, Create(length) PROVE CountInv'
  <2>1. /\ UNCHANGED <<file, open_inodes>> /\ linked' = linked \cup {Scan(free_map)}
        /\ Scan(free_map) # ERROR
    BY <1>1 DEF Create
  <2>2. linked' \subseteq Sectors
    BY <2>1, ScanIsSector DEF CountInv
  <2> QED
    BY <2>1, <2>2, CountsSame
<1>2. ASSUME NEW f \in Files, NEW s \in linked, Open(f, s) PROVE CountInv'
  BY <1>2, OpenCounts
<1>3. ASSUME NEW f \in Files, Close(f) PROVE CountInv'
  BY <1>3, CloseCounts
<1>4. ASSUME NEW s \in linked, DirRemove(s) PROVE CountInv'
  BY <1>4, RemoveCounts
<1>5. ASSUME NEW f \in Files, NEW offset \in Offsets, NEW buffer \in Buffers,
             Write(f, offset, buffer)
      PROVE  CountInv'
  BY <1>5, WriteCounts
<1>6. ASSUME NEW f \in Files, DenyWrite(f) PROVE CountInv'
  BY <1>6, DenyCounts
<1>7. ASSUME NEW f \in Files, AllowWrite(f) PROVE CountInv'
  BY <1>7, AllowCounts
<1>8. CASE UNCHANGED vars
  <2>1. UNCHANGED <<file, open_inodes>> /\ linked' \subseteq Sectors
    BY <1>8 DEF vars, CountInv
  <2> QED
    BY <2>1, CountsSame
<1> QED
  BY <1>1, <1>2, <1>3, <1>4, <1>5, <1>6, <1>7, <1>8 DEF Next

\* inode_open, inode_close, file_deny_write and file_allow_write count exactly,
\* for any number of files and inodes and in any order of calls: an inode is in
\* memory as long as some file refers to it.
THEOREM CountsStayExact == Spec => []CountsExact
<1>1. Spec => []CountInv
  BY CountInit, CountStep, PTL DEF Spec
<1>2. CountInv => CountsExact
  BY DEF CountInv
<1> QED
  BY <1>1, <1>2, PTL

\* The assertions of inode_deny_write and inode_allow_write on the counts.
AssertionsHold ==
  [][\A f \in Files : DenyWrite(f) \/ AllowWrite(f) => ~panic']_vars

\* So no assertion of inode_deny_write or inode_allow_write fails.
THEOREM CountAssertionsHold == Spec => AssertionsHold
<1>1. CountInv => [\A f \in Files : DenyWrite(f) \/ AllowWrite(f) => ~panic']_vars
  BY DenyCounts, AllowCounts
<1> QED
  BY <1>1, CountInit, CountStep, PTL DEF Spec, AssertionsHold

=============================================================================
