----------------------------- MODULE VmStepProofs -----------------------------
(***************************************************************************)
(* What is proved of Vm for any processes, pages, frames and slots, first  *)
(* part: the invariant, that it holds at first and what it says of slots   *)
(* and frames; every step keeps its control part; and the steps that move  *)
(* no page, and those that give pages up, keep the rest.                   *)
(***************************************************************************)
EXTENDS Vm, TLAPS

\* A leaf that names no prover is for Zenon: few of them need arithmetic.
USE Zenon

-----------------------------------------------------------------------------
(* The invariant: what each thread is doing, and the page tables.          *)

\* A supplemental page table: the entries of some of the pages.
Tables == UNION {[D -> Entry] : D \in SUBSET Pages}

\* TypeOK, and that the page tables are functions on the processes and pages.
Types ==
  /\ th \in [Procs -> Thread]
  /\ pte \in [Procs -> [Pages -> Frames \cup {NULL}]]
  /\ spt \in [Procs -> Tables]
  /\ fd \in [Procs -> {"open", "mapped", "closed"}]
  /\ pool \subseteq Frames /\ content \in [Frames -> Contents]
  /\ frame_table \in Seq(FrameEntry)
  /\ swap_table \subseteq Slots /\ swapped_data \in [Slots -> Contents]
  /\ {swap_lock, filesys_lock} \subseteq Procs \cup {NULL}
  /\ machine \in {"running", "panic", "lost"}
  /\ mem \in [Procs -> [Pages -> Contents]] /\ foreign \in BOOLEAN

\* Between the fault and the moment the page is there.
Faulting(p) == th[p].pc \in {"frame", "swap_out", "save", "fill", "install"}

\* A frame was taken from the pool and is not yet in the page directory.
Holding(p) == th[p].pc = "fill" \/ th[p].pc = "install"

\* What the locals of the fault handler are.
Fault(p) ==
  Faulting(p) =>
    /\ th[p].page \in Pages /\ pte[p][th[p].page] = NULL
    /\ \/ th[p].goal = "stack" /\ th[p].page = StackPage
       \/ th[p].goal = "grow" /\ th[p].page \in GrowPages
       \/ th[p].goal = "page" /\ th[p].page \in DOMAIN spt[p]
       \/ th[p].goal \in {"lazy", "lazy_again"} /\ th[p].page = Region[1]
          /\ fd[p] = "mapped"
    /\ th[p].pc = "install" => th[p].goal = "page"

\* A process in swap_out with a victim has the swap lock.
Victims(p) ==
  /\ Holding(p) => th[p].kpage \in Frames
  /\ th[p].pc = "save" => th[p].victim \in FrameEntry /\ swap_lock = p
  /\ th[p].victim # NULL => th[p].pc = "save"

\* munmap: the pages it has passed are not present.
Unmapping(p) ==
  /\ th[p].pc = "munmap" => th[p].iter > 0
  /\ th[p].iter > 0 =>
       /\ fd[p] = "mapped"
       /\ th[p].pc = "munmap" \/ Faulting(p)
       /\ Faulting(p) => /\ th[p].goal = "page" /\ th[p].iter \in 1..Len(Region)
                         /\ th[p].page = Region[th[p].iter]
       /\ \A j \in 1..Len(Region) : j < th[p].iter => pte[p][Region[j]] = NULL

\* The entries of the supplemental page table are of the kind of their page.
Kind(v, e) ==
  /\ v \in CodePages \cup DataPages \cup GrowPages \cup MapPages
  /\ e.mmapped <=> v \in MapPages
  /\ e.load_executable <=> v \in CodePages \cup DataPages
  /\ e.writable <=> v \notin CodePages
  /\ e.swapped => v \notin GrowPages
  /\ v \in CodePages \cup MapPages => e.slot = NULL

Entries(p) ==
  /\ \A v \in DOMAIN spt[p] : Kind(v, spt[p][v])
  /\ fd[p] = "mapped" => MapPages \subseteq DOMAIN spt[p]
  /\ \A v \in MapPages :
       pte[p][v] # NULL => v \in DOMAIN spt[p] /\ spt[p][v].loaded

\* Before load and after pagedir_destroy nothing is present; load finds no entries.
Ends(p) ==
  /\ th[p].pc \in {"new", "dying", "dead"} => \A v \in Pages : pte[p][v] = NULL
  /\ th[p].pc = "new" => fd[p] = "open" /\ DOMAIN spt[p] = {}
  /\ th[p].pc \in {"dying", "dead"} => fd[p] # "mapped"

\* The entries of the frame table that can be evicted have their page.
Table ==
  \A i \in DOMAIN frame_table :
    frame_table[i].spte =>
      /\ frame_table[i].page \in DOMAIN spt[frame_table[i].owner]
      /\ frame_table[i].page \notin GrowPages

Local(p) == Fault(p) /\ Victims(p) /\ Unmapping(p) /\ Entries(p) /\ Ends(p)

Control == Types /\ (\A p \in Procs : Local(p)) /\ Table

-----------------------------------------------------------------------------
(* The slots of the pages that are out.                                    *)

\* Page v of p is out, its eviction finished.
Away(p, v) ==
  /\ v \in DOMAIN spt[p] /\ spt[p][v].swapped /\ v \in DataPages
  /\ \A q \in Procs : th[q].pc = "save" =>
       th[q].victim.owner # p \/ th[q].victim.page # v

Swap ==
  /\ \A p \in Procs, v \in Pages : Away(p, v) => spt[p][v].slot \in swap_table
  /\ \A p, q \in Procs, v, w \in Pages :
       Away(p, v) /\ Away(q, w) /\ spt[p][v].slot = spt[q][w].slot => p = q /\ v = w

-----------------------------------------------------------------------------
(* Pages and threads.                                                      *)

\* No page is of two kinds, and NULL is none of the things it stands for.
LEMMA PageKinds ==
  /\ \A v \in CodePages : v \notin DataPages /\ v # StackPage /\ v \notin GrowPages /\ v \notin MapPages
  /\ \A v \in DataPages : v # StackPage /\ v \notin GrowPages /\ v \notin MapPages
  /\ StackPage \notin GrowPages /\ StackPage \notin MapPages
  /\ \A v \in GrowPages : v \notin MapPages
  /\ NULL \notin Pages /\ NULL \notin Frames /\ NULL \notin Slots /\ NULL \notin Procs
<1> DEFINE kinds == <<CodePages, DataPages, {StackPage}, GrowPages, MapPages>>
<1>1. \A i, j \in 1..5 : i # j => kinds[i] \cap kinds[j] = {}
  BY VmAssumption, SMT
<1>2. /\ CodePages \cap DataPages = {} /\ CodePages \cap {StackPage} = {}
      /\ CodePages \cap GrowPages = {} /\ CodePages \cap MapPages = {}
      /\ DataPages \cap {StackPage} = {} /\ DataPages \cap GrowPages = {}
      /\ DataPages \cap MapPages = {} /\ {StackPage} \cap GrowPages = {}
      /\ {StackPage} \cap MapPages = {} /\ GrowPages \cap MapPages = {}
  BY <1>1, SMT
<1> HIDE DEF kinds
<1> QED
  BY <1>2, VmAssumption

\* The mapped pages, in the order of the file.
LEMMA Regions ==
  /\ Len(Region) \in Nat /\ Len(Region) > 0 /\ DOMAIN Region = 1..Len(Region)
  /\ Region[1] \in MapPages
  /\ \A j \in 1..Len(Region) : Region[j] \in MapPages
  /\ \A i, j \in 1..Len(Region) : Region[i] = Region[j] => i = j
  /\ \A v \in MapPages : \E j \in 1..Len(Region) : Region[j] = v
<1>1. Region \in Seq(MapPages) /\ Region # << >>
  BY VmAssumption, SMT
<1>2. Len(Region) \in Nat /\ Len(Region) > 0 /\ DOMAIN Region = 1..Len(Region)
  BY <1>1, SMT
<1>3. \A j \in 1..Len(Region) : Region[j] \in MapPages
  BY <1>1, SMT
<1>4. \A i, j \in 1..Len(Region) : Region[i] = Region[j] => i = j
  BY <1>2, VmAssumption DEF IsInjective
<1>5. \A v \in MapPages : \E j \in 1..Len(Region) : Region[j] = v
  BY <1>2 DEF MapPages, Range
<1>6. 1 \in 1..Len(Region)
  BY <1>2, SMT
<1> QED
  BY <1>2, <1>3, <1>4, <1>5, <1>6

Goals == {NULL, "stack", "page", "grow", "lazy", "lazy_again"}

Points == {"new", "user", "frame", "swap_out", "save", "fill", "install",
           "munmap", "exit", "dying", "dead"}

\* A page table in terms of its entries.
LEMMA TableOf ==
  ASSUME NEW T
  PROVE  T \in Tables <=> /\ T = [v \in DOMAIN T |-> T[v]]
                          /\ DOMAIN T \subseteq Pages
                          /\ \A v \in DOMAIN T : T[v] \in Entry
<1>1. ASSUME T \in Tables
      PROVE  /\ T = [v \in DOMAIN T |-> T[v]] /\ DOMAIN T \subseteq Pages
             /\ \A v \in DOMAIN T : T[v] \in Entry
  <2>1. PICK D \in SUBSET Pages : T \in [D -> Entry]
    BY <1>1 DEF Tables
  <2> QED
    BY <2>1
<1>2. ASSUME T = [v \in DOMAIN T |-> T[v]], DOMAIN T \subseteq Pages,
             \A v \in DOMAIN T : T[v] \in Entry
      PROVE  T \in Tables
  <2>1. T \in [DOMAIN T -> Entry]
    BY <1>2
  <2> QED
    BY <1>2, <2>1 DEF Tables
<1> QED
  BY <1>1, <1>2

\* A change to one entry of one page table.
LEMMA EntryChanges ==
  ASSUME NEW o \in Procs, NEW w, NEW r \in Entry, spt \in [Procs -> Tables],
         w \in DOMAIN spt[o]
  PROVE  LET s == [spt EXCEPT ![o][w] = r] IN
           /\ s \in [Procs -> Tables]
           /\ \A q \in Procs : DOMAIN s[q] = DOMAIN spt[q]
           /\ \A q \in Procs : q # o => s[q] = spt[q]
           /\ s[o][w] = r
           /\ \A v \in DOMAIN spt[o] : v # w => s[o][v] = spt[o][v]
<1> DEFINE T == spt[o]
           U == [T EXCEPT ![w] = r]
<1>1. /\ T = [v \in DOMAIN T |-> T[v]] /\ DOMAIN T \subseteq Pages
      /\ \A v \in DOMAIN T : T[v] \in Entry
  <2>1. T \in Tables
    OBVIOUS
  <2> QED
    BY <2>1, TableOf
<1>2. [spt EXCEPT ![o][w] = r] = [spt EXCEPT ![o] = U]
  BY SMT
<1>3. w \in DOMAIN T
  BY SMT
<1> HIDE DEF T
<1>4. DOMAIN U = DOMAIN T /\ U[w] = r /\ \A v \in DOMAIN T : v # w => U[v] = T[v]
  BY <1>1, <1>3, SMT
<1>5. U = [v \in DOMAIN U |-> U[v]] /\ \A v \in DOMAIN U : U[v] \in Entry
  BY <1>1, <1>3, <1>4, SMT
<1>6. U \in Tables
  BY <1>1, <1>4, <1>5, TableOf
<1> HIDE DEF U
<1> QED
  BY <1>2, <1>4, <1>6, SMT DEF T

\* A page table that is replaced as a whole.
LEMMA TableReplaced ==
  ASSUME NEW o \in Procs, NEW T \in Tables, spt \in [Procs -> Tables]
  PROVE  LET s == [spt EXCEPT ![o] = T] IN
           /\ s \in [Procs -> Tables]
           /\ \A q \in Procs : q # o => s[q] = spt[q]
           /\ s[o] = T
  BY SMT

\* What a process is in the middle of depends on its own thread, descriptor and
\* pages only.
LEMMA LocalStays ==
  ASSUME NEW q \in Procs, Local(q), Entries(q)', th'[q] = th[q], fd'[q] = fd[q],
         pte'[q] = pte[q], DOMAIN spt'[q] = DOMAIN spt[q], swap_lock = q => swap_lock' = q
  PROVE  Local(q)'
<1>1. Fault(q)'
  BY DEF Local, Fault, Faulting
<1>2. Victims(q)'
  BY DEF Local, Victims, Holding
<1>3. Unmapping(q)'
  BY DEF Local, Unmapping, Faulting
<1>4. Ends(q)'
  BY DEF Local, Ends
<1> QED
  BY <1>1, <1>2, <1>3, <1>4 DEF Local

\* The other processes when their page tables stay.
LEMMA OthersStay ==
  ASSUME NEW p \in Procs, \A q \in Procs : Local(q),
         \A q \in Procs : q # p =>
           /\ th'[q] = th[q] /\ fd'[q] = fd[q] /\ pte'[q] = pte[q] /\ spt'[q] = spt[q]
           /\ swap_lock = q => swap_lock' = q
  PROVE  \A q \in Procs : q # p => Local(q)'
<1> SUFFICES ASSUME NEW q \in Procs, q # p PROVE Local(q)'
  OBVIOUS
<1>1. /\ th'[q] = th[q] /\ fd'[q] = fd[q] /\ pte'[q] = pte[q] /\ spt'[q] = spt[q]
      /\ swap_lock = q => swap_lock' = q
  OBVIOUS
<1>2. Entries(q)'
  BY <1>1 DEF Local, Entries
<1> QED
  BY <1>1, <1>2, LocalStays

\* The entries of the frame table.
LEMMA FrameTypes ==
  ASSUME Types
  PROVE  /\ Len(frame_table) \in Nat /\ DOMAIN frame_table = 1..Len(frame_table)
         /\ \A i \in DOMAIN frame_table :
              /\ frame_table[i] \in FrameEntry
              /\ frame_table[i].frame \in Frames /\ frame_table[i].owner \in Procs
              /\ frame_table[i].page \in Pages /\ frame_table[i].spte \in BOOLEAN
<1>1. frame_table \in Seq(FrameEntry)
  BY DEF Types
<1>2. /\ Len(frame_table) \in Nat /\ DOMAIN frame_table = 1..Len(frame_table)
      /\ \A i \in DOMAIN frame_table : frame_table[i] \in FrameEntry
  BY <1>1, SMT
<1>3. ASSUME NEW e \in FrameEntry
      PROVE  e.frame \in Frames /\ e.owner \in Procs /\ e.page \in Pages /\ e.spte \in BOOLEAN
  BY <1>3, SMT DEF FrameEntry
<1> QED
  BY <1>2, <1>3

-----------------------------------------------------------------------------
(* Threads, one change at a time.                                          *)

\* Thread r serves the same fault as t.
SameFault(r, t) ==
  /\ r.goal = t.goal /\ r.page = t.page /\ r.write = t.write

\* The fields of a thread that moves on.
LEMMA PcFields ==
  ASSUME NEW t \in Thread, NEW pc \in Points
  PROVE  LET r == [t EXCEPT !.pc = pc] IN
           /\ r \in Thread /\ r.pc = pc /\ SameFault(r, t) /\ r.kpage = t.kpage
           /\ r.victim = t.victim /\ r.iter = t.iter /\ r.leaving = t.leaving
  BY SMT DEF Thread, Points, SameFault

\* Threads t are those of th but for p, which has moved on.
Moves(t, p, pc) ==
  /\ t \in [Procs -> Thread] /\ \A q \in Procs : q # p => t[q] = th[q]
  /\ t[p].pc = pc /\ SameFault(t[p], th[p]) /\ t[p].kpage = th[p].kpage
  /\ t[p].victim = th[p].victim /\ t[p].iter = th[p].iter /\ t[p].leaving = th[p].leaving

\* Goto only moves on.
LEMMA GotoThread ==
  ASSUME NEW p \in Procs, NEW pc \in Points, th \in [Procs -> Thread]
  PROVE  Moves(Goto(p, pc), p, pc)
<1> DEFINE r == [th[p] EXCEPT !.pc = pc]
<1>1. th[p] \in Thread
  BY SMT
<1>2. /\ r \in Thread /\ r.pc = pc /\ SameFault(r, th[p]) /\ r.kpage = th[p].kpage
      /\ r.victim = th[p].victim /\ r.iter = th[p].iter /\ r.leaving = th[p].leaving
  BY <1>1, PcFields, SMT
<1>3. Goto(p, pc) = [th EXCEPT ![p] = r]
  BY SMT DEF Goto
<1> HIDE DEF r
<1>4. /\ Goto(p, pc) \in [Procs -> Thread] /\ Goto(p, pc)[p] = r
      /\ \A q \in Procs : q # p => Goto(p, pc)[q] = th[q]
  BY <1>2, <1>3, SMT
<1> QED
  BY <1>2, <1>4 DEF Moves

\* One thread changes.
LEMMA ThreadReplaced ==
  ASSUME NEW p \in Procs, NEW r \in Thread, th \in [Procs -> Thread]
  PROVE  LET t == [th EXCEPT ![p] = r] IN
           /\ t \in [Procs -> Thread] /\ t[p] = r
           /\ \A q \in Procs : q # p => t[q] = th[q]
  BY SMT

\* The frame table stays, and the page tables only gain entries.
LEMMA TableStays ==
  ASSUME Types, Table, \A q \in Procs : DOMAIN spt[q] \subseteq DOMAIN spt'[q],
         UNCHANGED frame_table
  PROVE  Table'
  BY FrameTypes DEF Table

\* A step that leaves the other processes and the frame table alone.
LEMMA StepControl ==
  ASSUME NEW p \in Procs, Control, Types', Local(p)', Table',
         \A q \in Procs : q # p =>
           /\ th'[q] = th[q] /\ fd'[q] = fd[q] /\ pte'[q] = pte[q] /\ spt'[q] = spt[q]
           /\ swap_lock = q => swap_lock' = q
  PROVE  Control'
<1>1. \A q \in Procs : q # p => Local(q)'
  BY OthersStay DEF Control
<1> QED
  BY <1>1 DEF Control

-----------------------------------------------------------------------------
(* Control: types, locals, page tables.                                    *)

\* A halt changes nothing that is followed.
LEMMA HaltControl ==
  ASSUME Control, NEW how, how = "panic" \/ how = "lost", Halt(how)
  PROVE  Control'
<1>1. /\ UNCHANGED th /\ UNCHANGED pte /\ UNCHANGED spt /\ UNCHANGED fd
      /\ UNCHANGED pool /\ UNCHANGED content /\ UNCHANGED frame_table
      /\ UNCHANGED swap_table /\ UNCHANGED swapped_data /\ UNCHANGED swap_lock
      /\ UNCHANGED filesys_lock /\ UNCHANGED mem /\ UNCHANGED foreign
  BY DEF Halt, kernel, locks, history
<1>2. machine' \in {"running", "panic", "lost"}
  BY DEF Halt
<1>3. Types'
  BY <1>1, <1>2 DEF Control, Types
<1>4. \A q \in Procs : Local(q)'
  <2> SUFFICES ASSUME NEW q \in Procs PROVE Local(q)'
    OBVIOUS
  <2>1. Local(q)
    BY DEF Control
  <2>2. Entries(q)'
    BY <1>1, <2>1 DEF Local, Entries
  <2> QED
    BY <1>1, <2>1, <2>2, LocalStays
<1>5. Table'
  BY <1>1 DEF Control, Table
<1> QED
  BY <1>3, <1>4, <1>5 DEF Control

\* What has to be shown of such a process.
LEMMA IdleLocal ==
  ASSUME NEW p \in Procs, Entries(p)', th'[p].pc = "user" \/ th'[p].pc = "exit",
         th'[p].victim = NULL, ~(th'[p].iter > 0)
  PROVE  Local(p)'
<1>1. Fault(p)' /\ Victims(p)' /\ Unmapping(p)' /\ Ends(p)'
  BY DEF Fault, Faulting, Victims, Holding, Unmapping, Ends
<1> QED
  BY <1>1 DEF Local

\* What has to be shown of a process that wants a frame.
LEMMA WantLocal ==
  ASSUME NEW p \in Procs, Entries(p)', Fault(p)', Unmapping(p)',
         th'[p].pc = "frame" \/ th'[p].pc = "swap_out", th'[p].victim = NULL
  PROVE  Local(p)'
<1>1. Victims(p)' /\ Ends(p)'
  BY DEF Victims, Holding, Ends
<1> QED
  BY <1>1 DEF Local

-----------------------------------------------------------------------------
(* Changes to page directories, entries and the frame table.               *)

\* Page directories d are those of pte but for page v of p, which is in frame x.
Sets(d, p, v, x) ==
  /\ d \in [Procs -> [Pages -> Frames \cup {NULL}]]
  /\ \A q \in Procs : q # p => d[q] = pte[q]
  /\ d[p][v] = x
  /\ \A u \in Pages : u # v => d[p][u] = pte[p][u]

\* One page of one page directory changes.
LEMMA PteChanges ==
  ASSUME NEW p \in Procs, NEW v \in Pages, NEW x \in Frames \cup {NULL},
         pte \in [Procs -> [Pages -> Frames \cup {NULL}]]
  PROVE  Sets([pte EXCEPT ![p][v] = x], p, v, x)
<1>1. pte[p] \in [Pages -> Frames \cup {NULL}]
  OBVIOUS
<1> QED
  BY <1>1, SMT DEF Sets

\* Entry s is e but for what is noted after a fault.
SameEntry(s, e) ==
  /\ s.swapped = e.swapped /\ s.slot = e.slot /\ s.load_executable = e.load_executable
  /\ s.writable = e.writable /\ s.mmapped = e.mmapped

\* Page tables s are those of spt but for page v of p.
Changes(s, p, v) ==
  /\ s \in [Procs -> Tables]
  /\ \A q \in Procs : DOMAIN s[q] = DOMAIN spt[q]
  /\ \A q \in Procs : q # p => s[q] = spt[q]
  /\ \A u \in DOMAIN spt[p] : u # v => s[p][u] = spt[p][u]

\* The same as EntryChanges.
LEMMA EntryChangesTo ==
  ASSUME NEW o \in Procs, NEW w, NEW r \in Entry, spt \in [Procs -> Tables],
         w \in DOMAIN spt[o]
  PROVE  Changes([spt EXCEPT ![o][w] = r], o, w) /\ [spt EXCEPT ![o][w] = r][o][w] = r
<1> DEFINE s == [spt EXCEPT ![o][w] = r]
<1>1. /\ s \in [Procs -> Tables]
      /\ \A q \in Procs : DOMAIN s[q] = DOMAIN spt[q]
      /\ \A q \in Procs : q # o => s[q] = spt[q]
      /\ s[o][w] = r
      /\ \A v \in DOMAIN spt[o] : v # w => s[o][v] = spt[o][v]
  BY EntryChanges, SMT
<1> HIDE DEF s
<1>2. Changes(s, o, w) /\ s[o][w] = r
  BY <1>1 DEF Changes
<1> QED
  BY <1>2, SMT DEF s

\* An entry of a page table has its type.
LEMMA EntryTypes ==
  ASSUME NEW p \in Procs, NEW v, spt \in [Procs -> Tables], v \in DOMAIN spt[p]
  PROVE  spt[p][v] \in Entry /\ v \in Pages
<1>1. spt[p] \in Tables
  OBVIOUS
<1> QED
  BY <1>1, TableOf

\* Page tables s are those of spt but for p, which has got the entries N.
Joins(s, p, N) ==
  /\ s \in [Procs -> Tables] /\ \A q \in Procs : q # p => s[q] = spt[q]
  /\ DOMAIN s[p] = DOMAIN N \cup DOMAIN spt[p]
  /\ \A v \in DOMAIN spt[p] : s[p][v] = spt[p][v]
  /\ \A v \in DOMAIN N : v \notin DOMAIN spt[p] => s[p][v] = N[v]

\* A page table that gains entries.
LEMMA TableJoined ==
  ASSUME NEW p \in Procs, NEW N \in Tables, spt \in [Procs -> Tables]
  PROVE  Joins([spt EXCEPT ![p] = Inserted(spt[p], N)], p, N)
<1> DEFINE S == spt[p]
           T == Inserted(S, N)
<1>1. S \in Tables
  OBVIOUS
<1> HIDE DEF S
<1>2. /\ T = [v \in DOMAIN T |-> T[v]] /\ DOMAIN T = DOMAIN N \cup DOMAIN S
      /\ \A v \in DOMAIN S : T[v] = S[v]
      /\ \A v \in DOMAIN N : v \notin DOMAIN S => T[v] = N[v]
  BY DEF Inserted
<1> HIDE DEF T
<1>3. DOMAIN T \subseteq Pages /\ \A v \in DOMAIN T : T[v] \in Entry
  BY <1>1, <1>2, TableOf
<1>4. T \in Tables
  BY <1>2, <1>3, TableOf
<1>5. LET s == [spt EXCEPT ![p] = T] IN
        s \in [Procs -> Tables] /\ s[p] = T /\ \A q \in Procs : q # p => s[q] = spt[q]
  BY <1>4, TableReplaced
<1> QED
  BY <1>2, <1>5 DEF T, S, Joins

\* Entries keep their kind when only a swap state, a note or mid changes.
LEMMA KindStays ==
  ASSUME NEW v, NEW s, NEW e, Kind(v, e), SameEntry(s, e)
  PROVE  Kind(v, s)
  BY DEF Kind, SameEntry

\* Freed frames hold nothing.
LEMMA FreeTypes ==
  ASSUME Types, NEW S \in SUBSET Frames, Free(S)
  PROVE  pool' \subseteq Frames /\ content' \in [Frames -> Contents]
<1>1. Junk \in Contents
  BY DEF Contents
<1> QED
  BY <1>1 DEF Free, Types

-----------------------------------------------------------------------------
(* Control, continued: filling a frame.                                    *)

\* Threads t are those of th but for p, whose fault is over.
Resumes(t, p) ==
  /\ t \in [Procs -> Thread] /\ \A q \in Procs : q # p => t[q] = th[q]
  /\ (th[p].iter > 0 /\ t[p].pc = "munmap") \/ (~(th[p].iter > 0) /\ t[p].pc = "user")
  /\ t[p].victim = th[p].victim /\ t[p].iter = th[p].iter /\ t[p].leaving = th[p].leaving

\* Resume ends the fault.
LEMMA ResumeThread ==
  ASSUME NEW p \in Procs, th \in [Procs -> Thread]
  PROVE  Resumes(Resume(p), p)
<1> DEFINE t == th[p]
           x == IF t.iter > 0 THEN "munmap" ELSE "user"
           r == [t EXCEPT !.pc = x, !.goal = NULL, !.page = NULL, !.write = FALSE, !.kpage = NULL]
<1>1. t \in Thread
  BY SMT
<1>2. Resume(p) = [th EXCEPT ![p] = r]
  BY SMT DEF Resume
<1> HIDE DEF t
<1>3. x = "munmap" \/ x = "user"
  BY SMT
<1>4. (t.iter > 0 /\ x = "munmap") \/ (~(t.iter > 0) /\ x = "user")
  BY SMT
<1> HIDE DEF x
<1>5. r \in Thread
  BY <1>1, <1>3 DEF Thread
<1>6. r.pc = x /\ r.victim = t.victim /\ r.iter = t.iter /\ r.leaving = t.leaving
  BY <1>1 DEF Thread
<1> HIDE DEF r
<1> QED
  BY <1>2, <1>4, <1>5, <1>6, SMT DEF t, Resumes

\* The fields of a thread that got a frame.
LEMMA FillFields ==
  ASSUME NEW t \in Thread, NEW f \in Frames
  PROVE  LET r == [t EXCEPT !.pc = "fill", !.kpage = f] IN
           /\ r \in Thread /\ r.pc = "fill" /\ r.kpage = f /\ SameFault(r, t)
           /\ r.victim = t.victim /\ r.iter = t.iter /\ r.leaving = t.leaving
  BY DEF Thread, SameFault

\* palloc_get_page gives a frame or sends the process to swap_out.
LEMMA PallocControl ==
  ASSUME Control, NEW p \in Procs, palloc_get_page(p)
  PROVE  Control'
<1>1. /\ th \in [Procs -> Thread] /\ th[p] \in Thread /\ th[p].pc = "frame" /\ Local(p)
      /\ pool \subseteq Frames
  BY DEF Control, Types, palloc_get_page, At
<1>2. th[p].victim = NULL
  BY <1>1 DEF Local, Victims
<1>3. CASE Halt("panic")
  BY <1>3, HaltControl
<1>4. CASE ~Halt("panic")
  <2>1. /\ UNCHANGED pte /\ UNCHANGED fd /\ UNCHANGED spt /\ UNCHANGED content
        /\ UNCHANGED frame_table /\ UNCHANGED swap_table /\ UNCHANGED swapped_data
        /\ UNCHANGED swap_lock /\ UNCHANGED filesys_lock /\ UNCHANGED machine
        /\ UNCHANGED mem /\ UNCHANGED foreign /\ pool' \subseteq pool
    BY <1>4 DEF palloc_get_page, kernel, locks, history
  <2>2. Entries(p)'
    BY <1>1, <2>1 DEF Local, Entries
  <2>3. /\ th' \in [Procs -> Thread] /\ \A q \in Procs : q # p => th'[q] = th[q]
        /\ Local(p)'
    <3>1. CASE \E f \in pool : th' = [th EXCEPT ![p] = [@ EXCEPT !.pc = "fill", !.kpage = f]]
      <4>1. PICK f \in pool : th' = [th EXCEPT ![p] = [th[p] EXCEPT !.pc = "fill", !.kpage = f]]
        BY <3>1
      <4>2. DEFINE r == [th[p] EXCEPT !.pc = "fill", !.kpage = f]
      <4>3. /\ r \in Thread /\ r.pc = "fill" /\ r.kpage = f /\ SameFault(r, th[p])
            /\ r.victim = th[p].victim /\ r.iter = th[p].iter /\ f \in Frames
        BY <1>1, FillFields
      <4>4. th' = [th EXCEPT ![p] = r]
        BY <4>1
      <4> HIDE DEF r
      <4>5. th' \in [Procs -> Thread] /\ th'[p] = r /\ \A q \in Procs : q # p => th'[q] = th[q]
        BY <1>1, <4>3, <4>4, ThreadReplaced
      <4>6. Fault(p)'
        BY <1>1, <2>1, <4>3, <4>5 DEF Local, Fault, Faulting, SameFault
      <4>7. Victims(p)' /\ Ends(p)'
        BY <1>2, <4>3, <4>5 DEF Victims, Holding, Ends
      <4>8. Unmapping(p)'
        BY <1>1, <2>1, <4>3, <4>5 DEF Local, Unmapping, Faulting, SameFault
      <4> QED
        BY <2>2, <4>5, <4>6, <4>7, <4>8 DEF Local
    <3>2. CASE th' = Goto(p, "swap_out")
      <4>1. "swap_out" \in Points
        BY DEF Points
      <4>2. Moves(th', p, "swap_out")
        BY <1>1, <3>2, <4>1, GotoThread
      <4>3. /\ th'[p].pc = "swap_out" /\ SameFault(th'[p], th[p])
            /\ th'[p].victim = th[p].victim /\ th'[p].iter = th[p].iter
            /\ th' \in [Procs -> Thread] /\ \A q \in Procs : q # p => th'[q] = th[q]
        BY <4>2 DEF Moves
      <4>4. Fault(p)'
        BY <1>1, <2>1, <4>3 DEF Local, Fault, Faulting, SameFault
      <4>5. Unmapping(p)'
        BY <1>1, <2>1, <4>3 DEF Local, Unmapping, Faulting, SameFault
      <4> QED
        BY <1>2, <2>2, <4>3, <4>4, <4>5, WantLocal
    <3> QED
      BY <1>4, <3>1, <3>2 DEF palloc_get_page
  <2>4. Types'
    BY <2>1, <2>3 DEF Control, Types
  <2>5. Table'
    BY <2>1 DEF Control, Table
  <2> QED
    BY <2>1, <2>3, <2>4, <2>5, StepControl
<1> QED
  BY <1>3, <1>4

\* What page_fault notes in the entry once the page is there.
LEMMA NotedIs ==
  ASSUME NEW p \in Procs, spt \in [Procs -> Tables], th \in [Procs -> Thread],
         th[p].page \in DOMAIN spt[p]
  PROVE  /\ Changes(Noted(p), p, th[p].page)
         /\ SameEntry(Noted(p)[p][th[p].page], spt[p][th[p].page])
         /\ Noted(p)[p][th[p].page].loaded = spt[p][th[p].page].mmapped
<1> DEFINE v == th[p].page
           e == spt[p][v]
           x == e.dirty \/ (e.mmapped /\ th[p].write)
           r == [e EXCEPT !.loaded = e.mmapped, !.dirty = x]
<1>1. e \in Entry
  BY EntryTypes
<1>2. Noted(p) = [spt EXCEPT ![p][v] = r]
  BY SMT DEF Noted
<1>3. v \in DOMAIN spt[p]
  OBVIOUS
<1> HIDE DEF v
<1>4. x \in BOOLEAN
  BY SMT
<1> HIDE DEF e, x
<1>5. r \in Entry /\ r.loaded = e.mmapped
  BY <1>1, <1>4 DEF Entry
<1>6. SameEntry(r, e)
  BY <1>1 DEF Entry, SameEntry
<1> HIDE DEF r
<1>7. Changes([spt EXCEPT ![p][v] = r], p, v) /\ [spt EXCEPT ![p][v] = r][p][v] = r
  BY <1>3, <1>5, EntryChangesTo
<1>8. Changes(Noted(p), p, v) /\ Noted(p)[p][v] = r
  BY <1>2, <1>7
<1> QED
  BY <1>5, <1>6, <1>8 DEF v, e

\* Table t is the frame table with entry e at the back.
Lists(t, e) ==
  /\ t \in Seq(FrameEntry)
  /\ \A i \in DOMAIN frame_table : i \in DOMAIN t /\ t[i] = frame_table[i]
  /\ Len(frame_table)+1 \in DOMAIN t /\ t[Len(frame_table)+1] = e
  /\ \A i \in DOMAIN t : i \in DOMAIN frame_table \/ i = Len(frame_table)+1
  /\ Len(frame_table)+1 \notin DOMAIN frame_table

\* allocate_frame adds an entry at the back.
LEMMA FrameAppended ==
  ASSUME NEW e \in FrameEntry, Types
  PROVE  Lists(Append(frame_table, e), e)
<1>1. frame_table \in Seq(FrameEntry)
  BY DEF Types
<1> QED
  BY <1>1, SMT DEF Lists

\* The fault is over: what is left to show of the process.
LEMMA ResumeLocal ==
  ASSUME NEW p \in Procs, Local(p), Holding(p), Resumes(th', p), Entries(p)',
         fd'[p] = fd[p] \/ th[p].goal # "page",
         \A u \in Pages : u # th[p].page => pte'[p][u] = pte[p][u]
  PROVE  Local(p)'
<1>1. Faulting(p) /\ th[p].victim = NULL
  BY DEF Local, Victims, Holding, Faulting
<1>2. CASE ~(th[p].iter > 0)
  <2>1. th'[p].pc = "user" /\ th'[p].victim = NULL /\ ~(th'[p].iter > 0)
    BY <1>1, <1>2 DEF Resumes
  <2> QED
    BY <2>1, IdleLocal
<1>3. CASE th[p].iter > 0
  <2>1. th'[p].pc = "munmap" /\ th'[p].victim = NULL /\ th'[p].iter = th[p].iter
    BY <1>1, <1>3 DEF Resumes
  <2>2. /\ th[p].goal = "page" /\ th[p].iter \in 1..Len(Region)
        /\ th[p].page = Region[th[p].iter] /\ fd[p] = "mapped"
        /\ \A j \in 1..Len(Region) : j < th[p].iter => pte[p][Region[j]] = NULL
    BY <1>1, <1>3 DEF Local, Unmapping
  <2>3. Fault(p)' /\ Victims(p)' /\ Ends(p)'
    BY <2>1 DEF Fault, Faulting, Victims, Holding, Ends
  <2>4. \A j \in 1..Len(Region) : j < th[p].iter => pte'[p][Region[j]] = NULL
    <3> SUFFICES ASSUME NEW j \in 1..Len(Region), j < th[p].iter
                 PROVE  pte'[p][Region[j]] = NULL
      OBVIOUS
    <3>1. j # th[p].iter
      BY <2>2, Regions, SMT
    <3>2. Region[j] # Region[th[p].iter]
      BY <2>2, <3>1, Regions
    <3>3. Region[j] \in Pages
      BY Regions DEF Pages
    <3> QED
      BY <2>2, <3>2, <3>3
  <2>5. Unmapping(p)'
    BY <1>3, <2>1, <2>2, <2>4 DEF Unmapping, Faulting
  <2> QED
    BY <2>3, <2>5 DEF Local
<1> QED
  BY <1>2, <1>3

\* The frame goes into the page directory: the page is not there yet.
LEMMA Installed ==
  ASSUME NEW p \in Procs, Control, Holding(p)
  PROVE  Sets(install_page(p, th[p].page, th[p].kpage), p, th[p].page, th[p].kpage)
<1>1. pte \in [Procs -> [Pages -> Frames \cup {NULL}]] /\ Local(p)
  BY DEF Control, Types
<1>2. th[p].page \in Pages /\ pte[p][th[p].page] = NULL /\ th[p].kpage \in Frames
  BY <1>1 DEF Local, Fault, Faulting, Holding, Victims
<1>3. install_page(p, th[p].page, th[p].kpage) = [pte EXCEPT ![p][th[p].page] = th[p].kpage]
  BY <1>2 DEF install_page, pagedir_get_page, pagedir_set_page
<1>4. th[p].kpage \in Frames \cup {NULL}
  BY <1>2
<1>5. Sets([pte EXCEPT ![p][th[p].page] = th[p].kpage], p, th[p].page, th[p].kpage)
  BY <1>1, <1>2, <1>4, PteChanges
<1> QED
  BY <1>3, <1>5

\* FillStack.
LEMMA FillStackControl ==
  ASSUME Control, NEW p \in Procs, FillStack(p)
  PROVE  Control'
<1>1. /\ th \in [Procs -> Thread] /\ th[p].pc = "fill" /\ th[p].goal = "stack" /\ Local(p)
      /\ content \in [Frames -> Contents] /\ Holding(p)
  BY DEF Control, Types, FillStack, At, Holding
<1>2. /\ UNCHANGED spt /\ UNCHANGED fd /\ UNCHANGED pool /\ UNCHANGED frame_table
      /\ UNCHANGED swap_table /\ UNCHANGED swapped_data /\ UNCHANGED swap_lock
      /\ UNCHANGED filesys_lock /\ UNCHANGED machine /\ UNCHANGED mem /\ UNCHANGED foreign
  BY DEF FillStack, locks, history
<1>3. Resumes(th', p)
  BY <1>1, ResumeThread DEF FillStack
<1>4. th[p].page = StackPage /\ StackPage \in Pages /\ th[p].kpage \in Frames
  BY <1>1 DEF Local, Fault, Faulting, Victims, Holding, Pages
<1>5. /\ pte' \in [Procs -> [Pages -> Frames \cup {NULL}]]
      /\ \A q \in Procs : q # p => pte'[q] = pte[q]
      /\ \A u \in Pages : u # th[p].page => pte'[p][u] = pte[p][u]
  <2>1. pte' = install_page(p, th[p].page, th[p].kpage)
    BY <1>4 DEF FillStack
  <2> QED
    BY <1>1, <2>1, Installed DEF Sets
<1>6. content' \in [Frames -> Contents]
  <2>1. Loaded(p, StackPage) \in Contents
    BY <1>4, SMT DEF Loaded, Contents
  <2> QED
    BY <1>1, <1>4, <2>1 DEF FillStack
<1>7. Entries(p)'
  <2>1. StackPage \notin MapPages /\ MapPages \subseteq Pages
    BY PageKinds DEF Pages
  <2> QED
    BY <1>1, <1>2, <1>4, <1>5, <2>1 DEF Local, Entries
<1>8. Local(p)'
  BY <1>1, <1>2, <1>3, <1>5, <1>7, ResumeLocal
<1>9. Types'
  BY <1>2, <1>3, <1>5, <1>6 DEF Control, Types, Resumes
<1>10. Table'
  BY <1>2 DEF Control, Table
<1> QED
  BY <1>2, <1>3, <1>5, <1>8, <1>9, <1>10, StepControl DEF Resumes

\* FillGrow enters the new stack page everywhere.
LEMMA FillGrowControl ==
  ASSUME Control, NEW p \in Procs, FillGrow(p)
  PROVE  Control'
<1>1. /\ th \in [Procs -> Thread] /\ th[p].pc = "fill" /\ th[p].goal = "grow" /\ Local(p)
      /\ spt \in [Procs -> Tables] /\ content \in [Frames -> Contents] /\ Holding(p)
      /\ mem \in [Procs -> [Pages -> Contents]] /\ Types
  BY DEF Control, Types, FillGrow, At, Holding
<1>2. /\ UNCHANGED fd /\ UNCHANGED pool /\ UNCHANGED content
      /\ UNCHANGED swap_table /\ UNCHANGED swapped_data /\ UNCHANGED swap_lock
      /\ UNCHANGED filesys_lock /\ UNCHANGED machine /\ UNCHANGED foreign
  BY DEF FillGrow, locks
<1>3. Resumes(th', p)
  BY <1>1, ResumeThread DEF FillGrow
<1>4. PICK v : v = th[p].page
  OBVIOUS
<1>5. v \in GrowPages /\ v \in Pages /\ v \notin MapPages /\ th[p].kpage \in Frames
  BY <1>1, <1>4, PageKinds DEF Local, Fault, Faulting, Victims, Holding
<1>6. Sets(pte', p, v, th[p].kpage)
  BY <1>1, <1>4, Installed DEF FillGrow, install_fault_page
<1>7. /\ spt' \in [Procs -> Tables] /\ \A q \in Procs : q # p => spt'[q] = spt[q]
      /\ DOMAIN spt'[p] = {v} \cup DOMAIN spt[p]
      /\ v \notin DOMAIN spt[p] => spt'[p][v] = Grown
      /\ \A u \in DOMAIN spt[p] : spt'[p][u] = spt[p][u]
  <2> DEFINE N == [u \in {v} |-> Grown]
  <2>1. N = [u \in DOMAIN N |-> N[u]] /\ DOMAIN N = {v} /\ N[v] = Grown
    OBVIOUS
  <2>2. Grown \in Entry
    BY SMT DEF Grown, Entry
  <2>3. N \in Tables
    <3>1. DOMAIN N \subseteq Pages /\ \A u \in DOMAIN N : N[u] \in Entry
      BY <1>5, <2>1, <2>2
    <3> HIDE DEF N
    <3> QED
      BY <2>1, <3>1, TableOf
  <2>4. spt' = [spt EXCEPT ![p] = Inserted(spt[p], N)]
    BY <1>4 DEF FillGrow
  <2> HIDE DEF N
  <2>5. Joins(spt', p, N)
    BY <1>1, <2>3, <2>4, TableJoined
  <2> QED
    BY <2>1, <2>5 DEF Joins
<1>8. Kind(v, Grown)
  BY <1>5, PageKinds DEF Kind, Grown
<1>9. Entries(p)'
  <2>1. MapPages \subseteq Pages
    BY DEF Pages
  <2>2. \A u \in DOMAIN spt'[p] : Kind(u, spt'[p][u])
    BY <1>1, <1>7, <1>8 DEF Local, Entries
  <2>3. fd'[p] = "mapped" => MapPages \subseteq DOMAIN spt'[p]
    BY <1>1, <1>2, <1>7 DEF Local, Entries
  <2>4. \A u \in MapPages : pte'[p][u] # NULL => u \in DOMAIN spt'[p] /\ spt'[p][u].loaded
    BY <1>1, <1>5, <1>6, <1>7, <2>1 DEF Local, Entries, Sets
  <2> QED
    BY <2>2, <2>3, <2>4 DEF Entries
<1>10. Local(p)'
  BY <1>1, <1>2, <1>3, <1>4, <1>6, <1>9, ResumeLocal DEF Sets
<1>11. PICK e : e = [frame |-> th[p].kpage, owner |-> p, page |-> v, spte |-> FALSE]
  OBVIOUS
<1>12. e \in FrameEntry /\ e.spte = FALSE
  BY <1>5, <1>11, SMT DEF FrameEntry
<1>13. frame_table' = Append(frame_table, e)
  BY <1>4, <1>11 DEF FillGrow, allocate_frame
<1>14. /\ frame_table' \in Seq(FrameEntry)
       /\ \A i \in DOMAIN frame_table' :
            \/ i \in DOMAIN frame_table /\ frame_table'[i] = frame_table[i]
            \/ frame_table'[i] = e
  BY <1>1, <1>12, <1>13, FrameAppended DEF Lists
<1>15. mem' \in [Procs -> [Pages -> Contents]]
  BY <1>1, <1>4, <1>5, SMT DEF FillGrow
<1>16. Types'
  BY <1>2, <1>3, <1>6, <1>7, <1>14, <1>15 DEF Control, Types, Resumes, Sets
<1>17. Table'
  <2>1. \A q \in Procs : DOMAIN spt[q] \subseteq DOMAIN spt'[q]
    BY <1>7
  <2>2. \A i \in DOMAIN frame_table : frame_table[i].owner \in Procs
    BY <1>1, FrameTypes
  <2> QED
    BY <1>12, <1>14, <2>1, <2>2 DEF Control, Table
<1> QED
  BY <1>2, <1>3, <1>6, <1>7, <1>10, <1>16, <1>17, StepControl DEF Resumes, Sets

\* A frame is entered at the back of the frame table for page v of p.
LEMMA EntryListed ==
  ASSUME Types, Table, NEW p \in Procs, NEW f \in Frames, NEW v \in Pages, v \notin GrowPages,
         frame_table' = allocate_frame(p, f, v, TRUE), v \in DOMAIN spt[p],
         \A q \in Procs : DOMAIN spt'[q] = DOMAIN spt[q]
  PROVE  frame_table' \in Seq(FrameEntry) /\ Table'
<1>1. PICK e : e = [frame |-> f, owner |-> p, page |-> v, spte |-> TRUE]
  OBVIOUS
<1>2. e \in FrameEntry /\ e.owner = p /\ e.page = v
  BY <1>1, SMT DEF FrameEntry
<1>3. frame_table' = Append(frame_table, e)
  BY <1>1 DEF allocate_frame
<1>4. /\ frame_table' \in Seq(FrameEntry)
      /\ \A i \in DOMAIN frame_table' :
           \/ i \in DOMAIN frame_table /\ frame_table'[i] = frame_table[i]
           \/ frame_table'[i] = e
  <2>1. Lists(frame_table', e)
    BY <1>2, <1>3, FrameAppended
  <2> QED
    BY <2>1 DEF Lists
<1>5. Table'
  <2> SUFFICES ASSUME NEW i \in DOMAIN frame_table', frame_table'[i].spte
               PROVE  /\ frame_table'[i].page \in DOMAIN spt'[frame_table'[i].owner]
                      /\ frame_table'[i].page \notin GrowPages
    BY DEF Table
  <2>1. CASE i \in DOMAIN frame_table /\ frame_table'[i] = frame_table[i]
    <3>1. frame_table[i].owner \in Procs
      BY <2>1, FrameTypes
    <3> QED
      BY <2>1, <3>1 DEF Table
  <2>2. CASE frame_table'[i] = e
    BY <1>2, <2>2
  <2> QED
    BY <1>4, <2>1, <2>2
<1> QED
  BY <1>4, <1>5

\* FillFromFile reads the page and enters it everywhere.
LEMMA FillFromFileControl ==
  ASSUME Control, NEW p \in Procs, FillFromFile(p)
  PROVE  Control'
<1>1. CASE Halt("lost")
  BY <1>1, HaltControl
<1>2. CASE ~Halt("lost")
  <2>1. /\ th \in [Procs -> Thread] /\ th[p].pc = "fill" /\ Local(p)
        /\ spt \in [Procs -> Tables] /\ content \in [Frames -> Contents] /\ Holding(p)
        /\ Types /\ fd \in [Procs -> {"open", "mapped", "closed"}]
        /\ th[p].goal = "page" \/ th[p].goal = "lazy" \/ th[p].goal = "lazy_again"
    BY DEF Control, Types, FillFromFile, At, Holding
  <2>2. PICK v : v = th[p].page
    OBVIOUS
  <2>3. /\ UNCHANGED pool /\ UNCHANGED swap_table /\ UNCHANGED swapped_data
        /\ UNCHANGED swap_lock /\ UNCHANGED machine /\ UNCHANGED mem /\ UNCHANGED foreign
        /\ ~NoFile(p, spt[p][v])
        /\ content' = [content EXCEPT ![th[p].kpage] = Loaded(p, v)]
        /\ pte' = install_fault_page(p, v, th[p].kpage)
        /\ frame_table' = allocate_frame(p, th[p].kpage, v, TRUE)
        /\ spt' = Noted(p) /\ th' = Resume(p)
        /\ fd' = IF th[p].goal # "page" THEN [fd EXCEPT ![p] = "closed"] ELSE fd
        /\ filesys_lock' = IF th[p].goal # "page" THEN NULL ELSE filesys_lock
    BY <1>2, <2>2 DEF FillFromFile, history
  <2>4. /\ v \in DOMAIN spt[p] /\ v \in Pages /\ th[p].kpage \in Frames
        /\ v \notin GrowPages /\ Kind(v, spt[p][v])
    <3>1. v \in DOMAIN spt[p] /\ th[p].kpage \in Frames
      BY <2>1, <2>2, Regions DEF Local, Fault, Faulting, Victims, Holding, Entries
    <3>2. v \in Pages /\ Kind(v, spt[p][v])
      BY <2>1, <3>1, EntryTypes DEF Local, Entries
    <3>3. v \notin GrowPages
      BY <2>3, <3>2, PageKinds DEF NoFile, Kind
    <3> QED
      BY <3>1, <3>2, <3>3
  <2>5. Resumes(th', p)
    BY <2>1, <2>3, ResumeThread
  <2>6. Sets(pte', p, v, th[p].kpage)
    BY <2>1, <2>2, <2>3, Installed DEF install_fault_page
  <2>7. /\ Changes(spt', p, v) /\ SameEntry(spt'[p][v], spt[p][v])
        /\ spt'[p][v].loaded = spt[p][v].mmapped
    BY <2>1, <2>2, <2>3, <2>4, NotedIs
  <2>8. content' \in [Frames -> Contents]
    <3>1. Loaded(p, v) \in Contents
      BY <2>4, SMT DEF Loaded, Contents
    <3> QED
      BY <2>1, <2>3, <2>4, <3>1
  <2>9. /\ fd' \in [Procs -> {"open", "mapped", "closed"}]
        /\ \A q \in Procs : q # p => fd'[q] = fd[q]
        /\ fd'[p] = fd[p] \/ (fd'[p] = "closed" /\ th[p].goal # "page")
    BY <2>1, <2>3
  <2>10. filesys_lock' \in Procs \cup {NULL}
    BY <2>1, <2>3 DEF Types
  <2>11. Entries(p)'
    <3>1. MapPages \subseteq Pages
      BY DEF Pages
    <3>2. \A u \in DOMAIN spt'[p] : Kind(u, spt'[p][u])
      BY <2>1, <2>4, <2>7, KindStays DEF Local, Entries, Changes
    <3>3. fd'[p] = "mapped" => MapPages \subseteq DOMAIN spt'[p]
      BY <2>1, <2>7, <2>9 DEF Local, Entries, Changes
    <3>4. \A u \in MapPages : pte'[p][u] # NULL => u \in DOMAIN spt'[p] /\ spt'[p][u].loaded
      BY <2>1, <2>4, <2>6, <2>7, <3>1 DEF Local, Entries, Changes, Sets, Kind
    <3> QED
      BY <3>2, <3>3, <3>4 DEF Entries
  <2>12. Local(p)'
    BY <2>1, <2>2, <2>5, <2>6, <2>9, <2>11, ResumeLocal DEF Sets
  <2>13. frame_table' \in Seq(FrameEntry) /\ Table'
    BY <2>1, <2>3, <2>4, <2>7, EntryListed DEF Control, Changes
  <2>14. Types'
    BY <2>1, <2>3, <2>5, <2>6, <2>7, <2>8, <2>9, <2>10, <2>13
       DEF Types, Resumes, Sets, Changes
  <2> QED
    BY <2>3, <2>5, <2>6, <2>7, <2>9, <2>12, <2>13, <2>14, StepControl
       DEF Resumes, Sets, Changes
<1> QED
  BY <1>1, <1>2

\* swap_in lists the frame and frees the slot.
LEMMA SwapInControl ==
  ASSUME Control, Swap, NEW p \in Procs, swap_in(p)
  PROVE  Control'
<1>1. CASE Halt("lost")
  BY <1>1, HaltControl
<1>2. CASE ~Halt("lost")
  <2>1. /\ th \in [Procs -> Thread] /\ th[p].pc = "fill" /\ th[p].goal = "page" /\ Local(p)
        /\ spt \in [Procs -> Tables] /\ content \in [Frames -> Contents] /\ Holding(p)
        /\ Types /\ swapped_data \in [Slots -> Contents]
    BY DEF Control, Types, swap_in, At, Holding
  <2>2. PICK v : v = th[p].page
    OBVIOUS
  <2>3. /\ UNCHANGED pte /\ UNCHANGED fd /\ UNCHANGED pool /\ UNCHANGED swap_lock
        /\ UNCHANGED filesys_lock /\ UNCHANGED machine /\ UNCHANGED mem /\ UNCHANGED foreign
        /\ spt[p][v].swapped /\ swap_lock = NULL
        /\ frame_table' = allocate_frame(p, th[p].kpage, v, TRUE)
        /\ content' = [content EXCEPT ![th[p].kpage] = SwappedContent(p, v)]
        /\ swap_table' = Reclaimed(p, v)
        /\ swapped_data' = [t \in Slots |-> IF t = spt[p][v].slot THEN Junk ELSE swapped_data[t]]
        /\ spt' = [spt EXCEPT ![p][v] = [spt[p][v] EXCEPT !.swapped = FALSE, !.slot = NULL]]
        /\ th' = Goto(p, "install")
    BY <1>2, <2>2 DEF swap_in, history, locks
  <2>4. /\ v \in DOMAIN spt[p] /\ v \in Pages /\ th[p].kpage \in Frames
        /\ v \notin GrowPages /\ Kind(v, spt[p][v]) /\ spt[p][v] \in Entry
    <3>1. v \in DOMAIN spt[p] /\ th[p].kpage \in Frames
      BY <2>1, <2>2 DEF Local, Fault, Faulting, Victims, Holding
    <3>2. v \in Pages /\ Kind(v, spt[p][v]) /\ spt[p][v] \in Entry
      BY <2>1, <3>1, EntryTypes DEF Local, Entries
    <3> QED
      BY <2>3, <3>1, <3>2 DEF Kind
  <2>5. Moves(th', p, "install")
    <3>1. "install" \in Points
      BY DEF Points
    <3> QED
      BY <2>1, <2>3, <3>1, GotoThread
  <2>6. /\ Changes(spt', p, v) /\ spt'[p][v].mmapped = spt[p][v].mmapped
        /\ spt'[p][v].load_executable = spt[p][v].load_executable
        /\ spt'[p][v].writable = spt[p][v].writable /\ spt'[p][v].loaded = spt[p][v].loaded
        /\ spt'[p][v].swapped = FALSE /\ spt'[p][v].slot = NULL
    <3>1. PICK e \in Entry : e = spt[p][v]
      BY <2>4
    <3>2. PICK r : r = [e EXCEPT !.swapped = FALSE, !.slot = NULL]
      OBVIOUS
    <3>3. /\ r \in Entry /\ r.mmapped = e.mmapped /\ r.load_executable = e.load_executable
          /\ r.writable = e.writable /\ r.loaded = e.loaded
          /\ r.swapped = FALSE /\ r.slot = NULL
      BY <3>2 DEF Entry
    <3>4. spt' = [spt EXCEPT ![p][v] = r]
      BY <2>3, <3>1, <3>2
    <3>5. Changes(spt', p, v) /\ spt'[p][v] = r
      BY <2>1, <2>4, <3>3, <3>4, EntryChangesTo
    <3> QED
      BY <3>1, <3>3, <3>5
  <2>7. Anonymous(spt[p][v]) => spt[p][v].slot \in swap_table
    <3>1. SUFFICES ASSUME Anonymous(spt[p][v]) PROVE spt[p][v].slot \in swap_table
      OBVIOUS
    <3>2. v \in DataPages
      BY <2>4, <3>1 DEF Anonymous, Kind
    <3>3. \A q \in Procs : th[q].pc # "save"
      BY <2>3, PageKinds DEF Control, Local, Victims
    <3>4. Away(p, v)
      BY <2>3, <2>4, <3>2, <3>3 DEF Away
    <3> QED
      BY <2>4, <3>4 DEF Swap
  <2>8. content' \in [Frames -> Contents]
    <3>1. Loaded(p, v) \in Contents
      BY <2>4, SMT DEF Loaded, Contents
    <3>2. \A s \in Slots : swapped_data[s] \in Contents
      BY <2>1
    <3>3. Anonymous(spt[p][v]) => spt[p][v].slot \in Slots
      BY <2>1, <2>4, <2>7 DEF Types
    <3> QED
      BY <2>1, <2>3, <2>4, <3>1, <3>2, <3>3 DEF SwappedContent
  <2>9. swap_table' \subseteq Slots
    BY <2>1, <2>3 DEF Types, Reclaimed
  <2>10. swapped_data' \in [Slots -> Contents]
    <3>1. Junk \in Contents
      BY DEF Contents
    <3> QED
      BY <2>1, <2>3, <3>1
  <2>11. Entries(p)'
    <3>1. Kind(v, spt'[p][v])
      BY <2>4, <2>6 DEF Kind
    <3>2. \A u \in DOMAIN spt'[p] : Kind(u, spt'[p][u])
      BY <2>1, <2>6, <3>1 DEF Local, Entries, Changes
    <3>3. fd'[p] = "mapped" => MapPages \subseteq DOMAIN spt'[p]
      BY <2>1, <2>3, <2>6 DEF Local, Entries, Changes
    <3>4. \A u \in MapPages : pte'[p][u] # NULL => u \in DOMAIN spt'[p] /\ spt'[p][u].loaded
      BY <2>1, <2>3, <2>6 DEF Local, Entries, Changes
    <3> QED
      BY <3>2, <3>3, <3>4 DEF Entries
  <2>12. Local(p)'
    <3>1. Fault(p)'
      BY <2>1, <2>3, <2>5, <2>6 DEF Local, Fault, Faulting, Moves, SameFault, Changes
    <3>2. Victims(p)' /\ Ends(p)'
      BY <2>1, <2>5 DEF Local, Victims, Holding, Ends, Moves
    <3>3. Unmapping(p)'
      BY <2>1, <2>3, <2>5 DEF Local, Unmapping, Faulting, Moves, SameFault
    <3> QED
      BY <2>11, <3>1, <3>2, <3>3 DEF Local
  <2>13. frame_table' \in Seq(FrameEntry) /\ Table'
    BY <2>1, <2>3, <2>4, <2>6, EntryListed DEF Control, Changes
  <2>14. Types'
    BY <2>1, <2>3, <2>5, <2>6, <2>8, <2>9, <2>10, <2>13 DEF Types, Moves, Changes
  <2> QED
    BY <2>3, <2>5, <2>6, <2>12, <2>13, <2>14, StepControl DEF Moves, Changes
<1> QED
  BY <1>1, <1>2

\* Install enters the page that swap_in read.
LEMMA InstallControl ==
  ASSUME Control, NEW p \in Procs, Install(p)
  PROVE  Control'
<1>1. /\ th \in [Procs -> Thread] /\ th[p].pc = "install" /\ Local(p)
      /\ spt \in [Procs -> Tables] /\ Holding(p) /\ Types
  BY DEF Control, Types, Install, At, Holding
<1>2. PICK v : v = th[p].page
  OBVIOUS
<1>3. /\ UNCHANGED fd /\ UNCHANGED pool /\ UNCHANGED content /\ UNCHANGED frame_table
      /\ UNCHANGED swap_table /\ UNCHANGED swapped_data /\ UNCHANGED swap_lock
      /\ UNCHANGED filesys_lock /\ UNCHANGED machine /\ UNCHANGED mem /\ UNCHANGED foreign
      /\ pte' = install_fault_page(p, v, th[p].kpage) /\ spt' = Noted(p) /\ th' = Resume(p)
  BY <1>2 DEF Install, kernel, locks, history
<1>4. v \in DOMAIN spt[p] /\ v \in Pages /\ th[p].kpage \in Frames /\ Kind(v, spt[p][v])
  <2>1. v \in DOMAIN spt[p] /\ th[p].kpage \in Frames
    BY <1>1, <1>2 DEF Local, Fault, Faulting, Victims, Holding
  <2> QED
    BY <1>1, <2>1, EntryTypes DEF Local, Entries
<1>5. Resumes(th', p)
  BY <1>1, <1>3, ResumeThread
<1>6. Sets(pte', p, v, th[p].kpage)
  BY <1>1, <1>2, <1>3, Installed DEF install_fault_page
<1>7. /\ Changes(spt', p, v) /\ SameEntry(spt'[p][v], spt[p][v])
      /\ spt'[p][v].loaded = spt[p][v].mmapped
  BY <1>1, <1>2, <1>3, <1>4, NotedIs
<1>8. Entries(p)'
  <2>1. MapPages \subseteq Pages
    BY DEF Pages
  <2>2. \A u \in DOMAIN spt'[p] : Kind(u, spt'[p][u])
    BY <1>1, <1>4, <1>7, KindStays DEF Local, Entries, Changes
  <2>3. fd'[p] = "mapped" => MapPages \subseteq DOMAIN spt'[p]
    BY <1>1, <1>3, <1>7 DEF Local, Entries, Changes
  <2>4. \A u \in MapPages : pte'[p][u] # NULL => u \in DOMAIN spt'[p] /\ spt'[p][u].loaded
    BY <1>1, <1>4, <1>6, <1>7, <2>1 DEF Local, Entries, Changes, Sets, Kind
  <2> QED
    BY <2>2, <2>3, <2>4 DEF Entries
<1>9. Local(p)'
  BY <1>1, <1>2, <1>3, <1>5, <1>6, <1>8, ResumeLocal DEF Sets
<1>10. Types'
  BY <1>1, <1>3, <1>5, <1>6, <1>7 DEF Types, Resumes, Sets, Changes
<1>11. Table'
  BY <1>1, <1>3, <1>7, TableStays DEF Control, Changes
<1> QED
  BY <1>3, <1>5, <1>6, <1>7, <1>9, <1>10, <1>11, StepControl
     DEF Resumes, Sets, Changes

-----------------------------------------------------------------------------
(* Control, continued: eviction.                                           *)

\* swap_out takes the entry at the front.
LEMMA FrameTaken ==
  ASSUME Types, frame_table # << >>
  PROVE  /\ Tail(frame_table) \in Seq(FrameEntry)
         /\ 1 \in DOMAIN frame_table /\ Head(frame_table) = frame_table[1]
         /\ \A i \in DOMAIN Tail(frame_table) :
              /\ i \in Nat /\ i+1 \in DOMAIN frame_table /\ i+1 # 1
              /\ Tail(frame_table)[i] = frame_table[i+1]
<1>1. frame_table \in Seq(FrameEntry)
  BY DEF Types
<1> QED
  BY <1>1, SMT

\* A step of p that changes one entry of a page table, whoever has it.
LEMMA StepEntry ==
  ASSUME NEW p \in Procs, NEW o \in Procs, NEW w, Control, Types', Local(p)', Table',
         Changes(spt', o, w), w \in DOMAIN spt[o] => Kind(w, spt'[o][w]),
         w \in DOMAIN spt[o] => spt'[o][w].loaded = spt[o][w].loaded,
         \A q \in Procs : q # p =>
           /\ th'[q] = th[q] /\ fd'[q] = fd[q] /\ pte'[q] = pte[q]
           /\ swap_lock = q => swap_lock' = q
  PROVE  Control'
<1>1. ASSUME NEW q \in Procs, q # p PROVE Local(q)'
  <2>1. Local(q) /\ DOMAIN spt'[q] = DOMAIN spt[q]
    BY DEF Control, Changes
  <2>2. \A v \in DOMAIN spt[q] : Kind(v, spt'[q][v]) /\ spt'[q][v].loaded = spt[q][v].loaded
    BY <2>1 DEF Local, Entries, Changes
  <2>3. fd'[q] = fd[q] /\ pte'[q] = pte[q]
    BY <1>1
  <2>4. Entries(q)'
    BY <2>1, <2>2, <2>3 DEF Local, Entries
  <2> QED
    BY <1>1, <2>1, <2>4, LocalStays
<1> QED
  BY <1>1 DEF Control

\* swap_out as far as the victim.
SwapOutDone(p, e) ==
  /\ e \in FrameEntry /\ e.spte /\ frame_table # << >> /\ e = Head(frame_table)
  /\ e.owner \in Procs /\ e.page \in Pages /\ e.frame \in Frames
  /\ e.page \in DOMAIN spt[e.owner] /\ e.page \notin GrowPages
  /\ frame_table' = Tail(frame_table) /\ swap_lock = NULL /\ swap_lock' = p
  /\ Changes(spt', e.owner, e.page) /\ spt'[e.owner][e.page].swapped
  /\ spt'[e.owner][e.page] = [spt[e.owner][e.page] EXCEPT !.swapped = TRUE]
  /\ Sets(pte', p, e.page, NULL)
  /\ foreign' = (foreign \/ e.owner # p)
  /\ th' \in [Procs -> Thread] /\ \A q \in Procs : q # p => th'[q] = th[q]
  /\ th'[p].pc = "save" /\ th'[p].victim = e /\ SameFault(th'[p], th[p])
  /\ th'[p].iter = th[p].iter

\* It does this or halts.
LEMMA SwapOutIs ==
  ASSUME Control, NEW p \in Procs, swap_out(p), ~Halt("panic"), ~Halt("lost")
  PROVE  \E e \in FrameEntry : SwapOutDone(p, e)
<1>1. /\ th \in [Procs -> Thread] /\ th[p] \in Thread /\ Types
      /\ spt \in [Procs -> Tables] /\ pte \in [Procs -> [Pages -> Frames \cup {NULL}]]
  BY DEF Control, Types
<1>2. PICK e : e = Head(frame_table)
  OBVIOUS
<1>3. /\ frame_table # << >> /\ e.spte /\ frame_table' = Tail(frame_table)
      /\ swap_lock = NULL /\ swap_lock' = p
      /\ spt' = [spt EXCEPT ![e.owner][e.page] = [spt[e.owner][e.page] EXCEPT !.swapped = TRUE]]
      /\ pte' = Evicted(p, e) /\ foreign' = (foreign \/ e.owner # p)
      /\ th' = [th EXCEPT ![p] = [th[p] EXCEPT !.pc = "save", !.victim = e]]
  BY <1>2 DEF swap_out
<1>4. 1 \in DOMAIN frame_table /\ e = frame_table[1]
  BY <1>1, <1>2, <1>3, FrameTaken
<1>5. /\ e \in FrameEntry /\ e.owner \in Procs /\ e.page \in Pages /\ e.frame \in Frames
      /\ e.page \in DOMAIN spt[e.owner] /\ e.page \notin GrowPages
  BY <1>1, <1>3, <1>4, FrameTypes DEF Control, Table
<1>6. /\ Changes(spt', e.owner, e.page) /\ spt'[e.owner][e.page].swapped
      /\ spt'[e.owner][e.page] = [spt[e.owner][e.page] EXCEPT !.swapped = TRUE]
  <2>1. PICK s \in Entry : s = spt[e.owner][e.page]
    BY <1>1, <1>5, EntryTypes
  <2>2. PICK r : r = [s EXCEPT !.swapped = TRUE]
    OBVIOUS
  <2>3. r \in Entry /\ r.swapped
    BY <2>2 DEF Entry
  <2>4. spt' = [spt EXCEPT ![e.owner][e.page] = r]
    BY <1>3, <2>1, <2>2
  <2>5. Changes(spt', e.owner, e.page) /\ spt'[e.owner][e.page] = r
    BY <1>1, <1>5, <2>3, <2>4, EntryChangesTo
  <2> QED
    BY <2>1, <2>2, <2>3, <2>5
<1>7. Sets(pte', p, e.page, NULL)
  <2>1. NULL \in Frames \cup {NULL}
    OBVIOUS
  <2> QED
    BY <1>1, <1>3, <1>5, <2>1, PteChanges DEF Evicted, pagedir_clear_page
<1>8. /\ th' \in [Procs -> Thread] /\ \A q \in Procs : q # p => th'[q] = th[q]
      /\ th'[p].pc = "save" /\ th'[p].victim = e /\ SameFault(th'[p], th[p])
      /\ th'[p].iter = th[p].iter
  <2>1. PICK r : r = [th[p] EXCEPT !.pc = "save", !.victim = e]
    OBVIOUS
  <2>2. r \in Thread /\ r.pc = "save" /\ r.victim = e /\ r.iter = th[p].iter
    BY <1>1, <1>5, <2>1 DEF Thread
  <2>3. SameFault(r, th[p])
    BY <1>1, <1>5, <2>1 DEF Thread, SameFault
  <2>4. th' = [th EXCEPT ![p] = r]
    BY <1>3, <2>1
  <2>5. th' \in [Procs -> Thread] /\ th'[p] = r /\ \A q \in Procs : q # p => th'[q] = th[q]
    BY <1>1, <2>2, <2>4, ThreadReplaced
  <2> QED
    BY <2>2, <2>3, <2>5
<1> QED
  BY <1>2, <1>3, <1>5, <1>6, <1>7, <1>8 DEF SwapOutDone

\* swap_out marks the entry of the victim and clears its page.
LEMMA SwapOutControl ==
  ASSUME Control, NEW p \in Procs, swap_out(p)
  PROVE  Control'
<1>1. CASE Halt("panic") \/ Halt("lost")
  BY <1>1, HaltControl
<1>2. CASE ~(Halt("panic") \/ Halt("lost"))
  <2>1. /\ th[p].pc = "swap_out" /\ Local(p) /\ Types /\ spt \in [Procs -> Tables]
    BY DEF Control, Types, swap_out, At
  <2>2. /\ UNCHANGED fd /\ UNCHANGED pool /\ UNCHANGED content /\ UNCHANGED swap_table
        /\ UNCHANGED swapped_data /\ UNCHANGED filesys_lock /\ UNCHANGED machine
        /\ UNCHANGED mem
    BY <1>2 DEF swap_out
  <2>3. PICK e \in FrameEntry : SwapOutDone(p, e)
    BY <1>2, SwapOutIs
  <2>4. PICK o \in Procs : o = e.owner
    BY <2>3 DEF SwapOutDone
  <2>5. PICK w \in Pages : w = e.page
    BY <2>3 DEF SwapOutDone
  <2>6. w \in DOMAIN spt[o] /\ Changes(spt', o, w) /\ w \notin GrowPages
    BY <2>3, <2>4, <2>5 DEF SwapOutDone
  <2>7. Kind(w, spt'[o][w]) /\ spt'[o][w].loaded = spt[o][w].loaded
    <3>1. spt'[o][w] = [spt[o][w] EXCEPT !.swapped = TRUE]
      BY <2>3, <2>4, <2>5 DEF SwapOutDone
    <3>2. PICK s \in Entry : s = spt[o][w]
      BY <2>1, <2>6, EntryTypes
    <3>3. PICK r : r = spt'[o][w]
      OBVIOUS
    <3>4. r = [s EXCEPT !.swapped = TRUE]
      BY <3>1, <3>2, <3>3
    <3>5. /\ r.mmapped = s.mmapped /\ r.load_executable = s.load_executable
          /\ r.writable = s.writable /\ r.slot = s.slot /\ r.loaded = s.loaded
      BY <3>4 DEF Entry
    <3>6. Kind(w, s)
      BY <2>6, <3>2 DEF Control, Local, Entries
    <3>7. Kind(w, r)
      BY <2>6, <3>5, <3>6 DEF Kind
    <3> QED
      BY <3>2, <3>3, <3>5, <3>7
  <2>8. /\ th' \in [Procs -> Thread] /\ \A q \in Procs : q # p => th'[q] = th[q]
        /\ th'[p].pc = "save" /\ th'[p].victim \in FrameEntry /\ SameFault(th'[p], th[p])
        /\ th'[p].iter = th[p].iter /\ Sets(pte', p, w, NULL) /\ swap_lock' = p
        /\ swap_lock = NULL /\ frame_table # << >> /\ frame_table' = Tail(frame_table)
        /\ foreign' \in BOOLEAN
    BY <2>3, <2>5 DEF SwapOutDone
  <2>9. Entries(p)'
    <3>1. \A v \in DOMAIN spt[p] : Kind(v, spt'[p][v]) /\ spt'[p][v].loaded = spt[p][v].loaded
      BY <2>1, <2>6, <2>7 DEF Local, Entries, Changes
    <3>2. DOMAIN spt'[p] = DOMAIN spt[p] /\ MapPages \subseteq Pages
      BY <2>6 DEF Changes, Pages
    <3>3. \A v \in Pages : pte'[p][v] # NULL => pte[p][v] # NULL
      BY <2>8 DEF Sets
    <3> QED
      BY <2>1, <2>2, <3>1, <3>2, <3>3 DEF Local, Entries
  <2>10. Local(p)'
    <3>1. \A v \in Pages : pte[p][v] = NULL => pte'[p][v] = NULL
      BY <2>8 DEF Sets
    <3>2. DOMAIN spt'[p] = DOMAIN spt[p]
      BY <2>6 DEF Changes
    <3>3. Fault(p)'
      BY <2>1, <2>2, <2>8, <3>1, <3>2 DEF Local, Fault, Faulting, SameFault
    <3>4. Victims(p)' /\ Ends(p)'
      BY <2>8 DEF Victims, Holding, Ends
    <3>5. \A j \in 1..Len(Region) : Region[j] \in Pages
      BY Regions DEF Pages
    <3>6. Unmapping(p)'
      BY <2>1, <2>2, <2>8, <3>1, <3>5 DEF Local, Unmapping, Faulting, SameFault
    <3> QED
      BY <2>9, <3>3, <3>4, <3>6 DEF Local
  <2>11. /\ frame_table' \in Seq(FrameEntry)
         /\ \A i \in DOMAIN frame_table' :
              i+1 \in DOMAIN frame_table /\ frame_table'[i] = frame_table[i+1]
    BY <2>1, <2>8, FrameTaken
  <2>12. Types'
    <3>1. {swap_lock, filesys_lock}' \subseteq Procs \cup {NULL}
      BY <2>1, <2>2, <2>8 DEF Types
    <3> QED
      BY <2>1, <2>2, <2>6, <2>8, <2>11, <3>1 DEF Types, Changes, Sets
  <2>13. Table'
    <3>1. \A i \in DOMAIN frame_table : frame_table[i].owner \in Procs
      BY <2>1, FrameTypes
    <3> QED
      BY <2>6, <2>11, <3>1 DEF Control, Table, Changes
  <2>14. \A q \in Procs : q # p =>
           /\ th'[q] = th[q] /\ fd'[q] = fd[q] /\ pte'[q] = pte[q]
           /\ swap_lock = q => swap_lock' = q
    BY <2>2, <2>8, PageKinds DEF Sets
  <2> QED
    BY <2>6, <2>7, <2>10, <2>12, <2>13, <2>14, StepEntry
<1> QED
  BY <1>1, <1>2

\* The fields of a thread that evicted its victim.
LEMMA SavedFields ==
  ASSUME NEW t \in Thread, NEW g \in Goals
  PROVE  LET r == [t EXCEPT !.pc = "frame", !.victim = NULL, !.goal = g] IN
           /\ r \in Thread /\ r.pc = "frame" /\ r.victim = NULL /\ r.goal = g
           /\ r.page = t.page /\ r.iter = t.iter /\ r.leaving = t.leaving
  BY DEF Thread, Goals

\* The rest of swap_out: for an anonymous page, slot s is taken.
SlotTaken(o, w, f, s) ==
  /\ s \in Slots /\ s \notin swap_table /\ swap_table' = swap_table \cup {s}
  /\ swapped_data' = [swapped_data EXCEPT ![s] = content[f]]
  /\ Changes(spt', o, w) /\ spt'[o][w] = [spt[o][w] EXCEPT !.slot = s]

SaveDone(p, o, w, f) ==
  /\ th[p].pc = "save" /\ th[p].victim.owner = o /\ th[p].victim.page = w
  /\ th[p].victim.frame = f /\ w \in DOMAIN spt[o] /\ Free({f}) /\ swap_lock' = NULL
  /\ \/ Anonymous(spt[o][w]) /\ \E s \in Slots : SlotTaken(o, w, f, s)
     \/ /\ ~Anonymous(spt[o][w])
        /\ UNCHANGED spt /\ UNCHANGED swap_table /\ UNCHANGED swapped_data
  /\ th' \in [Procs -> Thread] /\ \A q \in Procs : q # p => th'[q] = th[q]
  /\ th'[p].pc = "frame" /\ th'[p].victim = NULL /\ th'[p].goal = Again(th[p].goal)
  /\ th'[p].page = th[p].page /\ th'[p].iter = th[p].iter

\* It does this or halts.
LEMMA SaveIs ==
  ASSUME Control, NEW p \in Procs, Save(p), ~Halt("panic"), ~Halt("lost")
  PROVE  \E o \in Procs, w \in Pages, f \in Frames : SaveDone(p, o, w, f)
<1>1. /\ th \in [Procs -> Thread] /\ th[p] \in Thread /\ Types /\ Local(p)
      /\ spt \in [Procs -> Tables] /\ th[p].pc = "save"
  BY DEF Control, Types, Save, At
<1>2. PICK e \in FrameEntry : e = th[p].victim
  BY <1>1 DEF Local, Victims
<1>3. e.owner \in Procs /\ e.page \in Pages /\ e.frame \in Frames
  BY <1>2, SMT DEF FrameEntry
<1>4. PICK o \in Procs : o = e.owner
  BY <1>3
<1>5. PICK w \in Pages : w = e.page
  BY <1>3
<1>6. PICK f \in Frames : f = e.frame
  BY <1>3
<1>7. /\ w \in DOMAIN spt[o] /\ Free({f}) /\ swap_lock' = NULL
      /\ th' = [th EXCEPT ![p] = [th[p] EXCEPT !.pc = "frame", !.victim = NULL,
                                               !.goal = Again(th[p].goal)]]
      /\ \/ Anonymous(spt[o][w]) /\ \E s \in Slots \ swap_table : Saved(e, s)
         \/ /\ ~Anonymous(spt[o][w])
            /\ UNCHANGED spt /\ UNCHANGED swap_table /\ UNCHANGED swapped_data
  BY <1>2, <1>4, <1>5, <1>6 DEF Save, Dangling
<1>8. ASSUME Anonymous(spt[o][w]) PROVE \E s \in Slots : SlotTaken(o, w, f, s)
  <2>1. PICK s \in Slots \ swap_table : Saved(e, s)
    BY <1>7, <1>8
  <2>2. PICK x \in Entry : x = spt[o][w]
    BY <1>1, <1>7, EntryTypes
  <2>3. PICK r : r = [x EXCEPT !.slot = s]
    OBVIOUS
  <2>4. s \in Slots \cup {NULL}
    BY <2>1
  <2>5. r \in Entry
    BY <2>3, <2>4 DEF Entry
  <2>6. spt' = [spt EXCEPT ![o][w] = r]
    BY <1>4, <1>5, <2>1, <2>2, <2>3 DEF Saved
  <2>7. Changes(spt', o, w) /\ spt'[o][w] = r
    BY <1>1, <1>7, <2>5, <2>6, EntryChangesTo
  <2>8. /\ swap_table' = swap_table \cup {s}
        /\ swapped_data' = [swapped_data EXCEPT ![s] = content[f]]
    BY <1>6, <2>1 DEF Saved
  <2> QED
    BY <2>1, <2>2, <2>3, <2>7, <2>8 DEF SlotTaken
<1>9. PICK g : g = Again(th[p].goal)
  OBVIOUS
<1>10. g \in Goals
  <2>1. th[p].goal \in Goals
    BY <1>1 DEF Thread, Goals
  <2>2. "lazy_again" \in Goals
    BY DEF Goals
  <2> QED
    BY <1>9, <2>1, <2>2 DEF Again
<1>11. PICK r : r = [th[p] EXCEPT !.pc = "frame", !.victim = NULL, !.goal = g]
  OBVIOUS
<1>12. /\ r \in Thread /\ r.pc = "frame" /\ r.victim = NULL /\ r.goal = g
       /\ r.page = th[p].page /\ r.iter = th[p].iter
  BY <1>1, <1>10, <1>11, SavedFields
<1>13. th' = [th EXCEPT ![p] = r]
  BY <1>7, <1>9, <1>11
<1>14. th' \in [Procs -> Thread] /\ th'[p] = r /\ \A q \in Procs : q # p => th'[q] = th[q]
  BY <1>1, <1>12, <1>13, ThreadReplaced
<1>15. /\ th[p].victim.owner = o /\ th[p].victim.page = w /\ th[p].victim.frame = f
  BY <1>2, <1>4, <1>5, <1>6
<1>16. SaveDone(p, o, w, f)
  BY <1>1, <1>7, <1>8, <1>9, <1>12, <1>14, <1>15 DEF SaveDone
<1> QED
  BY <1>16

\* An entry with another slot is of the same kind if its page may have a slot.
LEMMA SlotKind ==
  ASSUME NEW w, NEW x \in Entry, NEW s, Kind(w, x), Anonymous(x),
         NEW r, r = [x EXCEPT !.slot = s]
  PROVE  Kind(w, r) /\ r.loaded = x.loaded /\ r.swapped = x.swapped /\ r.slot = s
<1>1. /\ r.mmapped = x.mmapped /\ r.load_executable = x.load_executable /\ r.slot = s
      /\ r.writable = x.writable /\ r.loaded = x.loaded /\ r.swapped = x.swapped
  BY DEF Entry
<1>2. Kind(w, r)
  BY <1>1 DEF Kind, Anonymous
<1> QED
  BY <1>1, <1>2

\* Save notes the slot and frees the frame.
LEMMA SaveControl ==
  ASSUME Control, NEW p \in Procs, Save(p)
  PROVE  Control'
<1>1. CASE Halt("panic") \/ Halt("lost")
  BY <1>1, HaltControl
<1>2. CASE ~(Halt("panic") \/ Halt("lost"))
  <2>1. /\ th[p].pc = "save" /\ Local(p) /\ Types /\ spt \in [Procs -> Tables]
        /\ swap_lock = p
    BY DEF Control, Types, Save, At, Local, Victims
  <2>2. /\ UNCHANGED pte /\ UNCHANGED fd /\ UNCHANGED frame_table /\ UNCHANGED filesys_lock
        /\ UNCHANGED machine /\ UNCHANGED mem /\ UNCHANGED foreign
    BY <1>2 DEF Save, history
  <2>3. PICK o \in Procs, w \in Pages, f \in Frames : SaveDone(p, o, w, f)
    BY <1>2, SaveIs
  <2>4. /\ th' \in [Procs -> Thread] /\ \A q \in Procs : q # p => th'[q] = th[q]
        /\ th'[p].pc = "frame" /\ th'[p].victim = NULL /\ th'[p].goal = Again(th[p].goal)
        /\ th'[p].page = th[p].page /\ th'[p].iter = th[p].iter
        /\ Free({f}) /\ swap_lock' = NULL /\ w \in DOMAIN spt[o]
    BY <2>3 DEF SaveDone
  <2>5. Changes(spt', o, w) /\ Kind(w, spt'[o][w]) /\ spt'[o][w].loaded = spt[o][w].loaded
    <3>1. PICK x \in Entry : x = spt[o][w]
      BY <2>1, <2>4, EntryTypes
    <3>2. Kind(w, x)
      BY <2>4, <3>1 DEF Control, Local, Entries
    <3>3. CASE Anonymous(spt[o][w])
      <4>1. PICK s \in Slots : SlotTaken(o, w, f, s)
        BY <2>3, <3>3 DEF SaveDone
      <4>2. PICK y : y = spt'[o][w]
        OBVIOUS
      <4>3. Anonymous(x) /\ y = [x EXCEPT !.slot = s] /\ Changes(spt', o, w)
        BY <3>1, <3>3, <4>1, <4>2 DEF SlotTaken
      <4>4. Kind(w, y) /\ y.loaded = x.loaded
        BY <3>2, <4>3, SlotKind, SMT
      <4> QED
        BY <3>1, <4>2, <4>3, <4>4
    <3>4. CASE ~Anonymous(spt[o][w])
      <4>1. UNCHANGED spt
        BY <2>3, <3>4 DEF SaveDone
      <4> QED
        BY <2>1, <3>1, <3>2, <4>1 DEF Changes
    <3> QED
      BY <3>3, <3>4
  <2>6. DOMAIN spt'[p] = DOMAIN spt[p]
    BY <2>5 DEF Changes
  <2>7. Entries(p)'
    <3>1. \A v \in DOMAIN spt[p] : Kind(v, spt'[p][v]) /\ spt'[p][v].loaded = spt[p][v].loaded
      BY <2>1, <2>5 DEF Local, Entries, Changes
    <3> QED
      BY <2>1, <2>2, <2>6, <3>1 DEF Local, Entries
  <2>8. Local(p)'
    <3>1. \/ th[p].goal \in {"lazy", "lazy_again"} /\ th'[p].goal \in {"lazy", "lazy_again"}
          \/ th'[p].goal = th[p].goal /\ th[p].goal \notin {"lazy", "lazy_again"}
      BY <2>4 DEF Again
    <3>2. Fault(p)'
      BY <2>1, <2>2, <2>4, <2>6, <3>1 DEF Local, Fault, Faulting
    <3>3. Unmapping(p)'
      BY <2>1, <2>2, <2>4, <3>1 DEF Local, Unmapping, Faulting
    <3> QED
      BY <2>4, <2>7, <3>2, <3>3, WantLocal
  <2>9. pool' \subseteq Frames /\ content' \in [Frames -> Contents]
    BY <2>1, <2>4, FreeTypes
  <2>10. swap_table' \subseteq Slots /\ swapped_data' \in [Slots -> Contents]
    <3>1. CASE Anonymous(spt[o][w])
      <4>1. PICK s \in Slots : SlotTaken(o, w, f, s)
        BY <2>3, <3>1 DEF SaveDone
      <4>2. content[f] \in Contents
        BY <2>1 DEF Types
      <4> QED
        BY <2>1, <4>1, <4>2 DEF SlotTaken, Types
    <3>2. CASE ~Anonymous(spt[o][w])
      BY <2>1, <2>3, <3>2 DEF SaveDone, Types
    <3> QED
      BY <3>1, <3>2
  <2>11. Types'
    <3>1. {swap_lock, filesys_lock}' \subseteq Procs \cup {NULL}
      BY <2>1, <2>2, <2>4 DEF Types
    <3> QED
      BY <2>1, <2>2, <2>4, <2>5, <2>9, <2>10, <3>1 DEF Types, Changes
  <2>12. Table'
    BY <2>1, <2>2, <2>5, TableStays DEF Control, Changes
  <2>13. \A q \in Procs : q # p =>
           /\ th'[q] = th[q] /\ fd'[q] = fd[q] /\ pte'[q] = pte[q]
           /\ swap_lock = q => swap_lock' = q
    BY <2>1, <2>2, <2>4
  <2> QED
    BY <2>5, <2>8, <2>11, <2>12, <2>13, StepEntry
<1> QED
  BY <1>1, <1>2

-----------------------------------------------------------------------------
(* Control, continued: page faults and system calls.                       *)

\* Threads t are those of th but for p, which has started a fault for page v.
Starts(t, p, g, v) ==
  /\ t \in [Procs -> Thread] /\ \A q \in Procs : q # p => t[q] = th[q]
  /\ t[p].pc = "frame" /\ t[p].goal = g /\ t[p].page = v
  /\ t[p].victim = th[p].victim /\ t[p].iter = th[p].iter /\ t[p].leaving = th[p].leaving

\* Want starts a fault.
LEMMA WantThread ==
  ASSUME NEW p \in Procs, NEW g \in Goals, NEW v \in Pages, NEW w \in BOOLEAN,
         th \in [Procs -> Thread]
  PROVE  Starts(Want(p, g, v, w), p, g, v)
<1> DEFINE t == th[p]
           b == w /\ v \in MapPages
           r == [t EXCEPT !.pc = "frame", !.goal = g, !.page = v, !.write = b]
<1>1. t \in Thread
  BY SMT
<1>2. b \in BOOLEAN
  BY SMT
<1>3. Want(p, g, v, w) = [th EXCEPT ![p] = r]
  BY SMT DEF Want
<1> HIDE DEF t, b
<1>4. r \in Thread
  BY <1>1, <1>2 DEF Thread, Goals
<1>5. /\ r.pc = "frame" /\ r.goal = g /\ r.page = v /\ r.victim = t.victim
      /\ r.iter = t.iter /\ r.leaving = t.leaving
  BY <1>1 DEF Thread
<1> HIDE DEF r
<1> QED
  BY <1>3, <1>4, <1>5, SMT DEF t, Starts

\* The fields of a thread that exits.
LEMMA ExitFields ==
  ASSUME NEW t \in Thread
  PROVE  LET r == [t EXCEPT !.pc = "exit", !.leaving = TRUE] IN
           r \in Thread /\ r.pc = "exit" /\ r.victim = t.victim /\ r.iter = t.iter
  BY DEF Thread

\* load enters the pages of the executable.
LEMMA LoadControl ==
  ASSUME Control, NEW p \in Procs, load(p)
  PROVE  Control'
<1> DEFINE T == [v \in CodePages \cup DataPages |-> Executable(v \in DataPages)]
<1>1. /\ th \in [Procs -> Thread] /\ spt \in [Procs -> Tables] /\ th[p].pc = "new"
      /\ Local(p)
  BY DEF Control, Types, load, At
<1>2. /\ UNCHANGED pte /\ UNCHANGED fd
      /\ UNCHANGED pool /\ UNCHANGED content /\ UNCHANGED frame_table
      /\ UNCHANGED swap_table /\ UNCHANGED swapped_data /\ UNCHANGED swap_lock
      /\ UNCHANGED filesys_lock /\ UNCHANGED machine /\ UNCHANGED mem /\ UNCHANGED foreign
  BY DEF load, kernel, locks, history
<1>3. /\ th' \in [Procs -> Thread] /\ \A q \in Procs : q # p => th'[q] = th[q]
      /\ th'[p].pc = "frame" /\ th'[p].goal = "stack" /\ th'[p].page = StackPage
      /\ th'[p].victim = th[p].victim /\ th'[p].iter = th[p].iter
  <2>1. "stack" \in Goals /\ StackPage \in Pages /\ FALSE \in BOOLEAN
    BY DEF Goals, Pages
  <2>2. th' = Want(p, "stack", StackPage, FALSE)
    BY DEF load
  <2>3. Starts(th', p, "stack", StackPage)
    BY <1>1, <2>1, <2>2, WantThread
  <2> QED
    BY <2>3 DEF Starts
<1>4. DOMAIN T = CodePages \cup DataPages /\ \A v \in DOMAIN T : T[v] \in Entry /\ Kind(v, T[v])
  <2> SUFFICES ASSUME NEW v \in CodePages \cup DataPages
               PROVE  Executable(v \in DataPages) \in Entry /\ Kind(v, Executable(v \in DataPages))
    OBVIOUS
  <2>1. (v \in DataPages) \in BOOLEAN
    BY SMT
  <2>2. Executable(v \in DataPages) \in Entry
    BY <2>1, SMT DEF Executable, Entry
  <2>3. /\ Executable(v \in DataPages).mmapped = FALSE
        /\ Executable(v \in DataPages).load_executable = TRUE
        /\ Executable(v \in DataPages).writable = (v \in DataPages)
        /\ Executable(v \in DataPages).swapped = FALSE
        /\ Executable(v \in DataPages).slot = NULL
    BY DEF Executable
  <2>4. Kind(v, Executable(v \in DataPages))
    BY <2>3, PageKinds DEF Kind
  <2> QED
    BY <2>2, <2>4
<1>5. T \in Tables
  <2>1. T = [v \in DOMAIN T |-> T[v]]
    OBVIOUS
  <2>2. DOMAIN T \subseteq Pages
    BY <1>4 DEF Pages
  <2> HIDE DEF T
  <2> QED
    BY <1>4, <2>1, <2>2, TableOf
<1>6. /\ spt' \in [Procs -> Tables] /\ \A q \in Procs : q # p => spt'[q] = spt[q]
      /\ spt'[p] = T
  <2>1. spt' = [spt EXCEPT ![p] = T]
    BY DEF load
  <2> HIDE DEF T
  <2> QED
    BY <1>1, <1>5, <2>1, TableReplaced
<1> HIDE DEF T
<1>7. Types'
  BY <1>2, <1>3, <1>6 DEF Control, Types
<1>8. pte[p][StackPage] = NULL /\ StackPage \in Pages /\ fd[p] = "open"
  BY <1>1 DEF Local, Ends, Pages
<1>9. th[p].iter \in Nat /\ ~(th[p].iter > 0) /\ th[p].victim = NULL
  BY <1>1, Regions, SMT DEF Local, Unmapping, Faulting, Victims, Thread
<1>10. Local(p)'
  <2>1. Fault(p)'
    BY <1>2, <1>3, <1>8 DEF Fault, Faulting
  <2>2. Victims(p)'
    BY <1>3, <1>9 DEF Victims, Holding
  <2>3. Unmapping(p)'
    BY <1>3, <1>9 DEF Unmapping
  <2>4. Entries(p)'
    BY <1>1, <1>2, <1>4, <1>6, <1>8 DEF Entries, Local, Ends, Pages
  <2>5. Ends(p)'
    BY <1>3 DEF Ends
  <2> QED
    BY <2>1, <2>2, <2>3, <2>4, <2>5 DEF Local
<1>11. \A q \in Procs : q # p => Local(q)'
  BY <1>2, <1>3, <1>6, OthersStay DEF Control
<1>12. Table'
  <2>1. \A i \in DOMAIN frame_table : frame_table[i].owner \in Procs
    BY FrameTypes DEF Control
  <2>2. \A i \in DOMAIN frame_table : frame_table[i].spte => frame_table[i].owner # p
    BY <1>1 DEF Control, Table, Local, Ends
  <2> QED
    BY <1>2, <1>6, <2>1, <2>2 DEF Control, Table
<1> QED
  BY <1>7, <1>10, <1>11, <1>12 DEF Control

\* A process in user mode or about to exit is in the middle of nothing.
LEMMA IdleIs ==
  ASSUME NEW p \in Procs, Local(p), th[p].pc = "user" \/ th[p].pc = "exit"
  PROVE  th[p].victim = NULL /\ ~(th[p].iter > 0)
  BY DEF Local, Victims, Unmapping, Faulting

\* page_fault: either the process exits or the page is missing and may be had.
LEMMA PageFaultControl ==
  ASSUME Control, NEW p \in Procs, NEW v \in Pages, NEW w \in BOOLEAN, page_fault(p, v, w)
  PROVE  Control'
<1>1. /\ th \in [Procs -> Thread] /\ th[p] \in Thread /\ th[p].pc = "user" /\ Local(p)
      /\ pte[p][v] = NULL \/ (w /\ v \in CodePages)
  BY DEF Control, Types, page_fault, At
<1>2. /\ UNCHANGED pte /\ UNCHANGED fd /\ UNCHANGED spt
      /\ UNCHANGED pool /\ UNCHANGED content /\ UNCHANGED frame_table
      /\ UNCHANGED swap_table /\ UNCHANGED swapped_data /\ UNCHANGED swap_lock
      /\ UNCHANGED filesys_lock /\ UNCHANGED machine /\ UNCHANGED mem /\ UNCHANGED foreign
  BY DEF page_fault, kernel, locks, history
<1>3. th[p].victim = NULL /\ ~(th[p].iter > 0)
  BY <1>1, IdleIs
<1>4. Entries(p)'
  BY <1>1, <1>2 DEF Local, Entries
<1>5. PICK unset \in BOOLEAN :
       th' = IF Refused(p, v, w, unset)
             THEN [th EXCEPT ![p] = [@ EXCEPT !.pc = "exit", !.leaving = TRUE]]
             ELSE Want(p, IF page_lookup(p, v) THEN "page" ELSE "grow", v, w)
  BY DEF page_fault
<1>6. /\ th' \in [Procs -> Thread] /\ \A q \in Procs : q # p => th'[q] = th[q]
      /\ Local(p)'
  <2>1. CASE Refused(p, v, w, unset)
    <3>1. DEFINE r == [th[p] EXCEPT !.pc = "exit", !.leaving = TRUE]
    <3>2. th' = [th EXCEPT ![p] = r]
      BY <1>5, <2>1
    <3>3. r \in Thread /\ r.pc = "exit" /\ r.victim = th[p].victim /\ r.iter = th[p].iter
      BY <1>1, ExitFields
    <3> HIDE DEF r
    <3>4. th' \in [Procs -> Thread] /\ th'[p] = r /\ \A q \in Procs : q # p => th'[q] = th[q]
      BY <1>1, <3>2, <3>3, ThreadReplaced
    <3> QED
      BY <1>3, <1>4, <3>3, <3>4, IdleLocal
  <2>2. CASE ~Refused(p, v, w, unset)
    <3>1. PICK g : g = IF page_lookup(p, v) THEN "page" ELSE "grow"
      OBVIOUS
    <3>2. (g = "page" /\ v \in DOMAIN spt[p]) \/ (g = "grow" /\ v \in GrowPages)
      BY <2>2, <3>1 DEF Refused, page_lookup
    <3>3. g \in Goals
      BY <3>2 DEF Goals
    <3>4. Starts(th', p, g, v)
      BY <1>1, <1>5, <2>2, <3>1, <3>3, WantThread
    <3>5. pte[p][v] = NULL
      <4>1. SUFFICES ASSUME w, v \in CodePages PROVE FALSE
        BY <1>1
      <4>2. v \notin GrowPages
        BY <4>1, PageKinds
      <4>3. v \in DOMAIN spt[p] /\ spt[p][v].writable
        BY <2>2, <4>1, <4>2 DEF Refused, page_lookup
      <4> QED
        BY <1>1, <4>1, <4>3 DEF Local, Entries, Kind
    <3>6. Fault(p)'
      BY <1>2, <3>2, <3>4, <3>5 DEF Fault, Faulting, Starts
    <3>7. Unmapping(p)'
      BY <1>3, <3>4 DEF Unmapping, Starts
    <3> QED
      BY <1>3, <1>4, <3>4, <3>6, <3>7, WantLocal DEF Starts
  <2> QED
    BY <2>1, <2>2
<1>7. Types'
  BY <1>2, <1>6 DEF Control, Types
<1>8. Table'
  BY <1>2 DEF Control, Table
<1> QED
  BY <1>2, <1>6, <1>7, <1>8, StepControl

\* exit only moves on.
LEMMA ExitControl ==
  ASSUME Control, NEW p \in Procs, exit(p)
  PROVE  Control'
<1>1. /\ th \in [Procs -> Thread] /\ th[p] \in Thread /\ th[p].pc = "user" /\ Local(p)
  BY DEF Control, Types, exit, At
<1>2. /\ UNCHANGED pte /\ UNCHANGED fd /\ UNCHANGED spt
      /\ UNCHANGED pool /\ UNCHANGED content /\ UNCHANGED frame_table
      /\ UNCHANGED swap_table /\ UNCHANGED swapped_data /\ UNCHANGED swap_lock
      /\ UNCHANGED filesys_lock /\ UNCHANGED machine /\ UNCHANGED mem /\ UNCHANGED foreign
  BY DEF exit, kernel, locks, history
<1>3. th[p].victim = NULL /\ ~(th[p].iter > 0)
  BY <1>1, IdleIs
<1>4. Entries(p)'
  BY <1>1, <1>2 DEF Local, Entries
<1> DEFINE r == [th[p] EXCEPT !.pc = "exit", !.leaving = TRUE]
<1>5. th' = [th EXCEPT ![p] = r]
  BY DEF exit
<1>6. r \in Thread /\ r.pc = "exit" /\ r.victim = th[p].victim /\ r.iter = th[p].iter
  BY <1>1, ExitFields
<1> HIDE DEF r
<1>7. th' \in [Procs -> Thread] /\ th'[p] = r /\ \A q \in Procs : q # p => th'[q] = th[q]
  BY <1>1, <1>5, <1>6, ThreadReplaced
<1>8. Local(p)'
  BY <1>3, <1>4, <1>6, <1>7, IdleLocal
<1>9. Types'
  BY <1>2, <1>7 DEF Control, Types
<1>10. Table'
  BY <1>2 DEF Control, Table
<1> QED
  BY <1>2, <1>7, <1>8, <1>9, <1>10, StepControl

\* The processor writes a page.
LEMMA UserWriteControl ==
  ASSUME Control, NEW p \in Procs, NEW v \in Pages, UserWrite(p, v)
  PROVE  Control'
<1>1. /\ UNCHANGED th /\ UNCHANGED pte /\ UNCHANGED fd /\ UNCHANGED spt
      /\ UNCHANGED pool /\ UNCHANGED frame_table
      /\ UNCHANGED swap_table /\ UNCHANGED swapped_data /\ UNCHANGED swap_lock
      /\ UNCHANGED filesys_lock /\ UNCHANGED machine /\ UNCHANGED foreign
  BY DEF UserWrite, locks
<1>2. /\ pte[p][v] \in Frames /\ Written(p, v) \in Contents
      /\ content \in [Frames -> Contents] /\ mem \in [Procs -> [Pages -> Contents]]
  <2>1. pte[p][v] \in Frames
    BY SMT DEF UserWrite, Control, Types
  <2>2. Written(p, v) \in Contents
    BY SMT DEF Written, Contents
  <2> QED
    BY <2>1, <2>2 DEF Control, Types
<1>3. content' \in [Frames -> Contents]
  BY <1>2 DEF UserWrite
<1>4. mem' \in [Procs -> [Pages -> Contents]]
  BY <1>2, SMT DEF UserWrite
<1>5. Types'
  BY <1>1, <1>3, <1>4 DEF Control, Types
<1>6. \A q \in Procs : Local(q)'
  <2> SUFFICES ASSUME NEW q \in Procs PROVE Local(q)'
    OBVIOUS
  <2>1. Local(q)
    BY DEF Control
  <2>2. Entries(q)'
    BY <1>1, <2>1 DEF Local, Entries
  <2> QED
    BY <1>1, <2>1, <2>2, LocalStays
<1>7. Table'
  BY <1>1 DEF Control, Table
<1> QED
  BY <1>5, <1>6, <1>7 DEF Control

\* mmap adds the entries of the region.
LEMMA MmapControl ==
  ASSUME Control, NEW p \in Procs, mmap(p)
  PROVE  Control'
<1>1. /\ th[p].pc = "user" /\ Local(p) /\ spt \in [Procs -> Tables] /\ Types
      /\ \A v \in MapPages : v \notin DOMAIN spt[p]
      /\ fd \in [Procs -> {"open", "mapped", "closed"}]
  BY DEF Control, Types, mmap, At, page_lookup
<1>2. /\ UNCHANGED th /\ UNCHANGED pte
      /\ UNCHANGED pool /\ UNCHANGED content /\ UNCHANGED frame_table
      /\ UNCHANGED swap_table /\ UNCHANGED swapped_data /\ UNCHANGED swap_lock
      /\ UNCHANGED filesys_lock /\ UNCHANGED machine /\ UNCHANGED mem /\ UNCHANGED foreign
  BY DEF mmap, kernel, locks, history
<1>3. PICK dirty \in [MapPages -> BOOLEAN] :
        spt' = [spt EXCEPT ![p] = Inserted(spt[p], [v \in MapPages |-> Mapped(dirty[v])])]
  BY DEF mmap
<1> DEFINE N == [v \in MapPages |-> Mapped(dirty[v])]
<1>4. N = [v \in DOMAIN N |-> N[v]] /\ DOMAIN N = MapPages
  OBVIOUS
<1>5. \A v \in MapPages : N[v] \in Entry /\ Kind(v, N[v])
  <2> SUFFICES ASSUME NEW v \in MapPages, NEW b \in BOOLEAN
               PROVE  Mapped(b) \in Entry /\ Kind(v, Mapped(b))
    OBVIOUS
  <2>1. Mapped(b) \in Entry
    BY SMT DEF Mapped, Entry
  <2>2. Kind(v, Mapped(b))
    BY PageKinds DEF Kind, Mapped
  <2> QED
    BY <2>1, <2>2
<1>6. spt' = [spt EXCEPT ![p] = Inserted(spt[p], N)]
  BY <1>3
<1> HIDE DEF N
<1>7. N \in Tables
  <2>1. DOMAIN N \subseteq Pages /\ \A v \in DOMAIN N : N[v] \in Entry
    BY <1>4, <1>5 DEF Pages
  <2> QED
    BY <1>4, <2>1, TableOf
<1>8. /\ spt' \in [Procs -> Tables] /\ \A q \in Procs : q # p => spt'[q] = spt[q]
      /\ DOMAIN spt'[p] = MapPages \cup DOMAIN spt[p]
      /\ \A v \in MapPages : spt'[p][v] = N[v]
      /\ \A v \in DOMAIN spt[p] : spt'[p][v] = spt[p][v]
  <2>1. Joins(spt', p, N)
    BY <1>1, <1>6, <1>7, TableJoined
  <2> QED
    BY <1>1, <1>4, <2>1 DEF Joins
<1>9. /\ fd' \in [Procs -> {"open", "mapped", "closed"}]
      /\ \A q \in Procs : q # p => fd'[q] = fd[q]
  BY <1>1 DEF mmap
<1>10. Entries(p)'
  <2>1. \A u \in DOMAIN spt'[p] : Kind(u, spt'[p][u])
    BY <1>1, <1>5, <1>8 DEF Local, Entries
  <2>2. MapPages \subseteq DOMAIN spt'[p]
    BY <1>8
  <2>3. \A u \in MapPages : pte'[p][u] = NULL
    BY <1>1, <1>2 DEF Local, Entries
  <2> QED
    BY <2>1, <2>2, <2>3 DEF Entries
<1>11. Local(p)'
  <2>1. th[p].victim = NULL /\ ~(th[p].iter > 0)
    BY <1>1, IdleIs
  <2> QED
    BY <1>1, <1>2, <1>10, <2>1, IdleLocal
<1>12. Types'
  BY <1>1, <1>2, <1>8, <1>9 DEF Types
<1>13. Table'
  BY <1>1, <1>2, <1>8, TableStays DEF Control
<1> QED
  BY <1>2, <1>8, <1>9, <1>11, <1>12, <1>13, StepControl

\* munmap takes the file system lock.
LEMMA MunmapControl ==
  ASSUME Control, NEW p \in Procs, munmap(p)
  PROVE  Control'
<1>1. /\ th \in [Procs -> Thread] /\ th[p] \in Thread /\ Local(p) /\ fd[p] = "mapped"
      /\ th[p].pc = "user" \/ th[p].pc = "exit"
  BY DEF Control, Types, munmap, At
<1>2. /\ UNCHANGED pte /\ UNCHANGED fd /\ UNCHANGED spt
      /\ UNCHANGED pool /\ UNCHANGED content /\ UNCHANGED frame_table
      /\ UNCHANGED swap_table /\ UNCHANGED swapped_data /\ UNCHANGED swap_lock
      /\ UNCHANGED machine /\ UNCHANGED mem /\ UNCHANGED foreign /\ filesys_lock' = p
  BY DEF munmap, kernel, history
<1>3. th[p].victim = NULL
  BY <1>1, IdleIs
<1>4. Entries(p)'
  BY <1>1, <1>2 DEF Local, Entries
<1> DEFINE r == [th[p] EXCEPT !.pc = "munmap", !.iter = 1]
<1>5. th' = [th EXCEPT ![p] = r]
  BY DEF munmap
<1>6. 1 \in 0..Len(Region)+1 /\ "munmap" \in Points
  BY Regions, SMT DEF Points
<1>7. r \in Thread /\ r.pc = "munmap" /\ r.victim = th[p].victim /\ r.iter = 1
  BY <1>1, <1>6 DEF Thread
<1> HIDE DEF r
<1>8. th' \in [Procs -> Thread] /\ th'[p] = r /\ \A q \in Procs : q # p => th'[q] = th[q]
  BY <1>1, <1>5, <1>7, ThreadReplaced
<1>9. Fault(p)' /\ Victims(p)' /\ Ends(p)'
  BY <1>3, <1>7, <1>8 DEF Fault, Faulting, Victims, Holding, Ends
<1>10. Unmapping(p)'
  <2>1. 1 > 0 /\ \A j \in 1..Len(Region) : ~(j < 1)
    BY Regions, SMT
  <2> QED
    BY <1>1, <1>2, <1>7, <1>8, <2>1 DEF Unmapping, Faulting
<1>11. Local(p)'
  BY <1>4, <1>9, <1>10 DEF Local
<1>12. Types'
  BY <1>2, <1>8 DEF Control, Types
<1>13. Table'
  BY <1>2 DEF Control, Table
<1> QED
  BY <1>2, <1>8, <1>11, <1>12, <1>13, StepControl

\* close loads the first page of the mapping, or closes the file.
LEMMA CloseControl ==
  ASSUME Control, NEW p \in Procs, close(p)
  PROVE  Control'
<1>1. /\ th \in [Procs -> Thread] /\ th[p].pc = "user" /\ Local(p)
      /\ fd \in [Procs -> {"open", "mapped", "closed"}]
  BY DEF Control, Types, close, At
<1>2. /\ UNCHANGED pte /\ UNCHANGED spt
      /\ UNCHANGED pool /\ UNCHANGED content /\ UNCHANGED frame_table
      /\ UNCHANGED swap_table /\ UNCHANGED swapped_data /\ UNCHANGED swap_lock
      /\ UNCHANGED machine /\ UNCHANGED mem /\ UNCHANGED foreign
  BY DEF close, kernel, history
<1>3. th[p].victim = NULL /\ ~(th[p].iter > 0)
  BY <1>1, IdleIs
<1>4. /\ th' \in [Procs -> Thread] /\ \A q \in Procs : q # p => th'[q] = th[q]
      /\ fd' \in [Procs -> {"open", "mapped", "closed"}]
      /\ \A q \in Procs : q # p => fd'[q] = fd[q]
      /\ Local(p)' /\ filesys_lock' \in Procs \cup {NULL}
  <2>1. CASE fd[p] = "mapped" /\ ~spt[p][Region[1]].loaded
    <3>1. /\ th' = Want(p, "lazy", Region[1], FALSE) /\ fd' = fd /\ filesys_lock' = p
      BY <2>1 DEF close
    <3>2. "lazy" \in Goals /\ FALSE \in BOOLEAN /\ Region[1] \in Pages /\ Region[1] \in MapPages
      BY Regions DEF Goals, Pages
    <3>3. Starts(th', p, "lazy", Region[1])
      BY <1>1, <3>1, <3>2, WantThread
    <3>4. pte[p][Region[1]] = NULL
      BY <1>1, <2>1, <3>2 DEF Local, Entries
    <3>5. Fault(p)'
      BY <1>2, <2>1, <3>1, <3>2, <3>3, <3>4 DEF Fault, Faulting, Starts
    <3>6. Unmapping(p)'
      BY <1>3, <3>3 DEF Unmapping, Starts
    <3>7. Entries(p)'
      BY <1>1, <1>2, <3>1 DEF Local, Entries
    <3>8. Local(p)'
      BY <1>3, <3>3, <3>5, <3>6, <3>7, WantLocal DEF Starts
    <3> QED
      BY <1>1, <3>1, <3>3, <3>8 DEF Starts
  <2>2. CASE ~(fd[p] = "mapped" /\ ~spt[p][Region[1]].loaded)
    <3>1. /\ th' = th /\ fd' = [fd EXCEPT ![p] = "closed"] /\ filesys_lock' = filesys_lock
      BY <2>2 DEF close
    <3>2. /\ fd' \in [Procs -> {"open", "mapped", "closed"}] /\ fd'[p] = "closed"
          /\ \A q \in Procs : q # p => fd'[q] = fd[q]
      BY <1>1, <3>1
    <3>3. Entries(p)'
      BY <1>1, <1>2, <3>2 DEF Local, Entries
    <3>4. Local(p)'
      BY <1>1, <1>3, <3>1, <3>3, IdleLocal
    <3> QED
      BY <1>1, <3>1, <3>2, <3>4 DEF Control, Types
  <2> QED
    BY <2>1, <2>2
<1>5. Types'
  BY <1>2, <1>4 DEF Control, Types
<1>6. Table'
  BY <1>2 DEF Control, Table
<1> QED
  BY <1>2, <1>4, <1>5, <1>6, StepControl

\* The next turn of the loop of munmap.
LEMMA TurnFields ==
  ASSUME NEW t \in Thread, t.iter + 1 \in 0..Len(Region)+1
  PROVE  LET r == [t EXCEPT !.iter = t.iter + 1] IN
           /\ r \in Thread /\ r.pc = t.pc /\ r.victim = t.victim /\ r.iter = t.iter + 1
           /\ r.leaving = t.leaving
  BY DEF Thread

\* A turn of the loop of munmap faults on the page or takes it away.
LEMMA MunmapPageControl ==
  ASSUME Control, NEW p \in Procs, MunmapPage(p)
  PROVE  Control'
<1>1. /\ th \in [Procs -> Thread] /\ th[p] \in Thread /\ th[p].pc = "munmap" /\ Local(p)
      /\ spt \in [Procs -> Tables] /\ Types /\ th[p].iter <= Len(Region)
      /\ pte \in [Procs -> [Pages -> Frames \cup {NULL}]]
  BY DEF Control, Types, MunmapPage, At
<1>2. /\ UNCHANGED fd
      /\ UNCHANGED pool /\ UNCHANGED content /\ UNCHANGED frame_table
      /\ UNCHANGED swap_table /\ UNCHANGED swapped_data /\ UNCHANGED swap_lock
      /\ UNCHANGED filesys_lock /\ UNCHANGED machine /\ UNCHANGED mem /\ UNCHANGED foreign
  BY DEF MunmapPage, kernel, locks, history
<1>3. PICK i : i = th[p].iter
  OBVIOUS
<1>4. /\ i \in 1..Len(Region) /\ th[p].victim = NULL /\ fd[p] = "mapped" /\ th[p].iter > 0
      /\ \A j \in 1..Len(Region) : j < i => pte[p][Region[j]] = NULL
  <2>1. i > 0 /\ i \in Nat /\ i <= Len(Region)
    BY <1>1, <1>3, Regions, SMT DEF Local, Unmapping, Thread
  <2>2. i \in 1..Len(Region)
    BY <2>1, Regions, SMT
  <2> QED
    BY <1>1, <1>3, <2>1, <2>2 DEF Local, Unmapping, Victims
<1>5. PICK v : v = Region[i]
  OBVIOUS
<1>6. /\ v \in MapPages /\ v \in Pages /\ v \in DOMAIN spt[p]
      /\ Region[1] \in MapPages /\ Region[1] \in DOMAIN spt[p]
  BY <1>1, <1>4, <1>5, Regions DEF Local, Entries, Pages
<1>7. CASE th' = Want(p, "page", v, FALSE) /\ UNCHANGED <<pte, spt>> /\ pte[p][v] = NULL
  <2>1. "page" \in Goals /\ FALSE \in BOOLEAN
    BY DEF Goals
  <2>2. Starts(th', p, "page", v)
    BY <1>1, <1>6, <1>7, <2>1, WantThread
  <2>3. UNCHANGED pte /\ UNCHANGED spt
    BY <1>7
  <2>4. Fault(p)'
    BY <1>6, <1>7, <2>2, <2>3 DEF Fault, Faulting, Starts
  <2>5. Unmapping(p)'
    BY <1>2, <1>3, <1>4, <1>5, <2>2, <2>3 DEF Unmapping, Faulting, Starts
  <2>6. Entries(p)'
    BY <1>1, <1>2, <2>3 DEF Local, Entries
  <2>7. Local(p)'
    BY <1>4, <2>2, <2>4, <2>5, <2>6, WantLocal DEF Starts
  <2>8. Types'
    BY <1>1, <1>2, <2>2, <2>3 DEF Types, Starts
  <2>9. Table'
    BY <1>2, <2>3 DEF Control, Table
  <2> QED
    BY <1>2, <2>2, <2>3, <2>7, <2>8, <2>9, StepControl DEF Starts
<1>8. CASE /\ spt' = [spt EXCEPT ![p][Region[1]] = [@ EXCEPT !.mid = FALSE]]
           /\ pte' = pagedir_clear_page(p, v)
           /\ th' = [th EXCEPT ![p] = [@ EXCEPT !.iter = th[p].iter + 1]]
  <2>1. Sets(pte', p, v, NULL)
    <3>1. NULL \in Frames \cup {NULL}
      OBVIOUS
    <3> QED
      BY <1>1, <1>6, <1>8, <3>1, PteChanges DEF pagedir_clear_page
  <2>2. /\ Changes(spt', p, Region[1]) /\ SameEntry(spt'[p][Region[1]], spt[p][Region[1]])
        /\ spt'[p][Region[1]].loaded = spt[p][Region[1]].loaded
    <3>1. PICK e \in Entry : e = spt[p][Region[1]]
      BY <1>1, <1>6, EntryTypes
    <3>2. PICK r : r = [e EXCEPT !.mid = FALSE]
      OBVIOUS
    <3>3. r \in Entry /\ SameEntry(r, e) /\ r.loaded = e.loaded
      BY <3>2 DEF Entry, SameEntry
    <3>4. spt' = [spt EXCEPT ![p][Region[1]] = r]
      BY <1>8, <3>1, <3>2
    <3>5. Changes(spt', p, Region[1]) /\ spt'[p][Region[1]] = r
      BY <1>1, <1>6, <3>3, <3>4, EntryChangesTo
    <3> QED
      BY <3>1, <3>3, <3>5
  <2>3. /\ th' \in [Procs -> Thread] /\ \A q \in Procs : q # p => th'[q] = th[q]
        /\ th'[p].pc = "munmap" /\ th'[p].victim = NULL /\ th'[p].iter = i + 1
    <3> DEFINE r == [th[p] EXCEPT !.iter = th[p].iter + 1]
    <3>1. th[p].iter + 1 \in 0..Len(Region)+1
      BY <1>3, <1>4, Regions, SMT
    <3>2. r \in Thread /\ r.pc = th[p].pc /\ r.victim = th[p].victim /\ r.iter = th[p].iter + 1
      BY <1>1, <3>1, TurnFields
    <3>3. th' = [th EXCEPT ![p] = r]
      BY <1>8
    <3> HIDE DEF r
    <3>4. th' \in [Procs -> Thread] /\ th'[p] = r /\ \A q \in Procs : q # p => th'[q] = th[q]
      BY <1>1, <3>2, <3>3, ThreadReplaced
    <3> QED
      BY <1>1, <1>3, <1>4, <3>2, <3>4
  <2>4. Entries(p)'
    <3>1. MapPages \subseteq Pages
      BY DEF Pages
    <3>2. \A u \in DOMAIN spt'[p] : Kind(u, spt'[p][u])
      BY <1>1, <1>6, <2>2, KindStays DEF Local, Entries, Changes
    <3>3. fd'[p] = "mapped" => MapPages \subseteq DOMAIN spt'[p]
      BY <1>1, <1>2, <2>2 DEF Local, Entries, Changes
    <3>4. \A u \in MapPages : pte'[p][u] # NULL => u \in DOMAIN spt'[p] /\ spt'[p][u].loaded
      BY <1>1, <1>6, <2>1, <2>2, <3>1 DEF Local, Entries, Changes, Sets
    <3> QED
      BY <3>2, <3>3, <3>4 DEF Entries
  <2>5. Unmapping(p)'
    <3>1. i + 1 > 0 /\ \A j \in 1..Len(Region) : j < i + 1 => j < i \/ j = i
      BY <1>4, Regions, SMT
    <3>2. \A j \in 1..Len(Region) : j < i + 1 => pte'[p][Region[j]] = NULL
      <4> SUFFICES ASSUME NEW j \in 1..Len(Region), j < i + 1
                   PROVE  pte'[p][Region[j]] = NULL
        OBVIOUS
      <4>1. Region[j] \in Pages
        BY Regions DEF Pages
      <4>2. Region[j] = v \/ pte[p][Region[j]] = NULL
        BY <1>4, <1>5, <3>1
      <4> QED
        BY <2>1, <4>1, <4>2 DEF Sets
    <3> QED
      BY <1>2, <1>4, <2>3, <3>1, <3>2 DEF Unmapping, Faulting
  <2>6. Fault(p)' /\ Victims(p)' /\ Ends(p)'
    BY <2>3 DEF Fault, Faulting, Victims, Holding, Ends
  <2>7. Local(p)'
    BY <2>4, <2>5, <2>6 DEF Local
  <2>8. Types'
    BY <1>1, <1>2, <2>1, <2>2, <2>3 DEF Types, Sets, Changes
  <2>9. Table'
    BY <1>1, <1>2, <2>2, TableStays DEF Control, Changes
  <2> QED
    BY <1>2, <2>1, <2>2, <2>3, <2>7, <2>8, <2>9, StepControl DEF Sets, Changes
<1> QED
  BY <1>3, <1>5, <1>7, <1>8 DEF MunmapPage

-----------------------------------------------------------------------------
(* Control, continued: frames are freed.                                   *)

\* Table t has some of the entries of the frame table, each at most once.
Thins(t, I) ==
  /\ t \in Seq(FrameEntry)
  /\ \E g \in [DOMAIN t -> I] :
       /\ \A k \in DOMAIN t : t[k] = frame_table[g[k]]
       /\ \A j, k \in DOMAIN t : g[j] = g[k] => j = k

\* process_exit frees the frames of all present pages.
LEMMA ProcessExitControl ==
  ASSUME Control, NEW p \in Procs, process_exit(p)
  PROVE  Control'
<1>1. CASE Halt("panic")
  BY <1>1, HaltControl
<1>2. CASE ~Halt("panic")
  <2> DEFINE frames == {pte[p][v] : v \in Present(p)}
  <2>1. /\ th \in [Procs -> Thread] /\ th[p].pc = "exit" /\ Local(p) /\ Types
        /\ pte \in [Procs -> [Pages -> Frames \cup {NULL}]] /\ fd[p] # "mapped"
    BY DEF Control, Types, process_exit, At
  <2>2. /\ UNCHANGED spt /\ UNCHANGED fd /\ UNCHANGED frame_table
        /\ UNCHANGED swap_table /\ UNCHANGED swapped_data /\ UNCHANGED swap_lock
        /\ UNCHANGED filesys_lock /\ UNCHANGED machine /\ UNCHANGED mem /\ UNCHANGED foreign
        /\ Free(frames) /\ pte' = [pte EXCEPT ![p] = [v \in Pages |-> NULL]]
        /\ th' = Goto(p, "dying")
    BY <1>2 DEF process_exit, locks, history
  <2>3. frames \in SUBSET Frames
    BY <2>1, SMT DEF Present, pagedir_get_page
  <2> HIDE DEF frames
  <2>4. pool' \subseteq Frames /\ content' \in [Frames -> Contents]
    BY <2>1, <2>2, <2>3, FreeTypes
  <2>5. /\ pte' \in [Procs -> [Pages -> Frames \cup {NULL}]]
        /\ \A q \in Procs : q # p => pte'[q] = pte[q]
        /\ \A v \in Pages : pte'[p][v] = NULL
    BY <2>1, <2>2
  <2>6. Moves(th', p, "dying")
    <3>1. "dying" \in Points
      BY DEF Points
    <3> QED
      BY <2>1, <2>2, <3>1, GotoThread
  <2>7. th[p].victim = NULL /\ ~(th[p].iter > 0)
    BY <2>1, IdleIs
  <2>8. Entries(p)'
    BY <2>1, <2>2, <2>5 DEF Local, Entries, Pages
  <2>9. Fault(p)' /\ Victims(p)' /\ Unmapping(p)' /\ Ends(p)'
    BY <2>1, <2>2, <2>5, <2>6, <2>7
       DEF Fault, Faulting, Victims, Holding, Unmapping, Ends, Moves
  <2>10. Local(p)'
    BY <2>8, <2>9 DEF Local
  <2>11. Types'
    BY <2>1, <2>2, <2>4, <2>5, <2>6 DEF Types, Moves
  <2>12. Table'
    BY <2>2 DEF Control, Table
  <2> QED
    BY <2>2, <2>5, <2>6, <2>10, <2>11, <2>12, StepControl DEF Moves
<1> QED
  BY <1>1, <1>2

\* thread_exit takes the frame table entries and the page table away.
LEMMA ThreadExitControl ==
  ASSUME Control, NEW p \in Procs, thread_exit(p),
         Thins(frame_table', {i \in DOMAIN frame_table : frame_table[i].owner # p})
  PROVE  Control'
<1> DEFINE I == {i \in DOMAIN frame_table : frame_table[i].owner # p}
<1>1. /\ th \in [Procs -> Thread] /\ th[p].pc = "dying" /\ Local(p) /\ Types
      /\ spt \in [Procs -> Tables]
  BY DEF Control, Types, thread_exit, At
<1>2. /\ UNCHANGED pte /\ UNCHANGED fd /\ UNCHANGED pool /\ UNCHANGED content
      /\ UNCHANGED swap_table /\ UNCHANGED swapped_data /\ UNCHANGED swap_lock
      /\ UNCHANGED filesys_lock /\ UNCHANGED machine /\ UNCHANGED mem /\ UNCHANGED foreign
      /\ spt' = [spt EXCEPT ![p] = << >>] /\ th' = Goto(p, "dead")
  BY DEF thread_exit, locks, history
<1>3. I \in SUBSET DOMAIN frame_table
  OBVIOUS
<1>4. \A i \in I : frame_table[i].owner # p
  OBVIOUS
<1>5. Thins(frame_table', I)
  OBVIOUS
<1> HIDE DEF I
<1>6. Moves(th', p, "dead")
  <2>1. "dead" \in Points
    BY DEF Points
  <2> QED
    BY <1>1, <1>2, <2>1, GotoThread
<1>7. /\ spt' \in [Procs -> Tables] /\ \A q \in Procs : q # p => spt'[q] = spt[q]
      /\ DOMAIN spt'[p] = {}
  <2>1. PICK T : T = << >>
    OBVIOUS
  <2>2. DOMAIN T = {} /\ T = [v \in {} |-> T[v]]
    BY <2>1, SMT
  <2>3. T \in Tables
    BY <2>2, TableOf
  <2> QED
    BY <1>1, <1>2, <2>1, <2>2, <2>3, TableReplaced
<1>8. \A v \in Pages : pte[p][v] = NULL
  BY <1>1 DEF Local, Ends
<1>9. Entries(p)'
  BY <1>1, <1>2, <1>7, <1>8 DEF Local, Ends, Entries, Pages
<1>10. Fault(p)' /\ Victims(p)' /\ Unmapping(p)' /\ Ends(p)'
  <2>1. th[p].victim = NULL /\ ~(th[p].iter > 0) /\ fd[p] # "mapped"
    BY <1>1 DEF Local, Victims, Unmapping, Faulting, Ends
  <2> QED
    BY <1>2, <1>6, <1>8, <2>1
       DEF Fault, Faulting, Victims, Holding, Unmapping, Ends, Moves
<1>11. Local(p)'
  BY <1>9, <1>10 DEF Local
<1>12. Types'
  BY <1>1, <1>2, <1>5, <1>6, <1>7 DEF Types, Moves, Thins
<1>13. Table'
  <2>1. PICK g \in [DOMAIN frame_table' -> I] :
          \A k \in DOMAIN frame_table' : frame_table'[k] = frame_table[g[k]]
    BY <1>5 DEF Thins
  <2>2. \A k \in DOMAIN frame_table' : g[k] \in I /\ g[k] \in DOMAIN frame_table
    BY <1>3, <2>1
  <2>3. \A i \in DOMAIN frame_table : frame_table[i].owner \in Procs
    BY <1>1, FrameTypes
  <2>4. \A i \in I : frame_table[i].spte =>
          /\ frame_table[i].page \in DOMAIN spt'[frame_table[i].owner]
          /\ frame_table[i].page \notin GrowPages
    BY <1>3, <1>4, <1>7, <2>3 DEF Control, Table
  <2> QED
    BY <2>1, <2>2, <2>4 DEF Table
<1> QED
  BY <1>2, <1>6, <1>7, <1>11, <1>12, <1>13, StepControl DEF Moves

\* Entry o is e, but useless if it is for the first mapped page of p.
Stays(o, p, e) ==
  /\ o \in FrameEntry /\ o.frame = e.frame /\ o.owner = e.owner /\ o.page = e.page
  /\ o.spte => e.spte /\ ~(e.owner = p /\ e.page = Region[1])

\* The entries of the frame table after munmap.
LEMMA OrphanIs ==
  ASSUME NEW p \in Procs, NEW e \in FrameEntry
  PROVE  Stays(Orphan(p, e), p, e)
<1>1. CASE e.owner = p /\ e.page = Region[1]
  <2>1. PICK r : r = [e EXCEPT !.spte = FALSE]
    OBVIOUS
  <2>2. r \in FrameEntry /\ r.frame = e.frame /\ r.owner = e.owner /\ r.page = e.page /\ ~r.spte
    BY <2>1 DEF FrameEntry
  <2>3. Orphan(p, e) = r
    BY <1>1, <2>1 DEF Orphan
  <2> QED
    BY <2>2, <2>3 DEF Stays
<1>2. CASE ~(e.owner = p /\ e.page = Region[1])
  BY <1>2 DEF Orphan, Stays
<1> QED
  BY <1>1, <1>2

\* The end of munmap, when it comes to an end.
MunmapDone(p, I) ==
  /\ I = {i \in DOMAIN frame_table : ~Unmapped(p, frame_table[i])}
  /\ Free({frame_table[i].frame : i \in DOMAIN frame_table \ I})
  /\ frame_table' \in Seq(FrameEntry)
  /\ \E g \in [DOMAIN frame_table' -> I] :
       /\ \A k \in DOMAIN frame_table' : frame_table'[k] = Orphan(p, frame_table[g[k]])
       /\ \A j, k \in DOMAIN frame_table' : g[j] = g[k] => j = k

\* The end of munmap frees the frames of all pages but the first.
LEMMA MunmapEndControl ==
  ASSUME Control, NEW p \in Procs, MunmapEnd(p),
         machine' = "running" => \E I \in SUBSET DOMAIN frame_table : MunmapDone(p, I)
  PROVE  Control'
<1>1. CASE Halt("lost") \/ Halt("panic")
  BY <1>1, HaltControl
<1>2. CASE ~(Halt("lost") \/ Halt("panic"))
  <2>1. /\ th \in [Procs -> Thread] /\ th[p] \in Thread /\ th[p].pc = "munmap" /\ Local(p)
        /\ Types /\ spt \in [Procs -> Tables] /\ th[p].iter > Len(Region)
        /\ fd \in [Procs -> {"open", "mapped", "closed"}] /\ machine = "running"
    BY DEF Control, Types, MunmapEnd, At
  <2>2. /\ UNCHANGED pte /\ UNCHANGED swap_table /\ UNCHANGED swapped_data
        /\ UNCHANGED swap_lock /\ UNCHANGED machine /\ UNCHANGED mem /\ UNCHANGED foreign
        /\ filesys_lock' = NULL /\ fd' = [fd EXCEPT ![p] = "open"]
        /\ spt' = [spt EXCEPT ![p] = [v \in DOMAIN spt[p] \ {Region[1]} |-> spt[p][v]]]
        /\ th' = [th EXCEPT ![p] = [th[p] EXCEPT !.pc = IF th[p].leaving THEN "exit" ELSE "user",
                                                 !.iter = 0]]
    BY <1>2 DEF MunmapEnd, history
  <2>3. PICK I \in SUBSET DOMAIN frame_table : MunmapDone(p, I)
    BY <2>1, <2>2
  <2>4. pool' \subseteq Frames /\ content' \in [Frames -> Contents]
    <3>1. {frame_table[i].frame : i \in DOMAIN frame_table \ I} \in SUBSET Frames
      BY <2>1, FrameTypes
    <3> QED
      BY <2>1, <2>3, <3>1, FreeTypes DEF MunmapDone
  <2>5. /\ th' \in [Procs -> Thread] /\ \A q \in Procs : q # p => th'[q] = th[q]
        /\ th'[p].pc = "user" \/ th'[p].pc = "exit"
        /\ th'[p].victim = th[p].victim /\ th'[p].iter = 0
    <3>1. PICK x : x = IF th[p].leaving THEN "exit" ELSE "user"
      OBVIOUS
    <3>2. x = "exit" \/ x = "user"
      BY <3>1
    <3>3. PICK r : r = [th[p] EXCEPT !.pc = x, !.iter = 0]
      OBVIOUS
    <3>4. 0 \in 0..Len(Region)+1
      BY Regions, SMT
    <3>5. r \in Thread /\ r.pc = x /\ r.victim = th[p].victim /\ r.iter = 0
      BY <2>1, <3>2, <3>3, <3>4 DEF Thread
    <3>6. th' = [th EXCEPT ![p] = r]
      BY <2>2, <3>1, <3>3
    <3>7. th' \in [Procs -> Thread] /\ th'[p] = r /\ \A q \in Procs : q # p => th'[q] = th[q]
      BY <2>1, <3>5, <3>6, ThreadReplaced
    <3> QED
      BY <3>2, <3>5, <3>7
  <2>6. /\ spt' \in [Procs -> Tables] /\ \A q \in Procs : q # p => spt'[q] = spt[q]
        /\ DOMAIN spt'[p] = DOMAIN spt[p] \ {Region[1]}
        /\ \A v \in DOMAIN spt'[p] : spt'[p][v] = spt[p][v]
    <3>1. PICK T : T = [v \in DOMAIN spt[p] \ {Region[1]} |-> spt[p][v]]
      OBVIOUS
    <3>2. /\ DOMAIN T = DOMAIN spt[p] \ {Region[1]} /\ T = [v \in DOMAIN T |-> T[v]]
          /\ \A v \in DOMAIN T : T[v] = spt[p][v]
      BY <3>1
    <3>3. T \in Tables
      <4>1. DOMAIN T \subseteq Pages /\ \A v \in DOMAIN T : T[v] \in Entry
        BY <2>1, <3>2, EntryTypes
      <4> QED
        BY <3>2, <4>1, TableOf
    <3> QED
      BY <2>1, <2>2, <3>1, <3>2, <3>3, TableReplaced
  <2>7. /\ fd' \in [Procs -> {"open", "mapped", "closed"}] /\ fd'[p] = "open"
        /\ \A q \in Procs : q # p => fd'[q] = fd[q]
    BY <2>1, <2>2
  <2>8. \A v \in MapPages : pte[p][v] = NULL
    <3> SUFFICES ASSUME NEW v \in MapPages PROVE pte[p][v] = NULL
      OBVIOUS
    <3>1. PICK j \in 1..Len(Region) : Region[j] = v
      BY Regions
    <3>2. j < th[p].iter /\ th[p].iter > 0
      BY <2>1, Regions, SMT DEF Thread
    <3> QED
      BY <2>1, <3>1, <3>2 DEF Local, Unmapping
  <2>9. Entries(p)'
    BY <2>1, <2>2, <2>6, <2>7, <2>8 DEF Local, Entries
  <2>10. Local(p)'
    <3>1. th[p].victim = NULL
      BY <2>1 DEF Local, Victims
    <3>2. ~(0 > 0)
      BY SMT
    <3> QED
      BY <2>5, <2>9, <3>1, <3>2, IdleLocal
  <2>11. Types'
    <3>1. frame_table' \in Seq(FrameEntry)
      BY <2>3 DEF MunmapDone
    <3>2. {swap_lock, filesys_lock}' \subseteq Procs \cup {NULL}
      BY <2>1, <2>2 DEF Types
    <3> QED
      BY <2>1, <2>2, <2>4, <2>5, <2>6, <2>7, <3>1, <3>2 DEF Types
  <2>12. Table'
    <3>1. PICK g \in [DOMAIN frame_table' -> I] :
            \A k \in DOMAIN frame_table' : frame_table'[k] = Orphan(p, frame_table[g[k]])
      BY <2>3 DEF MunmapDone
    <3> SUFFICES ASSUME NEW k \in DOMAIN frame_table', frame_table'[k].spte
                 PROVE  /\ frame_table'[k].page \in DOMAIN spt'[frame_table'[k].owner]
                        /\ frame_table'[k].page \notin GrowPages
      BY DEF Table
    <3>2. PICK i \in DOMAIN frame_table : frame_table'[k] = Orphan(p, frame_table[i])
      BY <3>1
    <3>3. PICK e \in FrameEntry : e = frame_table[i] /\ e.owner \in Procs
      BY <2>1, FrameTypes
    <3>4. /\ e.spte /\ ~(e.owner = p /\ e.page = Region[1])
          /\ frame_table'[k].owner = e.owner /\ frame_table'[k].page = e.page
      <4>1. Stays(frame_table'[k], p, e)
        BY <3>2, <3>3, OrphanIs
      <4> QED
        BY <4>1 DEF Stays
    <3>5. e.page \in DOMAIN spt[e.owner] /\ e.page \notin GrowPages
      BY <3>3, <3>4 DEF Control, Table
    <3> QED
      BY <2>6, <3>3, <3>4, <3>5
  <2> QED
    BY <2>2, <2>5, <2>6, <2>7, <2>10, <2>11, <2>12, StepControl
<1> QED
  BY <1>1, <1>2

-----------------------------------------------------------------------------
(* Control, continued: every step.                                         *)

\* At the start every frame is free and no page is anywhere.
LEMMA InitControl ==
  ASSUME Init
  PROVE  Control
<1>1. ASSUME NEW p \in Procs
      PROVE  /\ th[p] \in Thread /\ th[p].pc = "new" /\ th[p].victim = NULL /\ th[p].iter = 0
             /\ spt[p] \in Tables /\ DOMAIN spt[p] = {} /\ fd[p] = "open"
             /\ \A v \in Pages : pte[p][v] = NULL
  <2>1. PICK T : T = << >>
    OBVIOUS
  <2>2. DOMAIN T = {} /\ T = [v \in {} |-> T[v]]
    BY <2>1, SMT
  <2>3. T \in Tables
    BY <2>2, TableOf
  <2>4. 0 \in 0..Len(Region)+1
    BY Regions, SMT
  <2>5. PICK r : r = [pc |-> "new", goal |-> NULL, page |-> NULL, write |-> FALSE,
                      kpage |-> NULL, victim |-> NULL, iter |-> 0, leaving |-> FALSE]
    OBVIOUS
  <2>6. r \in Thread /\ r.pc = "new" /\ r.victim = NULL /\ r.iter = 0
    BY <2>4, <2>5 DEF Thread
  <2> QED
    BY <2>1, <2>2, <2>3, <2>5, <2>6 DEF Init
<1>2. Types
  <2>1. th \in [Procs -> Thread] /\ spt \in [Procs -> Tables]
    BY <1>1 DEF Init
  <2>2. content \in [Frames -> Contents] /\ swapped_data \in [Slots -> Contents]
    BY DEF Init, Contents
  <2>3. mem \in [Procs -> [Pages -> Contents]]
    <3>1. \A p \in Procs, v \in Pages : Loaded(p, v) \in Contents
      BY SMT DEF Loaded, Contents
    <3> QED
      BY <3>1 DEF Init
  <2>4. frame_table \in Seq(FrameEntry)
    BY SMT DEF Init
  <2>5. /\ pte \in [Procs -> [Pages -> Frames \cup {NULL}]]
        /\ fd \in [Procs -> {"open", "mapped", "closed"}]
        /\ pool \subseteq Frames /\ swap_table \subseteq Slots
        /\ {swap_lock, filesys_lock} \subseteq Procs \cup {NULL}
        /\ machine \in {"running", "panic", "lost"} /\ foreign \in BOOLEAN
    BY DEF Init
  <2> QED
    BY <2>1, <2>2, <2>3, <2>4, <2>5 DEF Types
<1>3. ASSUME NEW p \in Procs PROVE Local(p)
  <2>1. ~(th[p].iter > 0)
    BY <1>1, SMT
  <2>2. MapPages \subseteq Pages
    BY DEF Pages
  <2>3. Fault(p) /\ Victims(p) /\ Unmapping(p) /\ Ends(p)
    BY <1>1, <2>1 DEF Fault, Faulting, Victims, Holding, Unmapping, Ends
  <2>4. Entries(p)
    BY <1>1, <2>2 DEF Entries
  <2> QED
    BY <2>3, <2>4 DEF Local
<1>4. Table
  <2>1. DOMAIN frame_table = {}
    BY SMT DEF Init
  <2> QED
    BY <2>1 DEF Table
<1> QED
  BY <1>2, <1>3, <1>4 DEF Control

\* What list_remove leaves of the frame table in thread_exit and munmap.
Removals ==
  \A p \in Procs :
    /\ thread_exit(p) =>
         Thins(frame_table', {i \in DOMAIN frame_table : frame_table[i].owner # p})
    /\ MunmapEnd(p) /\ machine' = "running" =>
         \E I \in SUBSET DOMAIN frame_table : MunmapDone(p, I)

\* Every step keeps what the processes are in the middle of.
LEMMA NextControl ==
  ASSUME Control, Swap, Next, Removals
  PROVE  Control'
<1>1. PICK p \in Procs :
        \/ load(p) \/ palloc_get_page(p)
        \/ swap_out(p) \/ Save(p)
        \/ FillStack(p) \/ FillGrow(p) \/ FillFromFile(p) \/ swap_in(p) \/ Install(p)
        \/ mmap(p) \/ munmap(p) \/ MunmapPage(p) \/ MunmapEnd(p) \/ close(p)
        \/ exit(p) \/ process_exit(p) \/ thread_exit(p)
        \/ \E v \in Pages : UserWrite(p, v)
        \/ \E v \in Pages, w \in BOOLEAN : page_fault(p, v, w)
  BY DEF Next
<1>2. CASE load(p)
  BY <1>2, LoadControl
<1>3. CASE palloc_get_page(p)
  BY <1>3, PallocControl
<1>4. CASE swap_out(p)
  BY <1>4, SwapOutControl
<1>5. CASE Save(p)
  BY <1>5, SaveControl
<1>6. CASE FillStack(p)
  BY <1>6, FillStackControl
<1>7. CASE FillGrow(p)
  BY <1>7, FillGrowControl
<1>8. CASE FillFromFile(p)
  BY <1>8, FillFromFileControl
<1>9. CASE swap_in(p)
  BY <1>9, SwapInControl
<1>10. CASE Install(p)
  BY <1>10, InstallControl
<1>11. CASE mmap(p)
  BY <1>11, MmapControl
<1>12. CASE munmap(p)
  BY <1>12, MunmapControl
<1>13. CASE MunmapPage(p)
  BY <1>13, MunmapPageControl
<1>14. CASE MunmapEnd(p)
  BY <1>14, MunmapEndControl DEF Removals
<1>15. CASE close(p)
  BY <1>15, CloseControl
<1>16. CASE exit(p)
  BY <1>16, ExitControl
<1>17. CASE process_exit(p)
  BY <1>17, ProcessExitControl
<1>18. CASE thread_exit(p)
  BY <1>18, ThreadExitControl DEF Removals
<1>19. ASSUME NEW v \in Pages, UserWrite(p, v) PROVE Control'
  BY <1>19, UserWriteControl
<1>20. ASSUME NEW v \in Pages, NEW w \in BOOLEAN, page_fault(p, v, w) PROVE Control'
  BY <1>20, PageFaultControl
<1> QED
  BY <1>1, <1>2, <1>3, <1>4, <1>5, <1>6, <1>7, <1>8, <1>9, <1>10, <1>11, <1>12, <1>13,
     <1>14, <1>15, <1>16, <1>17, <1>18, <1>19, <1>20

-----------------------------------------------------------------------------
(* The rest of the invariant: who uses a frame, and what memory holds.     *)

\* The frame table says that frame f has page v of p, which still has its pages.
ListedAs(f, p, v) ==
  \E i \in Listed :
    frame_table[i].frame = f /\ frame_table[i].owner = p /\ frame_table[i].page = v

OneListing == \A i, j \in Listed : frame_table[i].frame = frame_table[j].frame => i = j

\* Frame f is in use for page v of process p.
Claim(f, p, v) ==
  \/ pte[p][v] = f
  \/ ListedAs(f, p, v)
  \/ Holding(p) /\ th[p].kpage = f /\ th[p].page = v
  \/ th[p].pc = "save" /\ th[p].victim.frame = f /\ th[p].victim.page = v

OneClaim ==
  /\ \A f \in Frames, p, q \in Procs, v, w \in Pages :
       Claim(f, p, v) /\ Claim(f, q, w) => p = q /\ v = w
  /\ \A f \in pool, p \in Procs, v \in Pages : ~Claim(f, p, v)

\* A victim is a page of the process that evicts it, which nothing refers to any
\* more but its own entry.
Victim(p) ==
  th[p].pc = "save" =>
    /\ th[p].victim.owner = p /\ pte[p][th[p].victim.page] = NULL
    /\ \A q \in Procs, v \in Pages : ~ListedAs(th[p].victim.frame, q, v)
    /\ th[p].victim.page \in DOMAIN spt[p] /\ spt[p][th[p].victim.page].swapped

\* A frame is listed only once it is filled.
Unlisted(p) ==
  th[p].pc = "fill" => \A q \in Procs, v \in Pages : ~ListedAs(th[p].kpage, q, v)

\* Page v of p is being put in the page directory.
Installing(p, v) == th[p].pc = "install" /\ th[p].page = v

\* The frame table is right about data pages.
Exact(p) ==
  \A f \in Frames, v \in DataPages :
    ListedAs(f, p, v) => pte[p][v] = f \/ (Installing(p, v) /\ th[p].kpage = f)

\* A page that is present is not out.
Here(p) ==
  \A v \in DataPages :
    v \in DOMAIN spt[p] /\ (pte[p][v] # NULL \/ Installing(p, v)) => ~spt[p][v].swapped

Place(p) == Victim(p) /\ Unlisted(p) /\ Exact(p) /\ Here(p)

Exclusive == OneClaim /\ OneListing /\ \A p \in Procs : Place(p)

Alone == ~foreign => Exclusive

\* A process that has not yet run.
Young(p) == th[p].pc = "new" \/ (Faulting(p) /\ th[p].goal = "stack")

\* What is in memory or in swap is what the process left there.
InMemory(p) == \A v \in Pages \ MapPages : pte[p][v] # NULL => content[pte[p][v]] = mem[p][v]

InSwap(p) == \A v \in Pages : Away(p, v) => swapped_data[spt[p][v].slot] = mem[p][v]

GoingOut(p) ==
  th[p].pc = "save" /\ th[p].victim.page \in DataPages =>
    content[th[p].victim.frame] = mem[p][th[p].victim.page]

ComingIn(p) ==
  th[p].pc = "install" /\ th[p].page \notin MapPages =>
    content[th[p].kpage] = mem[p][th[p].page]

\* The pages that the executable still holds: code, all pages before the process
\* runs, and data pages that are neither in memory nor in swap.
Unread(p) ==
  /\ \A v \in CodePages : mem[p][v] = Loaded(p, v)
  /\ Young(p) => \A v \in Pages : mem[p][v] = Loaded(p, v)
  /\ \A v \in DataPages :
       /\ v \in DOMAIN spt[p] /\ ~spt[p][v].swapped /\ pte[p][v] = NULL
       /\ ~Installing(p, v) /\ th[p].pc # "dying"
       => mem[p][v] = Loaded(p, v)

Memory(p) == InMemory(p) /\ InSwap(p) /\ GoingOut(p) /\ ComingIn(p) /\ Unread(p)

Kept == ~foreign => \A p \in Procs : Memory(p)

\* All of it.
Safe == Swap /\ Alone /\ Kept

LEMMA InitSafe ==
  ASSUME Init
  PROVE  Safe
<1>1. ASSUME NEW p \in Procs
      PROVE  /\ th[p].pc = "new" /\ DOMAIN spt[p] = {}
             /\ \A v \in Pages : pte[p][v] = NULL /\ mem[p][v] = Loaded(p, v)
  <2>1. DOMAIN spt[p] = {}
    BY InitControl DEF Control, Local, Ends, Init
  <2> QED
    BY <2>1 DEF Init
<1>2. \A p \in Procs, v \in Pages : ~Away(p, v)
  BY <1>1 DEF Away
<1>3. Listed = {}
  BY SMT DEF Init, Listed
<1>4. \A f, p, v : ~ListedAs(f, p, v)
  BY <1>3 DEF ListedAs
<1>5. Exclusive
  <2>1. \A f \in Frames, p \in Procs, v \in Pages : ~Claim(f, p, v)
    BY <1>1, <1>4, PageKinds DEF Claim, Holding
  <2>2. OneClaim
    BY <2>1, InitControl DEF OneClaim, Control, Types
  <2>3. \A p \in Procs : Place(p)
    BY <1>1, <1>4 DEF Place, Victim, Unlisted, Exact, Here
  <2> QED
    BY <1>3, <2>2, <2>3 DEF Exclusive, OneListing
<1>6. ASSUME NEW p \in Procs PROVE Memory(p)
  <2>1. CodePages \subseteq Pages /\ DataPages \subseteq Pages
    BY DEF Pages
  <2>2. Unread(p)
    BY <1>1, <2>1 DEF Unread
  <2> QED
    BY <1>1, <1>2, <2>2 DEF Memory, InMemory, InSwap, GoingOut, ComingIn
<1> QED
  BY <1>2, <1>5, <1>6 DEF Safe, Swap, Alone, Kept

-----------------------------------------------------------------------------
(* Slots.                                                                  *)

\* Pages that are out stay out in the same slot, and no page joins them.
AwayOnly ==
  \A q \in Procs, v \in Pages :
    Away(q, v)' => Away(q, v) /\ spt'[q][v].slot = spt[q][v].slot

\* A data page of q is marked as swapped only if it was, with its slot.
SwappedOnly(q) ==
  \A v \in DataPages :
    v \in DOMAIN spt'[q] /\ spt'[q][v].swapped =>
      /\ v \in DOMAIN spt[q] /\ spt[q][v].swapped
      /\ spt'[q][v].slot = spt[q][v].slot

\* So it is when no eviction ends.
LEMMA NoneAway ==
  ASSUME \A q \in Procs : th[q].pc = "save" => th'[q].pc = "save" /\ th'[q].victim = th[q].victim,
         \A q \in Procs : SwappedOnly(q)
  PROVE  AwayOnly
<1> SUFFICES ASSUME NEW q \in Procs, NEW v \in Pages, Away(q, v)'
             PROVE  Away(q, v) /\ spt'[q][v].slot = spt[q][v].slot
  BY DEF AwayOnly
<1>1. v \in DataPages /\ v \in DOMAIN spt'[q] /\ spt'[q][v].swapped
  BY DEF Away
<1>2. v \in DOMAIN spt[q] /\ spt[q][v].swapped /\ spt'[q][v].slot = spt[q][v].slot
  BY <1>1 DEF SwappedOnly
<1>3. \A r \in Procs : th[r].pc = "save" => th[r].victim.owner # q \/ th[r].victim.page # v
  BY DEF Away
<1> QED
  BY <1>1, <1>2, <1>3 DEF Away

\* Then the slots stay in use, each for one page.
LEMMA AwaySwap ==
  ASSUME Swap, AwayOnly, swap_table' = swap_table
  PROVE  Swap'
<1>1. \A p \in Procs, v \in Pages : Away(p, v)' => spt'[p][v].slot \in swap_table'
  BY DEF Swap, AwayOnly
<1>2. ASSUME NEW p \in Procs, NEW q \in Procs, NEW v \in Pages, NEW w \in Pages,
             Away(p, v)', Away(q, w)', spt'[p][v].slot = spt'[q][w].slot
      PROVE  p = q /\ v = w
  <2>1. Away(p, v) /\ Away(q, w) /\ spt[p][v].slot = spt[q][w].slot
    BY <1>2 DEF AwayOnly
  <2> QED
    BY <2>1 DEF Swap
<1> QED
  BY <1>1, <1>2 DEF Swap

-----------------------------------------------------------------------------
(* The frame table.                                                        *)

\* Nothing new is listed.
Fewer ==
  /\ OneListing => OneListing'
  /\ \A f \in Frames, q \in Procs, v \in Pages : ListedAs(f, q, v)' => ListedAs(f, q, v)

\* A process past pagedir_destroy stays there.
DyingStay == \A q \in Procs : th[q].pc = "dying" => th'[q].pc = "dying"

\* The table stays.
LEMMA SameList ==
  ASSUME Types, UNCHANGED frame_table, DyingStay
  PROVE  Fewer
<1>1. \A i \in Listed' : i \in Listed
  BY FrameTypes DEF Listed, DyingStay
<1> QED
  BY <1>1 DEF Fewer, OneListing, ListedAs

\* Entries are removed, and those that stay keep their frame, owner and page.
Picks(I) ==
  \E g \in [DOMAIN frame_table' -> I] :
    /\ \A k \in DOMAIN frame_table' :
         /\ frame_table'[k].frame = frame_table[g[k]].frame
         /\ frame_table'[k].owner = frame_table[g[k]].owner
         /\ frame_table'[k].page = frame_table[g[k]].page
    /\ \A j, k \in DOMAIN frame_table' : g[j] = g[k] => j = k

\* One of the places in I has frame f for page v of q.
Among(I, f, q, v) ==
  \E i \in I : /\ i \in Listed /\ frame_table[i].frame = f
              /\ frame_table[i].owner = q /\ frame_table[i].page = v

\* Entries that stay are at the places in I.
LEMMA PickedList ==
  ASSUME Types, Types', NEW I \in SUBSET DOMAIN frame_table, Picks(I),
         \A i \in I : th[frame_table[i].owner].pc = "dying" => th'[frame_table[i].owner].pc = "dying"
  PROVE  /\ Fewer
         /\ \A f \in Frames, q \in Procs, v \in Pages :
              ListedAs(f, q, v)' => Among(I, f, q, v)
<1>1. PICK g \in [DOMAIN frame_table' -> I] :
        /\ \A k \in DOMAIN frame_table' :
             /\ frame_table'[k].frame = frame_table[g[k]].frame
             /\ frame_table'[k].owner = frame_table[g[k]].owner
             /\ frame_table'[k].page = frame_table[g[k]].page
        /\ \A j, k \in DOMAIN frame_table' : g[j] = g[k] => j = k
  BY DEF Picks
<1>2. DOMAIN frame_table = 1..Len(frame_table)
  BY FrameTypes
<1>3. DOMAIN frame_table' = 1..Len(frame_table')
  <2>1. frame_table' \in Seq(FrameEntry)
    BY DEF Types
  <2> QED
    BY <2>1, SMT
<1>4. ASSUME NEW k \in Listed'
      PROVE  /\ k \in DOMAIN frame_table' /\ g[k] \in I /\ g[k] \in Listed
             /\ frame_table'[k].frame = frame_table[g[k]].frame
             /\ frame_table'[k].owner = frame_table[g[k]].owner
             /\ frame_table'[k].page = frame_table[g[k]].page
  <2>1. k \in DOMAIN frame_table' /\ th'[frame_table'[k].owner].pc # "dying"
    BY <1>3 DEF Listed
  <2>2. g[k] \in I
    BY <2>1
  <2>3. /\ frame_table'[k].frame = frame_table[g[k]].frame
        /\ frame_table'[k].owner = frame_table[g[k]].owner
        /\ frame_table'[k].page = frame_table[g[k]].page
    BY <1>1, <2>1
  <2>4. g[k] \in DOMAIN frame_table /\ th[frame_table[g[k]].owner].pc # "dying"
    BY <2>1, <2>2, <2>3
  <2>5. g[k] \in Listed
    BY <1>2, <2>4 DEF Listed
  <2> QED
    BY <2>1, <2>2, <2>3, <2>5
<1>5. ASSUME NEW f \in Frames, NEW q \in Procs, NEW v \in Pages, ListedAs(f, q, v)'
      PROVE  ListedAs(f, q, v) /\ Among(I, f, q, v)
  <2>1. PICK k \in Listed' : /\ frame_table'[k].frame = f
                             /\ frame_table'[k].owner = q /\ frame_table'[k].page = v
    BY <1>5 DEF ListedAs
  <2>2. /\ g[k] \in I /\ g[k] \in Listed /\ frame_table[g[k]].frame = f
        /\ frame_table[g[k]].owner = q /\ frame_table[g[k]].page = v
    BY <1>4, <2>1
  <2>3. ListedAs(f, q, v)
    BY <2>2 DEF ListedAs
  <2> QED
    BY <2>2, <2>3 DEF Among
<1>6. ASSUME OneListing, NEW j \in Listed', NEW k \in Listed',
             frame_table'[j].frame = frame_table'[k].frame
      PROVE  j = k
  <2>1. /\ g[j] \in Listed /\ g[k] \in Listed /\ frame_table[g[j]].frame = frame_table[g[k]].frame
        /\ j \in DOMAIN frame_table' /\ k \in DOMAIN frame_table'
    BY <1>4, <1>6
  <2>2. g[j] = g[k]
    BY <1>6, <2>1 DEF OneListing
  <2> QED
    BY <1>1, <2>1, <2>2
<1>7. OneListing => OneListing'
  BY <1>6 DEF OneListing
<1>8. Fewer
  BY <1>5, <1>7 DEF Fewer
<1> QED
  BY <1>5, <1>8

-----------------------------------------------------------------------------
(* Claims, and the processes that a step leaves alone.                     *)

\* Every use of a frame is an old one.
NoNew == \A f \in Frames, q \in Procs, v \in Pages : Claim(f, q, v)' => Claim(f, q, v)

\* The thread, the pages and the page table of q stay.
Undisturbed(q) == th'[q] = th[q] /\ pte'[q] = pte[q] /\ spt'[q] = spt[q]

\* What such a process uses it used before.
LEMMA OtherClaims ==
  ASSUME NEW q \in Procs, Undisturbed(q), NEW f \in Frames, NEW v \in Pages,
         ListedAs(f, q, v)' => ListedAs(f, q, v)
  PROVE  Claim(f, q, v)' => Claim(f, q, v)
  BY DEF Undisturbed, Claim, Holding

\* Frames that go to the free pool are no longer in use.
LEMMA ClaimsLeft ==
  ASSUME OneClaim, NoNew, pool' \subseteq Frames,
         \A f \in pool' : f \in pool \/ \A q \in Procs, v \in Pages : ~Claim(f, q, v)'
  PROVE  OneClaim'
<1>1. ASSUME NEW f \in Frames, NEW p \in Procs, NEW q \in Procs, NEW v \in Pages, NEW w \in Pages,
             Claim(f, p, v)', Claim(f, q, w)'
      PROVE  p = q /\ v = w
  <2>1. Claim(f, p, v) /\ Claim(f, q, w)
    BY <1>1 DEF NoNew
  <2> QED
    BY <2>1 DEF OneClaim
<1>2. ASSUME NEW f \in pool', NEW p \in Procs, NEW v \in Pages, Claim(f, p, v)'
      PROVE  FALSE
  <2>1. f \in pool /\ f \in Frames
    BY <1>2
  <2>2. Claim(f, p, v)
    BY <1>2, <2>1 DEF NoNew
  <2> QED
    BY <2>1, <2>2 DEF OneClaim
<1> QED
  BY <1>1, <1>2 DEF OneClaim

\* A process that is left alone keeps its place, as long as no frame is listed
\* that it is filling or evicting.
LEMMA PlaceStays ==
  ASSUME NEW q \in Procs, Place(q), Undisturbed(q),
         \A f \in Frames, v \in Pages : ListedAs(f, q, v)' => ListedAs(f, q, v),
         th[q].pc = "save" => \A r \in Procs, v \in Pages : ~ListedAs(th[q].victim.frame, r, v)',
         th[q].pc = "fill" => \A r \in Procs, v \in Pages : ~ListedAs(th[q].kpage, r, v)'
  PROVE  Place(q)'
<1>1. th'[q] = th[q] /\ pte'[q] = pte[q] /\ spt'[q] = spt[q]
  BY DEF Undisturbed
<1>2. Victim(q)'
  BY <1>1 DEF Victim, Place
<1>3. Unlisted(q)'
  BY <1>1 DEF Unlisted
<1>4. Exact(q)'
  <2> SUFFICES ASSUME NEW f \in Frames, NEW v \in DataPages, ListedAs(f, q, v)'
               PROVE  (pte[q][v] = f \/ (Installing(q, v) /\ th[q].kpage = f))'
    BY DEF Exact
  <2>1. v \in Pages
    BY DEF Pages
  <2>2. ListedAs(f, q, v)
    BY <2>1
  <2> QED
    BY <1>1, <2>2 DEF Place, Exact, Installing
<1>5. Here(q)'
  BY <1>1 DEF Place, Here, Installing
<1> QED
  BY <1>2, <1>3, <1>4, <1>5 DEF Place

\* When nothing new is listed that is so.
LEMMA PlaceFewer ==
  ASSUME Control, Fewer, NEW q \in Procs, Place(q), Undisturbed(q)
  PROVE  Place(q)'
<1>1. \A f \in Frames, v \in Pages : ListedAs(f, q, v)' => ListedAs(f, q, v)
  BY DEF Fewer
<1>2. ASSUME th[q].pc = "save", NEW r \in Procs, NEW v \in Pages
      PROVE  ~ListedAs(th[q].victim.frame, r, v)'
  <2>1. th[q].victim \in FrameEntry
    BY <1>2 DEF Control, Local, Victims
  <2>2. PICK f \in Frames : f = th[q].victim.frame
    BY <2>1 DEF FrameEntry
  <2>3. ~ListedAs(f, r, v)
    BY <1>2, <2>2 DEF Place, Victim
  <2>4. ~ListedAs(f, r, v)'
    BY <2>3 DEF Fewer
  <2>5. f = th'[q].victim.frame
    BY <2>2 DEF Undisturbed
  <2> QED
    BY <2>4, <2>5 DEF ListedAs
<1>3. ASSUME th[q].pc = "fill", NEW r \in Procs, NEW v \in Pages
      PROVE  ~ListedAs(th[q].kpage, r, v)'
  <2>1. PICK f \in Frames : f = th[q].kpage
    BY <1>3 DEF Control, Local, Victims, Holding
  <2>2. ~ListedAs(f, r, v)
    BY <1>3, <2>1 DEF Place, Unlisted
  <2>3. ~ListedAs(f, r, v)'
    BY <2>2 DEF Fewer
  <2>4. f = th'[q].kpage
    BY <2>1 DEF Undisturbed
  <2> QED
    BY <2>3, <2>4 DEF ListedAs
<1> QED
  BY <1>1, <1>2, <1>3, PlaceStays

\* A page that is present is in a frame, which is in use for it.
LEMMA PresentClaims ==
  ASSUME Control, NEW q \in Procs, NEW v \in Pages, pte[q][v] # NULL
  PROVE  pte[q][v] \in Frames /\ Claim(pte[q][v], q, v)
<1>1. pte[q][v] \in Frames
  BY SMT DEF Control, Types
<1> QED
  BY <1>1 DEF Claim

\* A process that is left alone finds its pages as it left them, as long as the
\* frames it uses and the slots of its pages keep what they hold.
LEMMA MemoryStays ==
  ASSUME Control, NEW q \in Procs, Memory(q), Undisturbed(q), mem'[q] = mem[q],
         \A v \in Pages : Away(q, v)' =>
           Away(q, v) /\ swapped_data'[spt[q][v].slot] = swapped_data[spt[q][v].slot],
         \A f \in Frames, v \in Pages : Claim(f, q, v) => content'[f] = content[f]
  PROVE  Memory(q)'
<1>1. /\ th'[q] = th[q] /\ pte'[q] = pte[q] /\ spt'[q] = spt[q]
      /\ pte \in [Procs -> [Pages -> Frames \cup {NULL}]] /\ Local(q)
  BY DEF Undisturbed, Control, Types
<1>2. InMemory(q)'
  <2> SUFFICES ASSUME NEW v \in Pages \ MapPages, pte[q][v] # NULL
               PROVE  content'[pte[q][v]] = mem[q][v]
    BY <1>1 DEF InMemory
  <2>1. PICK f \in Frames : f = pte[q][v]
    BY PresentClaims
  <2>2. Claim(f, q, v)
    BY <2>1 DEF Claim
  <2>3. content[f] = mem[q][v]
    BY <2>1 DEF Memory, InMemory
  <2> QED
    BY <2>1, <2>2, <2>3
<1>3. InSwap(q)'
  <2>1. \A v \in Pages : Away(q, v) => swapped_data[spt[q][v].slot] = mem[q][v]
    BY DEF Memory, InSwap
  <2>2. ASSUME NEW v \in Pages, Away(q, v)' PROVE swapped_data'[spt'[q][v].slot] = mem'[q][v]
    <3>1. Away(q, v) /\ swapped_data'[spt[q][v].slot] = swapped_data[spt[q][v].slot]
      BY <2>2
    <3> QED
      BY <1>1, <2>1, <3>1
  <2> QED
    BY <2>2 DEF InSwap
<1>4. GoingOut(q)'
  <2> SUFFICES ASSUME th[q].pc = "save", th[q].victim.page \in DataPages
               PROVE  content'[th[q].victim.frame] = mem[q][th[q].victim.page]
    BY <1>1 DEF GoingOut
  <2>1. th[q].victim \in FrameEntry
    BY <1>1 DEF Local, Victims
  <2>2. PICK f \in Frames : f = th[q].victim.frame
    BY <2>1 DEF FrameEntry
  <2>3. PICK v \in Pages : v = th[q].victim.page
    BY <2>1 DEF FrameEntry
  <2>4. Claim(f, q, v)
    BY <2>2, <2>3 DEF Claim
  <2>5. content[f] = mem[q][v]
    BY <2>2, <2>3 DEF Memory, GoingOut
  <2> QED
    BY <2>2, <2>3, <2>4, <2>5
<1>5. ComingIn(q)'
  <2> SUFFICES ASSUME th[q].pc = "install", th[q].page \notin MapPages
               PROVE  content'[th[q].kpage] = mem[q][th[q].page]
    BY <1>1 DEF ComingIn
  <2>1. PICK f \in Frames : f = th[q].kpage
    BY <1>1 DEF Local, Victims, Holding
  <2>2. PICK v \in Pages : v = th[q].page
    BY <1>1 DEF Local, Fault, Faulting
  <2>3. Claim(f, q, v)
    BY <2>1, <2>2 DEF Claim, Holding
  <2>4. content[f] = mem[q][v]
    BY <2>1, <2>2 DEF Memory, ComingIn
  <2> QED
    BY <2>1, <2>2, <2>3, <2>4
<1>6. Unread(q)'
  BY <1>1 DEF Memory, Unread, Young, Faulting, Installing
<1> QED
  BY <1>2, <1>3, <1>4, <1>5, <1>6 DEF Memory

-----------------------------------------------------------------------------
(* Slots and frames have one user.                                         *)

\* The slots of the pages that are out.
LEMMA SlotsOf ==
  ASSUME Control, Safe
  PROVE  SlotsExclusive
<1>1. ASSUME NEW o \in Out PROVE Away(o[1], o[2]) /\ o[1] \in Procs /\ o[2] \in Pages
  <2>1. /\ o[1] \in Procs /\ o[2] \in Pages /\ o[2] \in DOMAIN spt[o[1]]
        /\ spt[o[1]][o[2]].swapped /\ Anonymous(spt[o[1]][o[2]])
        /\ \A q \in Procs : th[q].victim # NULL =>
             <<th[q].victim.owner, th[q].victim.page>> # o
        /\ o = <<o[1], o[2]>>
    BY <1>1, SMT DEF Out
  <2>2. o[2] \in DataPages
    <3>1. Kind(o[2], spt[o[1]][o[2]])
      BY <2>1 DEF Control, Local, Entries
    <3> QED
      BY <2>1, <3>1 DEF Kind, Anonymous
  <2>3. ASSUME NEW q \in Procs, th[q].pc = "save"
        PROVE  th[q].victim.owner # o[1] \/ th[q].victim.page # o[2]
    <3>1. th[q].victim # NULL
      BY <2>3, EntryAssumption DEF Control, Local, Victims
    <3> QED
      BY <2>1, <3>1
  <2> QED
    BY <2>1, <2>2, <2>3 DEF Away
<1>2. \A o \in Out : spt[o[1]][o[2]].slot \in swap_table
  BY <1>1 DEF Safe, Swap
<1>3. ASSUME NEW o \in Out, NEW r \in Out, spt[o[1]][o[2]].slot = spt[r[1]][r[2]].slot
      PROVE  o = r
  <2>1. o[1] = r[1] /\ o[2] = r[2]
    <3>1. PICK a \in Procs, v \in Pages : a = o[1] /\ v = o[2] /\ Away(a, v)
      BY <1>1, <1>3
    <3>2. PICK b \in Procs, w \in Pages : b = r[1] /\ w = r[2] /\ Away(b, w)
      BY <1>1, <1>3
    <3>3. spt[a][v].slot = spt[b][w].slot
      BY <1>3, <3>1, <3>2
    <3>4. Away(a, v) /\ Away(b, w)
      BY <3>1, <3>2
    <3>5. a = b /\ v = w
      BY <3>3, <3>4 DEF Safe, Swap
    <3> QED
      BY <3>1, <3>2, <3>5
  <2>2. o \in Procs \X Pages /\ r \in Procs \X Pages
    BY <1>3 DEF Out
  <2> QED
    BY <2>1, <2>2, SMT
<1>4. ~foreign => \A o \in Out : swapped_data[spt[o[1]][o[2]].slot] = mem[o[1]][o[2]]
  BY <1>1 DEF Safe, Kept, Memory, InSwap
<1> QED
  BY <1>2, <1>3, <1>4 DEF SlotsExclusive

\* The frames in use.
LEMMA FramesOf ==
  ASSUME Control, Safe
  PROVE  FramesExclusive
<1> DEFINE present == {o \in Procs \X Pages : pte[o[1]][o[2]] # NULL}
           mapped == {pte[o[1]][o[2]] : o \in present}
           listed == {frame_table[i].frame : i \in Listed}
<1> SUFFICES ASSUME ~foreign
             PROVE  /\ \A o, r \in present : pte[o[1]][o[2]] = pte[r[1]][r[2]] => o = r
                    /\ \A i, j \in Listed : frame_table[i].frame = frame_table[j].frame => i = j
                    /\ (mapped \cup listed) \cap pool = {}
  BY DEF FramesExclusive
<1>1. OneClaim /\ OneListing /\ Types
  BY DEF Safe, Alone, Exclusive, Control
<1>2. ASSUME NEW o \in present
      PROVE  /\ o[1] \in Procs /\ o[2] \in Pages
             /\ pte[o[1]][o[2]] \in Frames /\ Claim(pte[o[1]][o[2]], o[1], o[2])
  <2>1. o[1] \in Procs /\ o[2] \in Pages /\ pte[o[1]][o[2]] # NULL
    BY <1>2, SMT
  <2> QED
    BY <2>1, PresentClaims
<1>3. ASSUME NEW o \in present, NEW r \in present, pte[o[1]][o[2]] = pte[r[1]][r[2]]
      PROVE  o = r
  <2>1. o[1] = r[1] /\ o[2] = r[2]
    <3>1. PICK f \in Frames : f = pte[o[1]][o[2]] /\ f = pte[r[1]][r[2]]
      BY <1>2, <1>3
    <3>2. PICK a \in Procs, v \in Pages : a = o[1] /\ v = o[2] /\ Claim(f, a, v)
      BY <1>2, <1>3, <3>1
    <3>3. PICK b \in Procs, w \in Pages : b = r[1] /\ w = r[2] /\ Claim(f, b, w)
      BY <1>2, <1>3, <3>1
    <3>4. Claim(f, a, v) /\ Claim(f, b, w)
      BY <3>2, <3>3
    <3>5. a = b /\ v = w
      BY <1>1, <3>4 DEF OneClaim
    <3> QED
      BY <3>2, <3>3, <3>5
  <2>2. o \in Procs \X Pages /\ r \in Procs \X Pages
    BY <1>3
  <2> QED
    BY <2>1, <2>2, SMT
<1>4. \A o \in present : pte[o[1]][o[2]] \notin pool
  BY <1>1, <1>2 DEF OneClaim
<1>5. ASSUME NEW i \in Listed PROVE frame_table[i].frame \notin pool
  <2>1. i \in DOMAIN frame_table
    BY <1>1, <1>5, FrameTypes DEF Listed
  <2>2. /\ frame_table[i].frame \in Frames /\ frame_table[i].owner \in Procs
        /\ frame_table[i].page \in Pages
    BY <1>1, <2>1, FrameTypes
  <2>3. Claim(frame_table[i].frame, frame_table[i].owner, frame_table[i].page)
    BY <1>5 DEF Claim, ListedAs
  <2> QED
    BY <1>1, <2>2, <2>3 DEF OneClaim
<1>6. (mapped \cup listed) \cap pool = {}
  BY <1>4, <1>5
<1> QED
  BY <1>1, <1>3, <1>6 DEF OneListing

-----------------------------------------------------------------------------
(* Steps that move no page.                                                *)

\* Not in the middle of moving a page, nor past pagedir_destroy.
Calm(p) == ~Holding(p) /\ th[p].pc # "save" /\ th[p].pc # "dying"

\* A step of p that moves no page.
Quiet(p) ==
  /\ UNCHANGED pte /\ UNCHANGED pool /\ UNCHANGED content /\ UNCHANGED frame_table
  /\ UNCHANGED swap_table /\ UNCHANGED swapped_data /\ UNCHANGED mem /\ UNCHANGED foreign
  /\ \A q \in Procs : q # p => th'[q] = th[q] /\ spt'[q] = spt[q]
  /\ Calm(p) /\ Calm(p)' /\ (Young(p)' => Young(p))
  /\ SwappedOnly(p)
  /\ \A v \in DataPages : v \in DOMAIN spt'[p] /\ ~spt'[p][v].swapped =>
       Young(p) \/ (v \in DOMAIN spt[p] /\ ~spt[p][v].swapped)

\* The slots and the list after such a step.
LEMMA QuietSwap ==
  ASSUME Control, NEW p \in Procs, Quiet(p)
  PROVE  AwayOnly /\ Fewer /\ \A q \in Procs : q # p => Undisturbed(q)
<1>1. /\ UNCHANGED pte /\ UNCHANGED frame_table /\ Calm(p) /\ Calm(p)' /\ SwappedOnly(p)
      /\ \A q \in Procs : q # p => th'[q] = th[q] /\ spt'[q] = spt[q]
  BY DEF Quiet
<1>2. \A q \in Procs : q # p => Undisturbed(q)
  BY <1>1 DEF Undisturbed
<1>3. \A q \in Procs : SwappedOnly(q)
  BY <1>1 DEF SwappedOnly
<1>4. AwayOnly
  BY <1>1, <1>3, NoneAway DEF Calm
<1>5. DyingStay
  BY <1>1 DEF DyingStay, Calm
<1>6. Fewer
  BY <1>1, <1>5, SameList DEF Control
<1> QED
  BY <1>2, <1>4, <1>6

\* Frames keep their users.
LEMMA QuietExclusive ==
  ASSUME Control, Exclusive, NEW p \in Procs, Quiet(p)
  PROVE  Exclusive'
<1>1. /\ UNCHANGED pte /\ UNCHANGED pool /\ Calm(p) /\ Calm(p)' /\ SwappedOnly(p)
  BY DEF Quiet
<1>2. Fewer /\ \A q \in Procs : q # p => Undisturbed(q)
  BY QuietSwap
<1>3. NoNew
  <2> SUFFICES ASSUME NEW f \in Frames, NEW q \in Procs, NEW v \in Pages, Claim(f, q, v)'
               PROVE  Claim(f, q, v)
    BY DEF NoNew
  <2>1. ListedAs(f, q, v)' => ListedAs(f, q, v)
    BY <1>2 DEF Fewer
  <2>2. CASE q # p
    BY <1>2, <2>1, <2>2, OtherClaims
  <2>3. CASE q = p
    BY <1>1, <2>1, <2>3 DEF Claim, Calm
  <2> QED
    BY <2>2, <2>3
<1>4. OneClaim'
  <2>1. pool' \subseteq Frames /\ \A f \in pool' : f \in pool
    BY <1>1 DEF Control, Types
  <2> QED
    BY <1>3, <2>1, ClaimsLeft DEF Exclusive
<1>5. Place(p)'
  <2>1. Victim(p)' /\ Unlisted(p)'
    BY <1>1 DEF Victim, Unlisted, Calm, Holding
  <2>2. Exact(p)'
    <3> SUFFICES ASSUME NEW f \in Frames, NEW v \in DataPages, ListedAs(f, p, v)'
                 PROVE  pte'[p][v] = f
      BY DEF Exact
    <3>1. ListedAs(f, p, v)
      BY <1>2 DEF Fewer, Pages
    <3> QED
      BY <1>1, <3>1 DEF Exclusive, Place, Exact, Installing, Calm, Holding
  <2>3. Here(p)'
    BY <1>1 DEF Exclusive, Place, Here, Installing, Calm, Holding, SwappedOnly
  <2> QED
    BY <2>1, <2>2, <2>3 DEF Place
<1>6. \A q \in Procs : q # p => Place(q)'
  BY <1>2, PlaceFewer DEF Exclusive
<1>7. OneListing'
  BY <1>2 DEF Fewer, Exclusive
<1> QED
  BY <1>4, <1>5, <1>6, <1>7 DEF Exclusive

\* Pages keep their contents.
LEMMA QuietMemory ==
  ASSUME Control, NEW p \in Procs, Quiet(p), \A q \in Procs : Memory(q)
  PROVE  \A q \in Procs : Memory(q)'
<1>1. /\ UNCHANGED pte /\ UNCHANGED content /\ Calm(p) /\ Calm(p)' /\ (Young(p)' => Young(p))
      /\ UNCHANGED swapped_data /\ UNCHANGED mem
  BY DEF Quiet
<1>2. AwayOnly /\ \A q \in Procs : q # p => Undisturbed(q)
  BY QuietSwap
<1>3. ASSUME NEW q \in Procs, q # p PROVE Memory(q)'
  <2>1. Undisturbed(q) /\ Memory(q)
    BY <1>2, <1>3
  <2> QED
    BY <1>1, <1>2, <2>1, MemoryStays DEF AwayOnly
<1>4. Memory(p)'
  <2>1. InMemory(p)' /\ InSwap(p)'
    BY <1>1, <1>2 DEF Memory, InMemory, InSwap, AwayOnly
  <2>2. GoingOut(p)' /\ ComingIn(p)'
    BY <1>1 DEF GoingOut, ComingIn, Calm, Holding
  <2>3. Unread(p)'
    <3>1. Unread(p)
      BY DEF Memory
    <3>2. \A v \in DataPages : v \in DOMAIN spt'[p] /\ ~spt'[p][v].swapped /\ pte[p][v] = NULL =>
            mem[p][v] = Loaded(p, v)
      <4> SUFFICES ASSUME NEW v \in DataPages, v \in DOMAIN spt'[p], ~spt'[p][v].swapped,
                          pte[p][v] = NULL
                   PROVE  mem[p][v] = Loaded(p, v)
        OBVIOUS
      <4>1. v \in Pages
        BY DEF Pages
      <4>2. Young(p) \/ (v \in DOMAIN spt[p] /\ ~spt[p][v].swapped)
        BY DEF Quiet
      <4> QED
        BY <1>1, <3>1, <4>1, <4>2 DEF Unread, Installing, Calm, Holding
    <3> QED
      BY <1>1, <3>1, <3>2 DEF Unread
  <2> QED
    BY <2>1, <2>2, <2>3 DEF Memory
<1> QED
  BY <1>3, <1>4

LEMMA QuietSafe ==
  ASSUME Control, Safe, NEW p \in Procs, Quiet(p)
  PROVE  Safe'
<1>1. UNCHANGED swap_table /\ UNCHANGED foreign
  BY DEF Quiet
<1>2. Swap'
  BY <1>1, QuietSwap, AwaySwap DEF Safe
<1>3. Alone'
  BY <1>1, QuietExclusive DEF Safe, Alone
<1>4. Kept'
  BY <1>1, QuietMemory DEF Safe, Kept
<1> QED
  BY <1>2, <1>3, <1>4 DEF Safe

\* A step that changes nothing here: a halt, or no step.
LEMMA SameSafe ==
  ASSUME Control, Safe, UNCHANGED th, UNCHANGED pte, UNCHANGED spt, UNCHANGED pool,
         UNCHANGED content, UNCHANGED frame_table, UNCHANGED swap_table,
         UNCHANGED swapped_data, UNCHANGED mem, UNCHANGED foreign
  PROVE  Safe'
<1>1. \A q \in Procs : Undisturbed(q)
  BY DEF Undisturbed
<1>2. AwayOnly
  <2>1. \A q \in Procs : SwappedOnly(q)
    BY DEF SwappedOnly
  <2> QED
    BY <2>1, NoneAway
<1>3. Fewer
  <2>1. DyingStay
    BY DEF DyingStay
  <2> QED
    BY <2>1, SameList DEF Control
<1>4. Swap'
  BY <1>2, AwaySwap DEF Safe
<1>5. Exclusive => Exclusive'
  <2>1. NoNew
    <3> SUFFICES ASSUME NEW f \in Frames, NEW q \in Procs, NEW v \in Pages
                 PROVE  Claim(f, q, v)' => Claim(f, q, v)
      BY DEF NoNew
    <3>1. ListedAs(f, q, v)' => ListedAs(f, q, v)
      BY <1>3 DEF Fewer
    <3> QED
      BY <1>1, <3>1, OtherClaims
  <2>2. pool' \subseteq Frames /\ \A f \in pool' : f \in pool
    BY DEF Control, Types
  <2>3. OneClaim => OneClaim'
    BY <2>1, <2>2, ClaimsLeft
  <2>4. \A q \in Procs : Place(q) => Place(q)'
    BY <1>1, <1>3, PlaceFewer
  <2> QED
    BY <1>3, <2>3, <2>4 DEF Exclusive, Fewer
<1>6. ASSUME NEW q \in Procs, Memory(q) PROVE Memory(q)'
  <2>1. Undisturbed(q) /\ mem'[q] = mem[q]
    BY <1>1
  <2> QED
    BY <1>2, <1>6, <2>1, MemoryStays DEF AwayOnly
<1> QED
  BY <1>4, <1>5, <1>6 DEF Safe, Alone, Kept

\* A halt.
LEMMA HaltSafe ==
  ASSUME Control, Safe, NEW how, Halt(how)
  PROVE  Safe'
<1>1. /\ UNCHANGED th /\ UNCHANGED pte /\ UNCHANGED spt /\ UNCHANGED pool /\ UNCHANGED content
      /\ UNCHANGED frame_table /\ UNCHANGED swap_table /\ UNCHANGED swapped_data
      /\ UNCHANGED mem /\ UNCHANGED foreign
  BY DEF Halt, kernel, history
<1> QED
  BY <1>1, SameSafe

\* A step that only changes the thread of p, which moves no page.
LEMMA ThreadQuiet ==
  ASSUME NEW p \in Procs, UNCHANGED pte, UNCHANGED spt, UNCHANGED pool, UNCHANGED content,
         UNCHANGED frame_table, UNCHANGED swap_table, UNCHANGED swapped_data, UNCHANGED mem,
         UNCHANGED foreign, \A q \in Procs : q # p => th'[q] = th[q],
         Calm(p), Calm(p)', Young(p)' => Young(p)
  PROVE  Quiet(p)
  BY DEF Quiet, SwappedOnly

\* load: nothing is out yet, and nothing was written.
LEMMA LoadSafe ==
  ASSUME Control, Safe, NEW p \in Procs, load(p)
  PROVE  Safe'
<1> DEFINE T == [v \in CodePages \cup DataPages |-> Executable(v \in DataPages)]
<1>1. /\ th \in [Procs -> Thread] /\ spt \in [Procs -> Tables] /\ th[p].pc = "new"
  BY DEF Control, Types, load, At
<1>2. /\ UNCHANGED pte /\ UNCHANGED pool /\ UNCHANGED content /\ UNCHANGED frame_table
      /\ UNCHANGED swap_table /\ UNCHANGED swapped_data /\ UNCHANGED mem /\ UNCHANGED foreign
  BY DEF load, kernel, history
<1>3. Starts(th', p, "stack", StackPage)
  <2>1. "stack" \in Goals /\ StackPage \in Pages /\ FALSE \in BOOLEAN
    BY DEF Goals, Pages
  <2>2. th' = Want(p, "stack", StackPage, FALSE)
    BY DEF load
  <2> QED
    BY <1>1, <2>1, <2>2, WantThread
<1>4. \A v \in DOMAIN T : T[v].swapped = FALSE
  BY DEF Executable
<1>5. spt' = [spt EXCEPT ![p] = T]
  BY DEF load
<1> HIDE DEF T
<1>6. spt'[p] = T /\ \A q \in Procs : q # p => spt'[q] = spt[q]
  BY <1>1, <1>5
<1>7. SwappedOnly(p)
  BY <1>4, <1>6 DEF SwappedOnly
<1>8. Young(p) /\ Calm(p)
  BY <1>1 DEF Young, Calm, Holding
<1>9. Calm(p)' /\ \A q \in Procs : q # p => th'[q] = th[q]
  BY <1>3 DEF Calm, Holding, Starts
<1>10. Quiet(p)
  BY <1>2, <1>6, <1>7, <1>8, <1>9 DEF Quiet
<1> QED
  BY <1>10, QuietSafe

\* page_fault only changes the thread.
LEMMA PageFaultSafe ==
  ASSUME Control, Safe, NEW p \in Procs, NEW v \in Pages, NEW w \in BOOLEAN, page_fault(p, v, w)
  PROVE  Safe'
<1>1. /\ th \in [Procs -> Thread] /\ th[p] \in Thread /\ th[p].pc = "user"
  BY DEF Control, Types, page_fault, At
<1>2. /\ UNCHANGED pte /\ UNCHANGED spt /\ UNCHANGED pool /\ UNCHANGED content
      /\ UNCHANGED frame_table /\ UNCHANGED swap_table /\ UNCHANGED swapped_data
      /\ UNCHANGED mem /\ UNCHANGED foreign
  BY DEF page_fault, kernel, history
<1>3. PICK unset \in BOOLEAN :
       th' = IF Refused(p, v, w, unset)
             THEN [th EXCEPT ![p] = [@ EXCEPT !.pc = "exit", !.leaving = TRUE]]
             ELSE Want(p, IF page_lookup(p, v) THEN "page" ELSE "grow", v, w)
  BY DEF page_fault
<1>4. /\ \A q \in Procs : q # p => th'[q] = th[q]
      /\ th'[p].pc = "exit" \/ (th'[p].pc = "frame" /\ th'[p].goal # "stack")
  <2>1. CASE Refused(p, v, w, unset)
    <3> DEFINE r == [th[p] EXCEPT !.pc = "exit", !.leaving = TRUE]
    <3>1. th' = [th EXCEPT ![p] = r]
      BY <1>3, <2>1
    <3>2. r \in Thread /\ r.pc = "exit"
      BY <1>1, ExitFields
    <3> HIDE DEF r
    <3> QED
      BY <1>1, <3>1, <3>2, ThreadReplaced
  <2>2. CASE ~Refused(p, v, w, unset)
    <3>1. PICK g : g = IF page_lookup(p, v) THEN "page" ELSE "grow"
      OBVIOUS
    <3>2. g = "page" \/ g = "grow"
      BY <3>1
    <3>3. g \in Goals
      BY <3>2 DEF Goals
    <3>4. Starts(th', p, g, v)
      BY <1>1, <1>3, <2>2, <3>1, <3>3, WantThread
    <3> QED
      BY <3>2, <3>4 DEF Starts
  <2> QED
    BY <2>1, <2>2
<1>5. Calm(p) /\ Calm(p)' /\ ~Young(p)'
  BY <1>1, <1>4 DEF Calm, Holding, Young, Faulting
<1>6. Quiet(p)
  BY <1>2, <1>4, <1>5, ThreadQuiet
<1> QED
  BY <1>6, QuietSafe

\* exit only changes the thread.
LEMMA ExitSafe ==
  ASSUME Control, Safe, NEW p \in Procs, exit(p)
  PROVE  Safe'
<1>1. /\ th \in [Procs -> Thread] /\ th[p] \in Thread /\ th[p].pc = "user"
  BY DEF Control, Types, exit, At
<1>2. /\ UNCHANGED pte /\ UNCHANGED spt /\ UNCHANGED pool /\ UNCHANGED content
      /\ UNCHANGED frame_table /\ UNCHANGED swap_table /\ UNCHANGED swapped_data
      /\ UNCHANGED mem /\ UNCHANGED foreign
  BY DEF exit, kernel, history
<1> DEFINE r == [th[p] EXCEPT !.pc = "exit", !.leaving = TRUE]
<1>3. th' = [th EXCEPT ![p] = r]
  BY DEF exit
<1>4. r \in Thread /\ r.pc = "exit"
  BY <1>1, ExitFields
<1> HIDE DEF r
<1>5. th'[p].pc = "exit" /\ \A q \in Procs : q # p => th'[q] = th[q]
  BY <1>1, <1>3, <1>4, ThreadReplaced
<1>6. Calm(p) /\ Calm(p)' /\ ~Young(p)'
  BY <1>1, <1>5 DEF Calm, Holding, Young, Faulting
<1>7. Quiet(p)
  BY <1>2, <1>5, <1>6, ThreadQuiet
<1> QED
  BY <1>7, QuietSafe

\* munmap takes the file system lock.
LEMMA MunmapSafe ==
  ASSUME Control, Safe, NEW p \in Procs, munmap(p)
  PROVE  Safe'
<1>1. /\ th \in [Procs -> Thread]
      /\ th[p] \in Thread
      /\ th[p].pc = "user" \/ th[p].pc = "exit"
  BY DEF Control, Types, munmap, At
<1>2. /\ UNCHANGED pte /\ UNCHANGED spt /\ UNCHANGED pool /\ UNCHANGED content
      /\ UNCHANGED frame_table /\ UNCHANGED swap_table /\ UNCHANGED swapped_data
      /\ UNCHANGED mem /\ UNCHANGED foreign
  BY DEF munmap, kernel, history
<1> DEFINE r == [th[p] EXCEPT !.pc = "munmap", !.iter = 1]
<1>3. th' = [th EXCEPT ![p] = r]
  BY DEF munmap
<1>4. th[p] \in Thread => r.pc = "munmap"
  BY DEF Thread
<1>5. th[p] \in Thread
  BY <1>1
<1> HIDE DEF r
<1>6. th'[p].pc = "munmap" /\ \A q \in Procs : q # p => th'[q] = th[q]
  BY <1>1, <1>3, <1>4, <1>5
<1>7. Calm(p) /\ Calm(p)' /\ ~Young(p)'
  BY <1>1, <1>6 DEF Calm, Holding, Young, Faulting
<1>8. Quiet(p)
  BY <1>2, <1>6, <1>7, ThreadQuiet
<1> QED
  BY <1>8, QuietSafe

\* close asks for the first page of the mapping, or closes the file.
LEMMA CloseSafe ==
  ASSUME Control, Safe, NEW p \in Procs, close(p)
  PROVE  Safe'
<1>1. /\ th \in [Procs -> Thread] /\ th[p].pc = "user"
  BY DEF Control, Types, close, At
<1>2. /\ UNCHANGED pte /\ UNCHANGED spt /\ UNCHANGED pool /\ UNCHANGED content
      /\ UNCHANGED frame_table /\ UNCHANGED swap_table /\ UNCHANGED swapped_data
      /\ UNCHANGED mem /\ UNCHANGED foreign
  BY DEF close, kernel, history
<1>3. CASE th' = th
  BY <1>2, <1>3, SameSafe
<1>4. CASE th' # th
  <2>1. th' = Want(p, "lazy", Region[1], FALSE)
    BY <1>4 DEF close
  <2>2. "lazy" \in Goals /\ FALSE \in BOOLEAN /\ Region[1] \in Pages
    BY Regions DEF Goals, Pages
  <2>3. Starts(th', p, "lazy", Region[1])
    BY <1>1, <2>1, <2>2, WantThread
  <2>4. \A q \in Procs : q # p => th'[q] = th[q]
    BY <2>3 DEF Starts
  <2>5. Calm(p) /\ Calm(p)' /\ ~Young(p)'
    BY <1>1, <2>3 DEF Calm, Holding, Young, Starts
  <2>6. Quiet(p)
    BY <1>2, <2>4, <2>5, ThreadQuiet
  <2> QED
    BY <2>6, QuietSafe
<1> QED
  BY <1>3, <1>4

\* mmap adds entries of mapped pages.
LEMMA MmapSafe ==
  ASSUME Control, Safe, NEW p \in Procs, mmap(p)
  PROVE  Safe'
<1>1. spt \in [Procs -> Tables] /\ th[p].pc = "user"
  BY DEF Control, Types, mmap, At
<1>2. /\ UNCHANGED th /\ UNCHANGED pte /\ UNCHANGED pool /\ UNCHANGED content
      /\ UNCHANGED frame_table /\ UNCHANGED swap_table /\ UNCHANGED swapped_data
      /\ UNCHANGED mem /\ UNCHANGED foreign
  BY DEF mmap, kernel, history
<1>3. PICK dirty \in [MapPages -> BOOLEAN] :
        spt' = [spt EXCEPT ![p] = Inserted(spt[p], [v \in MapPages |-> Mapped(dirty[v])])]
  BY DEF mmap
<1>4. PICK T : T = Inserted(spt[p], [v \in MapPages |-> Mapped(dirty[v])])
  OBVIOUS
<1>5. /\ DOMAIN T = DOMAIN spt[p] \cup MapPages
      /\ \A v \in DOMAIN spt[p] : v \notin MapPages => T[v] = spt[p][v]
  BY <1>4 DEF Inserted
<1>6. spt'[p] = T /\ \A q \in Procs : q # p => spt'[q] = spt[q]
  BY <1>1, <1>3, <1>4
<1>7. \A v \in DataPages : v \in DOMAIN spt'[p] => v \in DOMAIN spt[p] /\ spt'[p][v] = spt[p][v]
  BY <1>5, <1>6, PageKinds
<1>8. SwappedOnly(p)
  BY <1>7 DEF SwappedOnly
<1>9. Calm(p) /\ Calm(p)' /\ ~Young(p)'
  BY <1>1, <1>2 DEF Calm, Holding, Young, Faulting
<1>10. Quiet(p)
  BY <1>2, <1>6, <1>7, <1>8, <1>9 DEF Quiet
<1> QED
  BY <1>10, QuietSafe

\* Nothing changes.
LEMMA StutterSafe ==
  ASSUME Control, Safe, UNCHANGED vars
  PROVE  Control' /\ Safe'
<1>1. /\ UNCHANGED th /\ UNCHANGED pte /\ UNCHANGED spt /\ UNCHANGED fd
      /\ UNCHANGED pool /\ UNCHANGED content /\ UNCHANGED frame_table
      /\ UNCHANGED swap_table /\ UNCHANGED swapped_data /\ UNCHANGED swap_lock
      /\ UNCHANGED filesys_lock /\ UNCHANGED machine /\ UNCHANGED mem /\ UNCHANGED foreign
  BY DEF vars, kernel, locks, history
<1>2. Types' /\ Table'
  BY <1>1 DEF Control, Types, Table
<1>3. ASSUME NEW p \in Procs PROVE Local(p)'
  <2>1. Local(p)
    BY DEF Control
  <2>2. Fault(p)' /\ Victims(p)' /\ Unmapping(p)'
    BY <1>1, <2>1 DEF Local, Fault, Faulting, Victims, Holding, Unmapping
  <2>3. Entries(p)' /\ Ends(p)'
    BY <1>1, <2>1 DEF Local, Entries, Ends
  <2> QED
    BY <2>2, <2>3 DEF Local
<1>4. Control'
  BY <1>2, <1>3 DEF Control
<1> QED
  BY <1>1, <1>4, SameSafe

-----------------------------------------------------------------------------
(* Steps that move a page.                                                 *)

\* A step of p that uses no frame anew.
Within(p) ==
  /\ \A q \in Procs : q # p => Undisturbed(q)
  /\ \A f \in Frames, q \in Procs, v \in Pages :
       q # p /\ ListedAs(f, q, v)' => ListedAs(f, q, v)
  /\ \A f \in Frames, v \in Pages : Claim(f, p, v)' => Claim(f, p, v)

\* Frame f is in use for p.
Uses(p, f) == \E v \in Pages : Claim(f, p, v)

\* It was, and is no longer.
Released(p, f) == Uses(p, f) /\ ~Uses(p, f)'

\* A frame has one user.
LEMMA OneUser ==
  ASSUME OneClaim, NEW f \in Frames, NEW p \in Procs, NEW q \in Procs, NEW v \in Pages,
         Claim(f, q, v), Uses(p, f)
  PROVE  p = q
<1>1. PICK w \in Pages : Claim(f, p, w)
  BY DEF Uses
<1> QED
  BY <1>1 DEF OneClaim

\* And one page.
LEMMA OnePage ==
  ASSUME OneClaim, NEW f \in Frames, NEW p \in Procs, NEW v \in Pages, NEW w \in Pages,
         Claim(f, p, v), Claim(f, p, w)
  PROVE  v = w
  BY DEF OneClaim

\* After such a step the other processes have their place.
LEMMA WithinPlace ==
  ASSUME Control, Exclusive, NEW p \in Procs, Within(p), NEW q \in Procs, q # p
  PROVE  Place(q)'
<1>1. Place(q) /\ Undisturbed(q) /\ OneClaim /\ Local(q)
  BY DEF Exclusive, Within, Control
<1>2. \A f \in Frames, v \in Pages : ListedAs(f, q, v)' => ListedAs(f, q, v)
  BY DEF Within
<1>3. ASSUME NEW f \in Frames, NEW w \in Pages, Claim(f, q, w), NEW r \in Procs, NEW v \in Pages,
             \A s \in Procs, u \in Pages : ~ListedAs(f, s, u), ListedAs(f, r, v)'
      PROVE  FALSE
  <2>1. CASE r # p
    BY <1>3, <2>1 DEF Within
  <2>2. CASE r = p
    <3>1. Claim(f, p, v)'
      BY <1>3, <2>2 DEF Claim
    <3>2. Claim(f, p, v)
      BY <3>1 DEF Within
    <3> QED
      BY <1>1, <1>3, <3>2 DEF OneClaim
  <2> QED
    BY <2>1, <2>2
<1>4. ASSUME th[q].pc = "save", NEW r \in Procs, NEW v \in Pages
      PROVE  ~ListedAs(th[q].victim.frame, r, v)'
  <2>1. th[q].victim \in FrameEntry
    BY <1>1, <1>4 DEF Local, Victims
  <2>2. PICK f \in Frames : f = th[q].victim.frame
    BY <2>1 DEF FrameEntry
  <2>3. PICK w \in Pages : w = th[q].victim.page
    BY <2>1 DEF FrameEntry
  <2>4. Claim(f, q, w) /\ \A s \in Procs, u \in Pages : ~ListedAs(f, s, u)
    BY <1>1, <1>4, <2>2, <2>3 DEF Claim, Place, Victim
  <2>5. ~ListedAs(f, r, v)'
    BY <1>3, <2>4
  <2>6. f = th'[q].victim.frame
    BY <1>1, <2>2 DEF Undisturbed
  <2> QED
    BY <2>5, <2>6 DEF ListedAs
<1>5. ASSUME th[q].pc = "fill", NEW r \in Procs, NEW v \in Pages
      PROVE  ~ListedAs(th[q].kpage, r, v)'
  <2>1. PICK f \in Frames : f = th[q].kpage
    BY <1>1, <1>5 DEF Local, Victims, Holding
  <2>2. PICK w \in Pages : w = th[q].page
    BY <1>1, <1>5 DEF Local, Fault, Faulting
  <2>3. Claim(f, q, w) /\ \A s \in Procs, u \in Pages : ~ListedAs(f, s, u)
    BY <1>1, <1>5, <2>1, <2>2 DEF Claim, Holding, Place, Unlisted
  <2>4. ~ListedAs(f, r, v)'
    BY <1>3, <2>3
  <2>5. f = th'[q].kpage
    BY <1>1, <2>1 DEF Undisturbed
  <2> QED
    BY <2>4, <2>5 DEF ListedAs
<1> QED
  BY <1>1, <1>2, <1>4, <1>5, PlaceStays

\* Frames have one user, when those p gives up are no longer in use for it.
LEMMA KeepExclusive ==
  ASSUME Control, Exclusive, NEW p \in Procs, Within(p), OneListing', Place(p)',
         pool' \subseteq Frames, \A f \in pool' : f \in pool \/ Released(p, f)
  PROVE  Exclusive'
<1>1. OneClaim
  BY DEF Exclusive
<1>2. NoNew
  <2> SUFFICES ASSUME NEW f \in Frames, NEW q \in Procs, NEW v \in Pages, Claim(f, q, v)'
               PROVE  Claim(f, q, v)
    BY DEF NoNew
  <2>1. CASE q = p
    BY <2>1 DEF Within
  <2>2. CASE q # p
    <3>1. Undisturbed(q) /\ (ListedAs(f, q, v)' => ListedAs(f, q, v))
      BY <2>2 DEF Within
    <3> QED
      BY <3>1, OtherClaims
  <2> QED
    BY <2>1, <2>2
<1>3. ASSUME NEW f \in pool', f \notin pool, NEW q \in Procs, NEW v \in Pages, Claim(f, q, v)'
      PROVE  FALSE
  <2>1. Released(p, f) /\ f \in Frames
    BY <1>3
  <2>2. Claim(f, q, v)
    BY <1>2, <1>3, <2>1 DEF NoNew
  <2>3. q = p
    BY <1>1, <2>1, <2>2, OneUser DEF Released
  <2> QED
    BY <1>3, <2>1, <2>3 DEF Released, Uses
<1>4. OneClaim'
  BY <1>1, <1>2, <1>3, ClaimsLeft
<1> QED
  BY <1>4, WithinPlace DEF Exclusive

\* The other processes find their pages, when only frames of p are written.
LEMMA KeepMemory ==
  ASSUME Control, OneClaim, NEW p \in Procs, \A q \in Procs : q # p => Undisturbed(q),
         \A q \in Procs : q # p => mem'[q] = mem[q],
         \A f \in Frames : content'[f] = content[f] \/ Uses(p, f),
         \A q \in Procs, v \in Pages : q # p /\ Away(q, v)' =>
           Away(q, v) /\ swapped_data'[spt[q][v].slot] = swapped_data[spt[q][v].slot],
         \A q \in Procs : Memory(q), Memory(p)'
  PROVE  \A q \in Procs : Memory(q)'
<1> SUFFICES ASSUME NEW q \in Procs, q # p PROVE Memory(q)'
  OBVIOUS
<1>1. Undisturbed(q) /\ mem'[q] = mem[q] /\ Memory(q)
  OBVIOUS
<1>2. ASSUME NEW f \in Frames, NEW v \in Pages, Claim(f, q, v) PROVE content'[f] = content[f]
  BY <1>2, OneUser
<1>3. \A v \in Pages : Away(q, v)' =>
        Away(q, v) /\ swapped_data'[spt[q][v].slot] = swapped_data[spt[q][v].slot]
  OBVIOUS
<1> QED
  BY <1>1, <1>2, <1>3, MemoryStays

\* The parts of Safe one by one.
LEMMA SafeParts ==
  ASSUME Safe, Swap', foreign => foreign',
         ASSUME ~foreign, ~foreign', Exclusive PROVE Exclusive',
         ASSUME ~foreign, ~foreign', Exclusive, \A q \in Procs : Memory(q)
         PROVE  \A q \in Procs : Memory(q)'
  PROVE  Safe'
  BY DEF Safe, Alone, Kept

\* A write by the process itself.
LEMMA UserWriteSafe ==
  ASSUME Control, Safe, NEW p \in Procs, NEW v \in Pages, UserWrite(p, v)
  PROVE  Safe'
<1>1. /\ th[p].pc = "user" /\ v \notin CodePages /\ v \notin MapPages /\ pte[p][v] # NULL
      /\ UNCHANGED th /\ UNCHANGED pte /\ UNCHANGED spt /\ UNCHANGED pool
      /\ UNCHANGED frame_table /\ UNCHANGED swap_table /\ UNCHANGED swapped_data
      /\ UNCHANGED foreign
      /\ content' = [content EXCEPT ![pte[p][v]] = Written(p, v)]
      /\ mem' = [mem EXCEPT ![p][v] = Written(p, v)]
  BY DEF UserWrite, At
<1>2. /\ content \in [Frames -> Contents] /\ mem \in [Procs -> [Pages -> Contents]]
      /\ mem[p] \in [Pages -> Contents]
  BY DEF Control, Types
<1>3. PICK f \in Frames : f = pte[p][v]
  BY <1>1, PresentClaims
<1>4. content'[f] = Written(p, v) /\ \A g \in Frames : g # f => content'[g] = content[g]
  BY <1>1, <1>2, <1>3
<1>5. /\ \A q \in Procs : q # p => mem'[q] = mem[q]
      /\ mem'[p][v] = Written(p, v) /\ \A u \in Pages : u # v => mem'[p][u] = mem[p][u]
  BY <1>1, <1>2
<1>6. \A q \in Procs : Undisturbed(q)
  BY <1>1 DEF Undisturbed
<1>7. AwayOnly
  <2>1. \A q \in Procs : SwappedOnly(q)
    BY <1>1 DEF SwappedOnly
  <2> QED
    BY <1>1, <2>1, NoneAway
<1>8. Swap'
  BY <1>1, <1>7, AwaySwap DEF Safe
<1>9. Fewer
  <2>1. DyingStay
    BY <1>1 DEF DyingStay
  <2> QED
    BY <1>1, <2>1, SameList DEF Control
<1>10. ASSUME Exclusive PROVE Exclusive'
  <2>1. Within(p)
    <3>1. \A g \in Frames, u \in Pages : Claim(g, p, u)' => Claim(g, p, u)
      BY <1>6, <1>9, OtherClaims DEF Fewer
    <3> QED
      BY <1>6, <1>9, <3>1 DEF Within, Fewer
  <2>2. Place(p)' /\ OneListing'
    BY <1>6, <1>9, <1>10, PlaceFewer DEF Exclusive, Fewer
  <2>3. pool' \subseteq Frames /\ \A g \in pool' : g \in pool
    BY <1>1 DEF Control, Types
  <2> QED
    BY <1>10, <2>1, <2>2, <2>3, KeepExclusive
<1>11. ASSUME Exclusive, \A q \in Procs : Memory(q) PROVE \A q \in Procs : Memory(q)'
  <2>1. OneClaim /\ Place(p) /\ Memory(p) /\ Claim(f, p, v)
    BY <1>3, <1>11 DEF Exclusive, Claim
  <2>2. InMemory(p)'
    <3> SUFFICES ASSUME NEW u \in Pages \ MapPages, pte[p][u] # NULL, u # v
                 PROVE  content'[pte[p][u]] = mem'[p][u]
      BY <1>1, <1>3, <1>4, <1>5 DEF InMemory
    <3>1. PICK g \in Frames : g = pte[p][u]
      BY PresentClaims
    <3>2. Claim(g, p, u) /\ content[g] = mem[p][u]
      BY <2>1, <3>1 DEF Claim, Memory, InMemory
    <3>3. g # f
      BY <2>1, <3>2, OnePage
    <3> QED
      BY <1>4, <1>5, <3>1, <3>2, <3>3
  <2>3. InSwap(p)'
    <3> SUFFICES ASSUME NEW u \in Pages, Away(p, u)'
                 PROVE  swapped_data[spt[p][u].slot] = mem'[p][u]
      BY <1>1 DEF InSwap
    <3>1. Away(p, u)
      BY <1>7 DEF AwayOnly
    <3>2. u # v
      BY <1>1, <2>1, <3>1 DEF Place, Here, Away
    <3>3. swapped_data[spt[p][u].slot] = mem[p][u]
      BY <2>1, <3>1 DEF Memory, InSwap
    <3> QED
      BY <1>5, <3>2, <3>3
  <2>4. GoingOut(p)' /\ ComingIn(p)' /\ ~Young(p)'
    BY <1>1 DEF GoingOut, ComingIn, Young, Faulting
  <2>5. Unread(p)'
    <3>1. Unread(p)
      BY <2>1 DEF Memory
    <3>2. ASSUME NEW u \in CodePages PROVE mem'[p][u] = Loaded(p, u)
      <4>1. u # v /\ u \in Pages
        BY <1>1 DEF Pages
      <4> QED
        BY <1>5, <3>1, <4>1 DEF Unread
    <3>3. ASSUME NEW u \in DataPages, u \in DOMAIN spt[p], ~spt[p][u].swapped, pte[p][u] = NULL
          PROVE  mem'[p][u] = Loaded(p, u)
      <4>1. u # v /\ u \in Pages
        BY <1>1, <3>3 DEF Pages
      <4>2. mem[p][u] = Loaded(p, u)
        BY <1>1, <3>1, <3>3 DEF Unread, Installing
      <4> QED
        BY <1>5, <4>1, <4>2
    <3> QED
      BY <1>1, <2>4, <3>2, <3>3 DEF Unread
  <2>6. Memory(p)'
    BY <2>2, <2>3, <2>4, <2>5 DEF Memory
  <2>7. \A g \in Frames : content'[g] = content[g] \/ Uses(p, g)
    BY <1>4, <2>1 DEF Uses
  <2> QED
    BY <1>1, <1>5, <1>6, <1>7, <1>11, <2>1, <2>6, <2>7, KeepMemory DEF AwayOnly
<1> QED
  BY <1>1, <1>8, <1>10, <1>11, SafeParts

-----------------------------------------------------------------------------
(* Steps that move a page, continued: pages are dropped.                   *)

\* A step by which p gives up pages and the frames S.
Drops(p, S) ==
  /\ ~Holding(p) /\ th[p].pc # "save" /\ ~Holding(p)' /\ th'[p].pc # "save" /\ ~Young(p)'
  /\ \A q \in Procs : q # p => th'[q] = th[q] /\ spt'[q] = spt[q] /\ pte'[q] = pte[q]
  /\ \A v \in Pages : pte'[p][v] = pte[p][v] \/ pte'[p][v] = NULL
  /\ \A v \in DataPages : pte'[p][v] = pte[p][v] \/ th'[p].pc = "dying"
  /\ Fewer /\ SwappedOnly(p)
  /\ \A v \in DataPages : v \in DOMAIN spt'[p] /\ ~spt'[p][v].swapped =>
       v \in DOMAIN spt[p] /\ ~spt[p][v].swapped /\ th[p].pc # "dying"
  /\ \A f \in pool' : f \in pool \/ f \in S
  /\ \A f \in Frames : f \notin S => content'[f] = content[f]
  /\ UNCHANGED swap_table /\ UNCHANGED swapped_data /\ UNCHANGED mem /\ UNCHANGED foreign

\* The process keeps the other frames.
LEMMA DropsExclusive ==
  ASSUME Control, Control', Exclusive, NEW p \in Procs, NEW S, Drops(p, S),
         \A f \in S : Released(p, f)
  PROVE  Exclusive'
<1>1. /\ ~Holding(p)' /\ th'[p].pc # "save" /\ Fewer /\ SwappedOnly(p)
      /\ th[p].pc # "save" /\ ~Holding(p)
      /\ \A q \in Procs : q # p => th'[q] = th[q] /\ spt'[q] = spt[q] /\ pte'[q] = pte[q]
      /\ \A v \in Pages : pte'[p][v] = pte[p][v] \/ pte'[p][v] = NULL
      /\ \A v \in DataPages : pte'[p][v] = pte[p][v] \/ th'[p].pc = "dying"
      /\ \A f \in pool' : f \in pool \/ f \in S
  BY DEF Drops
<1>2. NULL \notin Frames /\ Place(p)
  BY PageKinds DEF Exclusive
<1>3. Within(p)
  <2>1. \A q \in Procs : q # p => Undisturbed(q)
    BY <1>1 DEF Undisturbed
  <2>2. ASSUME NEW g \in Frames, NEW v \in Pages, Claim(g, p, v)' PROVE Claim(g, p, v)
    <3>1. CASE pte'[p][v] = g
      BY <1>1, <1>2, <3>1 DEF Claim
    <3>2. CASE ListedAs(g, p, v)'
      BY <1>1, <3>2 DEF Claim, Fewer
    <3> QED
      BY <1>1, <2>2, <3>1, <3>2 DEF Claim
  <2> QED
    BY <1>1, <2>1, <2>2 DEF Within, Fewer
<1>4. Place(p)'
  <2>1. Victim(p)' /\ Unlisted(p)'
    BY <1>1 DEF Victim, Unlisted, Holding
  <2>2. Exact(p)'
    <3> SUFFICES ASSUME NEW g \in Frames, NEW v \in DataPages, ListedAs(g, p, v)'
                 PROVE  pte'[p][v] = g
      BY DEF Exact
    <3>1. v \in Pages
      BY DEF Pages
    <3>2. th'[p].pc # "dying"
      BY DEF ListedAs, Listed
    <3>3. ListedAs(g, p, v)
      BY <1>1, <3>1 DEF Fewer
    <3>4. pte[p][v] = g
      BY <1>1, <1>2, <3>3 DEF Place, Exact, Installing, Holding
    <3> QED
      BY <1>1, <3>2, <3>4
  <2>3. Here(p)'
    <3> SUFFICES ASSUME NEW v \in DataPages, v \in DOMAIN spt'[p], pte'[p][v] # NULL,
                        spt'[p][v].swapped
                 PROVE  FALSE
      BY <1>1 DEF Here, Installing, Holding
    <3>1. pte[p][v] # NULL
      BY <1>1 DEF Pages
    <3> QED
      BY <1>1, <1>2, <3>1 DEF Place, Here, SwappedOnly
  <2> QED
    BY <2>1, <2>2, <2>3 DEF Place
<1>5. OneListing' /\ pool' \subseteq Frames
  BY <1>1 DEF Exclusive, Fewer, Control, Types
<1>6. \A f \in pool' : f \in pool \/ Released(p, f)
  BY <1>1
<1> QED
  BY <1>3, <1>4, <1>5, <1>6, KeepExclusive

\* And what they hold.
LEMMA DropsMemory ==
  ASSUME Control, Control', Exclusive, NEW p \in Procs, NEW S, Drops(p, S), AwayOnly,
         \A f \in S : Released(p, f), \A q \in Procs : Memory(q)
  PROVE  \A q \in Procs : Memory(q)'
<1>1. /\ ~Holding(p)' /\ th'[p].pc # "save" /\ ~Young(p)' /\ ~Holding(p)
      /\ \A q \in Procs : q # p => th'[q] = th[q] /\ spt'[q] = spt[q] /\ pte'[q] = pte[q]
      /\ \A v \in Pages : pte'[p][v] = pte[p][v] \/ pte'[p][v] = NULL
      /\ \A f \in Frames : f \notin S => content'[f] = content[f]
      /\ UNCHANGED swapped_data /\ UNCHANGED mem
  BY DEF Drops
<1>2. /\ \A v \in DataPages : pte'[p][v] = pte[p][v] \/ th'[p].pc = "dying"
      /\ \A v \in DataPages : v \in DOMAIN spt'[p] /\ ~spt'[p][v].swapped =>
           v \in DOMAIN spt[p] /\ ~spt[p][v].swapped /\ th[p].pc # "dying"
  BY DEF Drops
<1>3. Memory(p) /\ OneClaim
  BY DEF Exclusive
<1>4. \A q \in Procs : q # p => Undisturbed(q)
  BY <1>1 DEF Undisturbed
<1>5. InMemory(p)'
  <2> SUFFICES ASSUME NEW v \in Pages \ MapPages, pte'[p][v] # NULL
               PROVE  content'[pte'[p][v]] = mem[p][v]
    BY <1>1 DEF InMemory
  <2>1. pte'[p][v] = pte[p][v]
    BY <1>1
  <2>2. PICK g \in Frames : g = pte[p][v]
    BY <2>1, PresentClaims
  <2>3. content[g] = mem[p][v]
    BY <1>3, <2>1, <2>2 DEF Memory, InMemory
  <2>4. g \notin S
    <3>1. Claim(g, p, v)'
      BY <2>1, <2>2 DEF Claim
    <3> QED
      BY <3>1 DEF Released, Uses
  <2> QED
    BY <1>1, <2>1, <2>2, <2>3, <2>4
<1>6. InSwap(p)'
  BY <1>1, <1>3 DEF Memory, InSwap, AwayOnly
<1>7. GoingOut(p)' /\ ComingIn(p)'
  BY <1>1 DEF GoingOut, ComingIn, Holding
<1>8. Unread(p)'
  <2>1. Unread(p)
    BY <1>3 DEF Memory
  <2>2. ASSUME NEW v \in DataPages, v \in DOMAIN spt'[p], ~spt'[p][v].swapped, pte'[p][v] = NULL,
               th'[p].pc # "dying"
        PROVE  mem[p][v] = Loaded(p, v)
    <3>1. v \in DOMAIN spt[p] /\ ~spt[p][v].swapped /\ th[p].pc # "dying" /\ pte[p][v] = NULL
      BY <1>2, <2>2
    <3> QED
      BY <1>1, <2>1, <3>1 DEF Unread, Installing, Holding
  <2> QED
    BY <1>1, <2>1, <2>2 DEF Unread
<1>9. Memory(p)'
  BY <1>5, <1>6, <1>7, <1>8 DEF Memory
<1>10. \A g \in Frames : content'[g] = content[g] \/ Uses(p, g)
  BY <1>1 DEF Released
<1> QED
  BY <1>1, <1>3, <1>4, <1>9, <1>10, KeepMemory DEF AwayOnly

\* What is left to show: the frames given up are not in use any more.
LEMMA DropsSafe ==
  ASSUME Control, Control', Safe, NEW p \in Procs, NEW S, Drops(p, S),
         Exclusive => \A f \in S : Released(p, f)
  PROVE  Safe'
<1>1. AwayOnly
  <2>1. \A q \in Procs : SwappedOnly(q)
    BY DEF Drops, SwappedOnly
  <2>2. \A q \in Procs : th[q].pc = "save" => th'[q].pc = "save" /\ th'[q].victim = th[q].victim
    BY DEF Drops
  <2> QED
    BY <2>1, <2>2, NoneAway
<1>2. Swap' /\ UNCHANGED foreign
  BY <1>1, AwaySwap DEF Drops, Safe
<1>3. Exclusive => Exclusive'
  BY DropsExclusive
<1>4. Exclusive /\ (\A q \in Procs : Memory(q)) => \A q \in Procs : Memory(q)'
  BY <1>1, DropsMemory
<1> QED
  BY <1>2, <1>3, <1>4, SafeParts

\* One turn of the loop of munmap.
LEMMA MunmapPageSafe ==
  ASSUME Control, Control', Safe, NEW p \in Procs, MunmapPage(p)
  PROVE  Safe'
<1>1. /\ th \in [Procs -> Thread] /\ th[p] \in Thread /\ th[p].pc = "munmap" /\ Local(p)
      /\ spt \in [Procs -> Tables] /\ Types /\ th[p].iter <= Len(Region)
      /\ pte \in [Procs -> [Pages -> Frames \cup {NULL}]] /\ fd[p] = "mapped"
  BY DEF Control, Types, MunmapPage, At, Local, Unmapping
<1>2. /\ UNCHANGED pool /\ UNCHANGED content /\ UNCHANGED frame_table
      /\ UNCHANGED swap_table /\ UNCHANGED swapped_data /\ UNCHANGED mem /\ UNCHANGED foreign
  BY DEF MunmapPage, kernel, history
<1>3. PICK v : v = Region[th[p].iter]
  OBVIOUS
<1>4. v \in MapPages /\ v \in Pages /\ Region[1] \in MapPages /\ Region[1] \in DOMAIN spt[p]
  <2>1. th[p].iter \in 1..Len(Region)
    BY <1>1, Regions, SMT DEF Local, Unmapping, Thread
  <2> QED
    BY <1>1, <1>3, <2>1, Regions DEF Local, Entries, Pages
<1>5. CASE th' = Want(p, "page", v, FALSE) /\ UNCHANGED <<pte, spt>>
  <2>1. "page" \in Goals /\ FALSE \in BOOLEAN
    BY DEF Goals
  <2>2. Starts(th', p, "page", v)
    BY <1>1, <1>4, <1>5, <2>1, WantThread
  <2>3. UNCHANGED pte /\ UNCHANGED spt
    BY <1>5
  <2>4. \A q \in Procs : q # p => th'[q] = th[q]
    BY <2>2 DEF Starts
  <2>5. Calm(p) /\ Calm(p)' /\ ~Young(p)'
    BY <1>1, <2>2 DEF Calm, Holding, Young, Starts
  <2>6. Quiet(p)
    BY <1>2, <2>3, <2>4, <2>5, ThreadQuiet
  <2> QED
    BY <2>6, QuietSafe
<1>6. CASE /\ spt' = [spt EXCEPT ![p][Region[1]] = [spt[p][Region[1]] EXCEPT !.mid = FALSE]]
           /\ pte' = pagedir_clear_page(p, v)
           /\ th' = [th EXCEPT ![p] = [th[p] EXCEPT !.iter = th[p].iter + 1]]
  <2>1. Sets(pte', p, v, NULL)
    <3>1. NULL \in Frames \cup {NULL}
      OBVIOUS
    <3> QED
      BY <1>1, <1>4, <1>6, <3>1, PteChanges DEF pagedir_clear_page
  <2>2. Changes(spt', p, Region[1])
    <3>1. PICK e \in Entry : e = spt[p][Region[1]]
      BY <1>1, <1>4, EntryTypes
    <3>2. PICK r : r = [e EXCEPT !.mid = FALSE]
      OBVIOUS
    <3>3. r \in Entry
      BY <3>2 DEF Entry
    <3>4. spt' = [spt EXCEPT ![p][Region[1]] = r]
      BY <1>6, <3>1, <3>2
    <3> QED
      BY <1>1, <1>4, <3>3, <3>4, EntryChangesTo
  <2>3. th'[p].pc = "munmap" /\ \A q \in Procs : q # p => th'[q] = th[q]
    <3>1. PICK r : r = [th[p] EXCEPT !.iter = th[p].iter + 1]
      OBVIOUS
    <3>2. r.pc = th[p].pc
      BY <1>1, <3>1 DEF Thread
    <3> QED
      BY <1>1, <1>6, <3>1, <3>2
  <2>4. Fewer
    <3>1. DyingStay
      BY <1>1, <2>3 DEF DyingStay
    <3> QED
      BY <1>1, <1>2, <3>1, SameList
  <2>5. \A u \in DataPages : u # v /\ u # Region[1] /\ u \in Pages
    BY <1>4, PageKinds DEF Pages
  <2>6. \A u \in DataPages : u \in DOMAIN spt'[p] => u \in DOMAIN spt[p] /\ spt'[p][u] = spt[p][u]
    BY <2>2, <2>5 DEF Changes
  <2>7. Drops(p, {})
    <3>1. SwappedOnly(p)
      BY <2>6 DEF SwappedOnly
    <3>2. \A q \in Procs : q # p => th'[q] = th[q] /\ spt'[q] = spt[q] /\ pte'[q] = pte[q]
      BY <2>1, <2>2, <2>3 DEF Sets, Changes
    <3>3. \A u \in Pages : pte'[p][u] = pte[p][u] \/ pte'[p][u] = NULL
      BY <2>1 DEF Sets
    <3>4. \A u \in DataPages : pte'[p][u] = pte[p][u]
      BY <2>1, <2>5 DEF Sets
    <3>5. ~Holding(p) /\ ~Holding(p)' /\ ~Young(p)' /\ th[p].pc # "save" /\ th'[p].pc # "save"
      BY <1>1, <2>3 DEF Holding, Young, Faulting
    <3> QED
      BY <1>1, <1>2, <2>4, <2>6, <3>1, <3>2, <3>3, <3>4, <3>5 DEF Drops
  <2> QED
    BY <2>7, DropsSafe
<1> QED
  BY <1>3, <1>5, <1>6 DEF MunmapPage

\* process_exit frees the frames of the pages that are present.
LEMMA ProcessExitSafe ==
  ASSUME Control, Control', Safe, NEW p \in Procs, process_exit(p)
  PROVE  Safe'
<1>1. CASE Halt("panic")
  BY <1>1, HaltSafe
<1>2. CASE ~Halt("panic")
  <2> DEFINE frames == {pte[p][v] : v \in Present(p)}
  <2>1. /\ th \in [Procs -> Thread] /\ th[p].pc = "exit" /\ Types
        /\ pte \in [Procs -> [Pages -> Frames \cup {NULL}]]
    BY DEF Control, Types, process_exit, At
  <2>2. /\ UNCHANGED spt /\ UNCHANGED frame_table
        /\ UNCHANGED swap_table /\ UNCHANGED swapped_data /\ UNCHANGED mem /\ UNCHANGED foreign
        /\ Free(frames) /\ pte' = [pte EXCEPT ![p] = [v \in Pages |-> NULL]]
        /\ th' = Goto(p, "dying")
    BY <1>2 DEF process_exit, history
  <2>3. \A f \in frames : f \in Frames /\ \E v \in Pages : pte[p][v] = f
    BY <2>1, SMT DEF Present, pagedir_get_page
  <2>4. /\ \A f \in pool' : f \in pool \/ f \in frames
        /\ \A f \in Frames : f \notin frames => content'[f] = content[f]
    BY <2>2 DEF Free
  <2> HIDE DEF frames
  <2>5. /\ \A q \in Procs : q # p => pte'[q] = pte[q]
        /\ \A v \in Pages : pte'[p][v] = NULL
    BY <2>1, <2>2
  <2>6. th'[p].pc = "dying" /\ \A q \in Procs : q # p => th'[q] = th[q]
    <3>1. "dying" \in Points
      BY DEF Points
    <3>2. Moves(th', p, "dying")
      BY <2>1, <2>2, <3>1, GotoThread
    <3> QED
      BY <3>2 DEF Moves
  <2>7. Fewer
    <3>1. DyingStay
      BY <2>6 DEF DyingStay
    <3> QED
      BY <2>1, <2>2, <3>1, SameList
  <2>8. ~Holding(p) /\ ~Holding(p)' /\ ~Young(p)' /\ th[p].pc # "save" /\ th'[p].pc # "save"
    BY <2>1, <2>6 DEF Holding, Young, Faulting
  <2>9. Drops(p, frames)
    <3>1. SwappedOnly(p)
      BY <2>2 DEF SwappedOnly
    <3> QED
      BY <2>1, <2>2, <2>4, <2>5, <2>6, <2>7, <2>8, <3>1 DEF Drops
  <2>10. \A f \in frames : Released(p, f)
    <3> SUFFICES ASSUME NEW f \in frames PROVE Released(p, f)
      OBVIOUS
    <3>1. f \in Frames /\ Uses(p, f)
      BY <2>3 DEF Uses, Claim
    <3>2. ASSUME NEW v \in Pages, Claim(f, p, v)' PROVE FALSE
      <4>1. f # NULL
        BY <3>1, PageKinds
      <4>2. ~ListedAs(f, p, v)'
        BY <2>6 DEF ListedAs, Listed
      <4> QED
        BY <2>5, <2>8, <3>2, <4>1, <4>2 DEF Claim
    <3> QED
      BY <3>1, <3>2 DEF Released, Uses
  <2> QED
    BY <2>9, <2>10, DropsSafe
<1> QED
  BY <1>1, <1>2

\* thread_exit takes what is left of the process from the tables.
LEMMA ThreadExitSafe ==
  ASSUME Control, Control', Safe, NEW p \in Procs, thread_exit(p),
         Thins(frame_table', {i \in DOMAIN frame_table : frame_table[i].owner # p})
  PROVE  Safe'
<1> DEFINE I == {i \in DOMAIN frame_table : frame_table[i].owner # p}
<1>1. /\ th \in [Procs -> Thread] /\ th[p].pc = "dying" /\ Types /\ Types'
      /\ spt \in [Procs -> Tables]
  BY DEF Control, Types, thread_exit, At
<1>2. /\ UNCHANGED pte /\ UNCHANGED pool /\ UNCHANGED content
      /\ UNCHANGED swap_table /\ UNCHANGED swapped_data /\ UNCHANGED mem /\ UNCHANGED foreign
      /\ spt' = [spt EXCEPT ![p] = << >>] /\ th' = Goto(p, "dead")
  BY DEF thread_exit, history
<1>3. I \in SUBSET DOMAIN frame_table /\ \A i \in I : frame_table[i].owner # p
  OBVIOUS
<1>4. Thins(frame_table', I)
  OBVIOUS
<1> HIDE DEF I
<1>5. th'[p].pc = "dead" /\ \A q \in Procs : q # p => th'[q] = th[q]
  <2>1. "dead" \in Points
    BY DEF Points
  <2>2. Moves(th', p, "dead")
    BY <1>1, <1>2, <2>1, GotoThread
  <2> QED
    BY <2>2 DEF Moves
<1>6. DOMAIN spt'[p] = {} /\ \A q \in Procs : q # p => spt'[q] = spt[q]
  <2>1. PICK T : T = << >>
    OBVIOUS
  <2>2. DOMAIN T = {}
    BY <2>1, SMT
  <2> QED
    BY <1>1, <1>2, <2>1, <2>2
<1>7. Fewer
  <2>1. Picks(I)
    BY <1>4 DEF Thins, Picks
  <2>2. \A i \in I : th[frame_table[i].owner].pc = "dying" => th'[frame_table[i].owner].pc = "dying"
    BY <1>1, <1>3, <1>5, FrameTypes
  <2> QED
    BY <1>1, <1>3, <2>1, <2>2, PickedList
<1>8. ~Holding(p) /\ ~Holding(p)' /\ ~Young(p)' /\ th[p].pc # "save" /\ th'[p].pc # "save"
  BY <1>1, <1>5 DEF Holding, Young, Faulting
<1>9. Drops(p, {})
  <2>1. SwappedOnly(p)
    BY <1>6 DEF SwappedOnly
  <2> QED
    BY <1>2, <1>5, <1>6, <1>7, <1>8, <2>1 DEF Drops
<1> QED
  BY <1>9, DropsSafe

\* The end of munmap frees the frames of the mapped pages but the first.
LEMMA MunmapEndSafe ==
  ASSUME Control, Control', Safe, NEW p \in Procs, MunmapEnd(p),
         machine' = "running" => \E I \in SUBSET DOMAIN frame_table : MunmapDone(p, I)
  PROVE  Safe'
<1>1. CASE Halt("lost") \/ Halt("panic")
  BY <1>1, HaltSafe
<1>2. CASE ~(Halt("lost") \/ Halt("panic"))
  <2>1. /\ th \in [Procs -> Thread] /\ th[p] \in Thread /\ th[p].pc = "munmap" /\ Local(p)
        /\ Types /\ Types' /\ spt \in [Procs -> Tables] /\ th[p].iter > Len(Region)
        /\ machine = "running"
    BY DEF Control, Types, MunmapEnd, At
  <2>2. /\ UNCHANGED pte /\ UNCHANGED swap_table /\ UNCHANGED swapped_data
        /\ UNCHANGED machine /\ UNCHANGED mem /\ UNCHANGED foreign
        /\ spt' = [spt EXCEPT ![p] = [v \in DOMAIN spt[p] \ {Region[1]} |-> spt[p][v]]]
        /\ th' = [th EXCEPT ![p] = [th[p] EXCEPT !.pc = IF th[p].leaving THEN "exit" ELSE "user",
                                                 !.iter = 0]]
    BY <1>2 DEF MunmapEnd, history
  <2>3. PICK I \in SUBSET DOMAIN frame_table : MunmapDone(p, I)
    BY <2>1, <2>2
  <2> DEFINE S == {frame_table[i].frame : i \in DOMAIN frame_table \ I}
  <2>4. /\ \A f \in pool' : f \in pool \/ f \in S
        /\ \A f \in Frames : f \notin S => content'[f] = content[f]
    BY <2>3 DEF MunmapDone, Free
  <2>5. \A f \in S : \E i \in DOMAIN frame_table :
          i \notin I /\ Unmapped(p, frame_table[i]) /\ f = frame_table[i].frame
    BY <2>3 DEF MunmapDone
  <2> HIDE DEF S
  <2>6. /\ \A q \in Procs : q # p => th'[q] = th[q]
        /\ th'[p].pc = "user" \/ th'[p].pc = "exit"
    <3>1. PICK x : x = IF th[p].leaving THEN "exit" ELSE "user"
      OBVIOUS
    <3>2. x = "exit" \/ x = "user"
      BY <3>1
    <3>3. PICK r : r = [th[p] EXCEPT !.pc = x, !.iter = 0]
      OBVIOUS
    <3>4. r.pc = x
      BY <2>1, <3>3 DEF Thread
    <3> QED
      BY <2>1, <2>2, <3>1, <3>2, <3>3, <3>4
  <2>7. /\ \A q \in Procs : q # p => spt'[q] = spt[q]
        /\ \A v \in DOMAIN spt'[p] : v \in DOMAIN spt[p] /\ spt'[p][v] = spt[p][v]
    <3>1. PICK T : T = [v \in DOMAIN spt[p] \ {Region[1]} |-> spt[p][v]]
      OBVIOUS
    <3>2. spt'[p] = T /\ \A q \in Procs : q # p => spt'[q] = spt[q]
      BY <2>1, <2>2, <3>1
    <3> QED
      BY <3>1, <3>2
  <2>8. /\ Fewer
        /\ \A f \in Frames, q \in Procs, v \in Pages : ListedAs(f, q, v)' => Among(I, f, q, v)
    <3>1. Picks(I)
      <4>1. PICK g \in [DOMAIN frame_table' -> I] :
              /\ \A k \in DOMAIN frame_table' : frame_table'[k] = Orphan(p, frame_table[g[k]])
              /\ \A j, k \in DOMAIN frame_table' : g[j] = g[k] => j = k
        BY <2>3 DEF MunmapDone
      <4>2. ASSUME NEW k \in DOMAIN frame_table'
            PROVE  /\ frame_table'[k].frame = frame_table[g[k]].frame
                   /\ frame_table'[k].owner = frame_table[g[k]].owner
                   /\ frame_table'[k].page = frame_table[g[k]].page
        <5>1. frame_table[g[k]] \in FrameEntry
          BY <2>1, <4>1, FrameTypes
        <5>2. Stays(frame_table'[k], p, frame_table[g[k]])
          BY <4>1, <5>1, OrphanIs
        <5> QED
          BY <5>2 DEF Stays
      <4> QED
        BY <4>1, <4>2 DEF Picks
    <3>2. \A i \in I : th[frame_table[i].owner].pc = "dying" =>
            th'[frame_table[i].owner].pc = "dying"
      BY <2>1, <2>6, FrameTypes
    <3> QED
      BY <2>1, <3>1, <3>2, PickedList
  <2>9. ~Holding(p) /\ ~Holding(p)' /\ ~Young(p)' /\ th[p].pc # "save" /\ th'[p].pc # "save"
    BY <2>1, <2>6 DEF Holding, Young, Faulting
  <2>10. Drops(p, S)
    <3>1. SwappedOnly(p)
      BY <2>7 DEF SwappedOnly
    <3> QED
      BY <2>1, <2>2, <2>4, <2>6, <2>7, <2>8, <2>9, <3>1 DEF Drops
  <2>11. ASSUME Exclusive, NEW f \in S PROVE Released(p, f)
    <3>1. PICK i \in DOMAIN frame_table :
            i \notin I /\ Unmapped(p, frame_table[i]) /\ f = frame_table[i].frame
      BY <2>5
    <3>2. PICK v : v = frame_table[i].page
      OBVIOUS
    <3>3. i \in Listed /\ f \in Frames /\ v \in MapPages /\ v \in Pages
      BY <2>1, <3>1, <3>2, FrameTypes DEF Listed, Unmapped, Pages
    <3>4. Claim(f, p, v)
      <4>1. ListedAs(f, p, v)
        BY <3>1, <3>2, <3>3 DEF ListedAs, Unmapped
      <4> QED
        BY <4>1 DEF Claim
    <3>5. pte[p][v] = NULL
      <4>1. PICK j \in 1..Len(Region) : Region[j] = v
        BY <3>3, Regions
      <4>2. j < th[p].iter /\ th[p].iter > 0
        BY <2>1, Regions, SMT DEF Thread
      <4> QED
        BY <2>1, <4>1, <4>2 DEF Local, Unmapping
    <3>6. ASSUME NEW w \in Pages, Claim(f, p, w)' PROVE FALSE
      <4>1. f # NULL
        BY <3>3, PageKinds
      <4>2. CASE pte'[p][w] = f
        <5>1. Claim(f, p, w)
          BY <2>2, <4>2 DEF Claim
        <5>2. v = w
          BY <2>11, <3>3, <3>4, <5>1, OnePage DEF Exclusive
        <5> QED
          BY <2>2, <3>5, <4>1, <4>2, <5>2
      <4>3. CASE ListedAs(f, p, w)'
        <5>1. PICK j \in I : j \in Listed /\ frame_table[j].frame = f
          BY <2>8, <3>3, <4>3 DEF Among
        <5> QED
          BY <2>11, <3>1, <3>3, <5>1 DEF Exclusive, OneListing
      <4> QED
        BY <2>9, <3>6, <4>2, <4>3 DEF Claim
    <3> QED
      BY <3>3, <3>4, <3>6 DEF Released, Uses
  <2> QED
    BY <2>10, <2>11, DropsSafe
<1> QED
  BY <1>1, <1>2

===============================================================================
