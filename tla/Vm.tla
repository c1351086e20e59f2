--------------------------------- MODULE Vm ---------------------------------
(***************************************************************************)
(* Demand paging: page faults, the frame table, eviction to swap, mapped   *)
(* files and the end of an address space (vm/*.c, page_fault, the loading  *)
(* part of process.c, mmap, munmap and close of syscall.c, pagedir.c).     *)
(*                                                                         *)
(* Processes interleave wherever the code runs with interrupts on.  What a *)
(* page holds is <<p, v, n>>: page v of process p, as loaded (n = 0) or as *)
(* the process wrote it (n = 1); a page that palloc freed holds Junk.  The *)
(* contents of mapped files are not followed, only where their pages are.  *)
(*                                                                         *)
(* A failed assertion is machine = "panic".  machine = "lost" is a step    *)
(* whose effect the C code leaves undefined, through a pointer to a freed  *)
(* or dead struct; the model does not follow the kernel beyond it.         *)
(* Memory of the kernel pool (page tables, table entries) never runs out.  *)
(***************************************************************************)
EXTENDS Naturals, FiniteSets, Sequences, Functions

CONSTANTS
  Procs,
  CodePages,   \* pages of a read-only segment of the executable
  DataPages,   \* pages of a writable segment
  StackPage,   \* the page setup_stack maps
  GrowPages,   \* pages below it that esp allows the stack to grow into
  Region,      \* the pages the mapped file takes, in order
  Frames,      \* the pages of the user pool
  Slots,       \* runs of eight sectors on the swap device
  Touches,     \* the pages each program uses
  NULL

MapPages == Range(Region)
Pages == CodePages \cup DataPages \cup {StackPage} \cup GrowPages \cup MapPages

ASSUME VmAssumption ==
  /\ Region \in Seq(MapPages) /\ Region # << >> /\ IsInjective(Region)
  /\ NULL \notin Pages \cup Frames \cup Slots \cup Procs
  /\ Touches \in [Procs -> SUBSET Pages]
  /\ LET kinds == <<CodePages, DataPages, {StackPage}, GrowPages, MapPages>>
     IN  \A i, j \in 1..5 : i # j => kinds[i] \cap kinds[j] = {}

VARIABLES
  th,        \* each process: where it is in the kernel and its locals
  pte,       \* its page directory: the frame of each present page
  spt,       \* its supplemental page table
  fd,        \* the descriptor of the file it maps
  pool,      \* free frames
  content,   \* what each frame holds
  frame_table,
  swap_table,   \* slots in use
  swapped_data, \* what each slot holds
  swap_lock, filesys_lock,   \* their holders
  machine,
  mem,       \* history: what each process last put in each page
  foreign    \* history: has swap_out ever taken the frame of another process?

kernel == <<pool, content, frame_table, swap_table, swapped_data>>
locks == <<swap_lock, filesys_lock>>
history == <<mem, foreign>>
vars == <<th, pte, spt, fd, kernel, locks, machine, history>>

Junk == <<NULL, NULL, 0>>
Loaded(p, v) == <<p, v, 0>>
Written(p, v) == <<p, v, 1>>
Contents == {Junk} \cup (Procs \X Pages \X {0, 1})

\* struct sup_page_table_entry; mid says whether it is not NULL.
Entry == [swapped : BOOLEAN, slot : Slots \cup {NULL}, dirty : BOOLEAN, loaded : BOOLEAN,
          load_executable : BOOLEAN, writable : BOOLEAN, mmapped : BOOLEAN, mid : BOOLEAN]

\* struct frame_table_entry; spte says whether its pointer is still good.
FrameEntry == [frame : Frames, owner : Procs, page : Pages, spte : BOOLEAN]

\* A null pointer to an entry is not an entry.
ASSUME EntryAssumption == NULL \notin FrameEntry

Thread == [pc : {"new", "user", "frame", "swap_out", "save", "fill", "install",
                 "munmap", "exit", "dying", "dead"},
           goal : {NULL, "stack", "page", "grow", "lazy", "lazy_again"},
           page : Pages \cup {NULL}, write : BOOLEAN, kpage : Frames \cup {NULL},
           victim : FrameEntry \cup {NULL}, iter : 0..Len(Region)+1, leaving : BOOLEAN]

Init ==
  /\ th = [p \in Procs |-> [pc |-> "new", goal |-> NULL, page |-> NULL, write |-> FALSE,
                            kpage |-> NULL, victim |-> NULL, iter |-> 0, leaving |-> FALSE]]
  /\ pte = [p \in Procs |-> [v \in Pages |-> NULL]]
  /\ spt = [p \in Procs |-> << >>]
  /\ fd = [p \in Procs |-> "open"]
  /\ pool = Frames
  /\ content = [f \in Frames |-> Junk]
  /\ frame_table = << >>
  /\ swap_table = {}
  /\ swapped_data = [s \in Slots |-> Junk]
  /\ swap_lock = NULL /\ filesys_lock = NULL
  /\ machine = "running"
  /\ mem = [p \in Procs |-> [v \in Pages |-> Loaded(p, v)]]
  /\ foreign = FALSE

-----------------------------------------------------------------------------
(* Helpers.                                                                *)

At(p, pc) == machine = "running" /\ th[p].pc = pc

Halt(how) ==
  /\ machine' = how
  /\ UNCHANGED <<th, pte, spt, fd, kernel, locks, history>>

Goto(p, pc) == [th EXCEPT ![p].pc = pc]

\* A page is obtained: palloc_get_page, or swap_out until it succeeds.
\* That it was to write is of no consequence later but for mapped pages.
Want(p, goal, v, w) ==
  [th EXCEPT ![p] = [@ EXCEPT !.pc = "frame", !.goal = goal, !.page = v,
                              !.write = w /\ v \in MapPages]]

\* The fault is over: the process goes on in user mode, or in munmap when
\* that was reading the page.
Resume(p) ==
  [th EXCEPT ![p] = [@ EXCEPT !.pc = IF th[p].iter > 0 THEN "munmap" ELSE "user", !.goal = NULL,
                              !.page = NULL, !.write = FALSE, !.kpage = NULL]]

Executable(writable) ==
  [swapped |-> FALSE, slot |-> NULL, dirty |-> FALSE, loaded |-> FALSE,
   load_executable |-> TRUE, writable |-> writable, mmapped |-> FALSE, mid |-> FALSE]

\* mmap leaves dirty as malloc found it.
Mapped(dirty) ==
  [swapped |-> FALSE, slot |-> NULL, dirty |-> dirty, loaded |-> FALSE,
   load_executable |-> FALSE, writable |-> TRUE, mmapped |-> TRUE, mid |-> TRUE]

\* allocate_page leaves writable as malloc found it: see page_fault.
Grown ==
  [swapped |-> FALSE, slot |-> NULL, dirty |-> FALSE, loaded |-> FALSE,
   load_executable |-> FALSE, writable |-> TRUE, mmapped |-> FALSE, mid |-> FALSE]

\* hash_insert of the entries N in the page table T: an old entry stays.
Inserted(T, N) ==
  [v \in DOMAIN T \cup DOMAIN N |-> IF v \in DOMAIN T THEN T[v] ELSE N[v]]

\* allocate_frame: the entry goes to the back of the frame table.
allocate_frame(p, f, v, good) ==
  Append(frame_table, [frame |-> f, owner |-> p, page |-> v, spte |-> good])

\* The page directory of p after a page is entered or cleared, and the pages it
\* finds.
pagedir_set_page(p, v, f) == [pte EXCEPT ![p][v] = f]
pagedir_clear_page(p, v) == [pte EXCEPT ![p][v] = NULL]
pagedir_get_page(p, v) == pte[p][v]
Present(p) == {v \in Pages : pagedir_get_page(p, v) # NULL}

\* A list after list_remove of the elements that are not at the places I.
Rank(I, i) == Cardinality({j \in I : j <= i})
Sublist(s, I) == [k \in 1..Cardinality(I) |-> s[CHOOSE i \in I : Rank(I, i) = k]]

\* Nothing happens when the page is mapped already.
install_page(p, v, f) ==
  IF pagedir_get_page(p, v) = NULL THEN pagedir_set_page(p, v, f) ELSE pte
install_fault_page(p, v, f) == install_page(p, v, f)

\* page_lookup finds the page, among those of the running process.
page_lookup(p, v) == v \in DOMAIN spt[p]

\* palloc_free_page asserts that the page is in use, and overwrites it.
Free(frames) ==
  /\ pool' = pool \cup frames
  /\ content' = [f \in Frames |-> IF f \in frames THEN Junk ELSE content[f]]

\* Mutant: a written data page is taken for one the executable still holds.
MutAnonymous(e) == ~e.mmapped /\ ~e.load_executable

\* The pages whose contents live in swap while they are out.
Anonymous(e) == ~e.mmapped /\ (~e.load_executable \/ e.writable)

-----------------------------------------------------------------------------
(* Loading and running.                                                    *)

\* load and load_segment: an entry for each page, none of them loaded; then
\* setup_stack wants a frame.
load(p) ==
  /\ At(p, "new")
  /\ spt' = [spt EXCEPT ![p] = [v \in CodePages \cup DataPages |-> Executable(v \in DataPages)]]
  /\ th' = Want(p, "stack", StackPage, FALSE)
  /\ UNCHANGED <<pte, fd, kernel, locks, machine, history>>

\* The processor writes a page that is present and writable: a data or stack
\* page, as the contents of mapped pages are not followed.
UserWrite(p, v) ==
  /\ At(p, "user") /\ v \in Touches[p] /\ v \notin CodePages \cup MapPages
  /\ pte[p][v] # NULL
  /\ content' = [content EXCEPT ![pte[p][v]] = Written(p, v)]
  /\ mem' = [mem EXCEPT ![p][v] = Written(p, v)]
  /\ UNCHANGED <<th, pte, spt, fd, pool, frame_table, swap_table, swapped_data, locks,
                 machine, foreign>>

\* page_fault up to the allocation of a frame, or exit(-1).
Refused(p, v, w, unset) ==
  LET e == spt[p][v] IN
    IF ~page_lookup(p, v) THEN v \notin GrowPages
    ELSE (w /\ ~(IF v \in GrowPages THEN unset ELSE e.writable)) \/ (e.mmapped /\ ~e.mid)

page_fault(p, v, w) ==
  /\ At(p, "user") /\ v \in Touches[p]
  /\ pte[p][v] = NULL \/ (w /\ v \in CodePages)
  /\ \E unset \in BOOLEAN :
       th' = IF Refused(p, v, w, unset)
             THEN [th EXCEPT ![p] = [@ EXCEPT !.pc = "exit", !.leaving = TRUE]]
             ELSE Want(p, IF page_lookup(p, v) THEN "page" ELSE "grow", v, w)
  /\ UNCHANGED <<pte, spt, fd, kernel, locks, machine, history>>

\* palloc_get_page.  lazy_file_map tries swap_out only once, and then reads
\* into a null page: the fault exits with filesys_lock held, which munmap
\* asks for again.
palloc_get_page(p) ==
  /\ At(p, "frame")
  /\ \/ \E f \in pool :
          /\ pool' = pool \ {f}
          /\ th' = [th EXCEPT ![p] = [@ EXCEPT !.pc = "fill", !.kpage = f]]
          /\ UNCHANGED <<pte, spt, fd, content, frame_table, swap_table, swapped_data, locks,
                         machine, history>>
     \/ /\ pool = {} /\ th[p].goal # "lazy_again"
        /\ th' = Goto(p, "swap_out")
        /\ UNCHANGED <<pte, spt, fd, kernel, locks, machine, history>>
     \/ pool = {} /\ th[p].goal = "lazy_again" /\ Halt("panic")

-----------------------------------------------------------------------------
(* Eviction.                                                               *)

\* Mutant: the page of the victim stays present.
MutEvicted(p, fte) == pte

\* The page of the victim is cleared in the page directory of the running
\* process, whoever owns it.
Evicted(p, fte) == pagedir_clear_page(p, fte.page)

\* swap_out as far as the victim, the oldest frame in the table.
swap_out(p) ==
  /\ At(p, "swap_out") /\ swap_lock = NULL
  /\ \/ frame_table = << >> /\ Halt("panic")
     \/ frame_table # << >> /\ ~Head(frame_table).spte /\ Halt("lost")
     \/ LET fte == Head(frame_table) IN
          /\ frame_table # << >> /\ fte.spte
          /\ frame_table' = Tail(frame_table)
          /\ swap_lock' = p
          /\ spt' = [spt EXCEPT ![fte.owner][fte.page] = [@ EXCEPT !.swapped = TRUE]]
          /\ pte' = Evicted(p, fte)
          /\ foreign' = (foreign \/ fte.owner # p)
          /\ th' = [th EXCEPT ![p] = [@ EXCEPT !.pc = "save", !.victim = fte]]
          /\ UNCHANGED <<fd, pool, content, swap_table, swapped_data, filesys_lock, machine,
                         mem>>

\* Mutant: the slot is not marked as in use.
MutSaved(fte, s) ==
  /\ swapped_data' = [swapped_data EXCEPT ![s] = content[fte.frame]]
  /\ UNCHANGED swap_table
  /\ spt' = [spt EXCEPT ![fte.owner][fte.page] = [@ EXCEPT !.slot = s]]

\* write_to_disk, bitmap_set_multiple, and the slot noted in the entry.
Saved(fte, s) ==
  /\ swapped_data' = [swapped_data EXCEPT ![s] = content[fte.frame]]
  /\ swap_table' = swap_table \cup {s}
  /\ spt' = [spt EXCEPT ![fte.owner][fte.page] = [@ EXCEPT !.slot = s]]

\* How the rest of swap_out fails.  A changed page of a mapped file is read
\* through its own address, which was cleared above: the fault wants swap_lock,
\* which is held (of another process, the address is one of the running process).
\* Without a free slot, bitmap_scan's error is used as a sector number, which the
\* disk driver refuses.  palloc_free_page asserts that the page is in use.
Dangling(fte) == fte.page \notin DOMAIN spt[fte.owner]
Astray(p, fte) ==
  LET e == spt[fte.owner][fte.page] IN
    ~Dangling(fte) => e.mmapped /\ e.dirty /\ filesys_lock = NULL /\ fte.owner # p
Fatal(p, fte) ==
  LET e == spt[fte.owner][fte.page] IN
    /\ ~Dangling(fte)
    /\ \/ e.mmapped /\ e.dirty /\ (filesys_lock = p \/ (filesys_lock = NULL /\ fte.owner = p))
       \/ Anonymous(e) /\ swap_table = Slots
       \/ (e.mmapped => ~e.dirty) /\ fte.frame \in pool

\* lazy_file_map calls swap_out only once.
Again(goal) == IF goal = "lazy" THEN "lazy_again" ELSE goal

\* The rest of swap_out.
Save(p) ==
  /\ At(p, "save")
  /\ LET fte == th[p].victim  e == spt[fte.owner][fte.page] IN
       \/ Astray(p, fte) /\ Halt("lost")
       \/ Fatal(p, fte) /\ Halt("panic")
       \/ /\ ~Dangling(fte) /\ ~Fatal(p, fte) /\ (e.mmapped => ~e.dirty)
          /\ IF Anonymous(e) THEN \E s \in Slots \ swap_table : Saved(fte, s)
             ELSE UNCHANGED <<spt, swap_table, swapped_data>>
          /\ Free({fte.frame})
          /\ swap_lock' = NULL
          /\ th' = [th EXCEPT ![p] = [@ EXCEPT !.pc = "frame", !.victim = NULL,
                                             !.goal = Again(th[p].goal)]]
          /\ UNCHANGED <<pte, fd, frame_table, filesys_lock, machine, history>>

-----------------------------------------------------------------------------
(* Filling the frame.                                                      *)

\* The entry's file was closed, or never set: allocate_page sets none.
NoFile(p, e) == (~e.load_executable /\ ~e.mmapped) \/ (e.mmapped /\ fd[p] = "closed")

\* loaded, and dirty after a write fault.  Both are read for mapped pages only,
\* and kept for those.
Noted(p) ==
  LET v == th[p].page  e == spt[p][v] IN
    [spt EXCEPT ![p][v] = [e EXCEPT !.loaded = e.mmapped,
                                    !.dirty = e.dirty \/ (e.mmapped /\ th[p].write)]]

FillStack(p) ==
  /\ At(p, "fill") /\ th[p].goal = "stack"
  /\ content' = [content EXCEPT ![th[p].kpage] = Loaded(p, StackPage)]
  /\ pte' = install_page(p, StackPage, th[p].kpage)
  /\ th' = Resume(p)
  /\ UNCHANGED <<spt, fd, pool, frame_table, swap_table, swapped_data, locks, machine,
                 history>>

\* A new stack page keeps what the frame held.  allocate_page returns the
\* address of its own local variable, and that goes into the frame table.
FillGrow(p) ==
  /\ At(p, "fill") /\ th[p].goal = "grow"
  /\ pte' = install_fault_page(p, th[p].page, th[p].kpage)
  /\ spt' = [spt EXCEPT ![p] = Inserted(@, [v \in {th[p].page} |-> Grown])]
  /\ frame_table' = allocate_frame(p, th[p].kpage, th[p].page, FALSE)
  /\ mem' = [mem EXCEPT ![p][th[p].page] = content[th[p].kpage]]
  /\ th' = Resume(p)
  /\ UNCHANGED <<fd, pool, content, swap_table, swapped_data, locks, machine, foreign>>

\* Read from the file, install, and only then enter the frame in the table.
\* In close this is lazy_file_map, and the file is closed after it.
FillFromFile(p) ==
  /\ At(p, "fill") /\ th[p].goal \in {"page", "lazy", "lazy_again"}
  /\ LET v == th[p].page  e == spt[p][v]  closing == th[p].goal # "page" IN
       \/ ~e.swapped /\ NoFile(p, e) /\ Halt("lost")
       \/ /\ ~e.swapped \/ closing
          /\ ~NoFile(p, e)
          /\ content' = [content EXCEPT ![th[p].kpage] = Loaded(p, v)]
          /\ pte' = install_fault_page(p, v, th[p].kpage)
          /\ frame_table' = allocate_frame(p, th[p].kpage, v, TRUE)
          /\ spt' = Noted(p)
          /\ fd' = IF closing THEN [fd EXCEPT ![p] = "closed"] ELSE fd
          /\ filesys_lock' = IF closing THEN NULL ELSE filesys_lock
          /\ th' = Resume(p)
          /\ UNCHANGED <<pool, swap_table, swapped_data, swap_lock, machine, history>>

\* What swap_in reads, and the slots in use after it.  What a free slot holds is
\* never read, nor is the slot of a page that is in: both are forgotten.
SwappedContent(p, v) ==
  IF Anonymous(spt[p][v]) THEN swapped_data[spt[p][v].slot] ELSE Loaded(p, v)

Reclaimed(p, v) ==
  IF Anonymous(spt[p][v]) THEN swap_table \ {spt[p][v].slot} ELSE swap_table

\* swap_in, under swap_lock.  The page is installed after the lock is released.
swap_in(p) ==
  /\ At(p, "fill") /\ th[p].goal = "page" /\ spt[p][th[p].page].swapped
  /\ swap_lock = NULL
  /\ LET v == th[p].page  e == spt[p][v] IN
       \/ e.mmapped /\ NoFile(p, e) /\ Halt("lost")
       \/ /\ ~(e.mmapped /\ NoFile(p, e))
          /\ frame_table' = allocate_frame(p, th[p].kpage, v, TRUE)
          /\ content' = [content EXCEPT ![th[p].kpage] = SwappedContent(p, v)]
          /\ swap_table' = Reclaimed(p, v)
          /\ swapped_data' = [t \in Slots |-> IF t = e.slot THEN Junk ELSE swapped_data[t]]
          /\ spt' = [spt EXCEPT ![p][v] = [e EXCEPT !.swapped = FALSE, !.slot = NULL]]
          /\ th' = Goto(p, "install")
          /\ UNCHANGED <<pte, fd, pool, locks, machine, history>>

Install(p) ==
  /\ At(p, "install")
  /\ pte' = install_fault_page(p, th[p].page, th[p].kpage)
  /\ spt' = Noted(p)
  /\ th' = Resume(p)
  /\ UNCHANGED <<fd, kernel, locks, machine, history>>

-----------------------------------------------------------------------------
(* Mapped files.                                                           *)

\* mmap takes filesys_lock only to ask for the length, which is not 0.
mmap(p) ==
  /\ At(p, "user") /\ fd[p] # "closed" /\ filesys_lock = NULL
  /\ MapPages \subseteq Touches[p] /\ \A v \in MapPages : ~page_lookup(p, v)
  /\ \E dirty \in [MapPages -> BOOLEAN] :
       spt' = [spt EXCEPT ![p] = Inserted(@, [v \in MapPages |-> Mapped(dirty[v])])]
  /\ fd' = [fd EXCEPT ![p] = "mapped"]
  /\ UNCHANGED <<th, pte, kernel, locks, machine, history>>

munmap(p) ==
  /\ At(p, "user") \/ At(p, "exit")
  /\ fd[p] = "mapped" /\ filesys_lock = NULL
  /\ filesys_lock' = p
  /\ th' = [th EXCEPT ![p] = [@ EXCEPT !.pc = "munmap", !.iter = 1]]
  /\ UNCHANGED <<pte, spt, fd, kernel, swap_lock, machine, history>>

\* One turn of the loop.  The dirty and mid it looks at are those of the first
\* page.  Writing back a page that is not present faults on it first.
MunmapPage(p) ==
  /\ At(p, "munmap") /\ th[p].iter <= Len(Region)
  /\ LET v == Region[th[p].iter]
         first == Region[1]
         dirty == spt[p][first].dirty
     IN  \/ /\ dirty /\ pte[p][v] = NULL
            /\ th' = Want(p, "page", v, FALSE)
            /\ UNCHANGED <<pte, spt>>
         \/ /\ dirty => pte[p][v] # NULL
            /\ spt' = [spt EXCEPT ![p][first] = [@ EXCEPT !.mid = FALSE]]
            /\ pte' = pagedir_clear_page(p, v)
            /\ th' = [th EXCEPT ![p] = [@ EXCEPT !.iter = th[p].iter + 1]]
  /\ UNCHANGED <<fd, kernel, locks, machine, history>>

\* The entries the scan of the frame table in munmap finds: mid of the first
\* page is already NULL, and its entry stays behind without its page.
Unmapped(p, fte) == fte.spte /\ fte.owner = p /\ fte.page \in MapPages \ {Region[1]}
Orphan(p, fte) ==
  IF fte.owner = p /\ fte.page = Region[1] THEN [fte EXCEPT !.spte = FALSE] ELSE fte

\* The scan reads spte->mid of every entry, of those without their page too;
\* a frame it frees must be in use.
MunmapEnd(p) ==
  /\ At(p, "munmap") /\ th[p].iter > Len(Region)
  /\ LET found == {i \in DOMAIN frame_table : Unmapped(p, frame_table[i])}
         frames == {frame_table[i].frame : i \in found}
         kept == Sublist(frame_table, DOMAIN frame_table \ found)
         dangling == \E i \in DOMAIN frame_table : ~frame_table[i].spte
         twice == frames \cap pool # {} \/ Cardinality(frames) < Cardinality(found)
     IN  \/ (dangling \/ twice) /\ Halt(IF dangling THEN "lost" ELSE "panic")
         \/ /\ ~twice
            /\ Free(frames)
            /\ frame_table' = [i \in 1..Len(kept) |-> Orphan(p, kept[i])]
            /\ spt' = [spt EXCEPT ![p] = [v \in DOMAIN @ \ {Region[1]} |-> @[v]]]
            /\ fd' = [fd EXCEPT ![p] = "open"]
            /\ filesys_lock' = NULL
            /\ th' = [th EXCEPT ![p] = [@ EXCEPT !.pc = IF th[p].leaving THEN "exit" ELSE "user",
                                               !.iter = 0]]
            /\ UNCHANGED <<pte, swap_table, swapped_data, swap_lock, machine, history>>

\* close loads the first page of a mapping that was never touched, and leaves
\* the mapping in place.
close(p) ==
  /\ At(p, "user") /\ fd[p] # "closed" /\ filesys_lock = NULL
  /\ IF fd[p] = "mapped" /\ ~spt[p][Region[1]].loaded
     THEN /\ filesys_lock' = p
          /\ th' = Want(p, "lazy", Region[1], FALSE)
          /\ fd' = fd
     ELSE /\ fd' = [fd EXCEPT ![p] = "closed"]
          /\ UNCHANGED <<filesys_lock, th>>
  /\ UNCHANGED <<pte, spt, kernel, swap_lock, machine, history>>

-----------------------------------------------------------------------------
(* The end of a process.                                                   *)

exit(p) ==
  /\ At(p, "user")
  /\ th' = [th EXCEPT ![p] = [@ EXCEPT !.pc = "exit", !.leaving = TRUE]]
  /\ UNCHANGED <<pte, spt, fd, kernel, locks, machine, history>>

\* process_exit: pagedir_destroy frees the frame of every present page, while
\* their entries are still in the frame table.
process_exit(p) ==
  /\ At(p, "exit") /\ fd[p] # "mapped"
  /\ LET frames == {pte[p][v] : v \in Present(p)}
         twice == frames \cap pool # {} \/ Cardinality(frames) < Cardinality(Present(p))
     IN  \/ twice /\ Halt("panic")
         \/ /\ ~twice
            /\ Free(frames)
            /\ pte' = [pte EXCEPT ![p] = [v \in Pages |-> NULL]]
            /\ th' = Goto(p, "dying")
            /\ UNCHANGED <<spt, fd, frame_table, swap_table, swapped_data, locks, machine,
                           history>>

\* thread_exit with interrupts off: its frame table entries and its pages.
\* The slots of pages that are out stay in use for good.
thread_exit(p) ==
  /\ At(p, "dying")
  /\ frame_table' = Sublist(frame_table, {i \in DOMAIN frame_table : frame_table[i].owner # p})
  /\ spt' = [spt EXCEPT ![p] = << >>]
  /\ th' = Goto(p, "dead")
  /\ UNCHANGED <<pte, fd, pool, content, swap_table, swapped_data, locks, machine, history>>

Next ==
  \E p \in Procs :
    \/ load(p) \/ palloc_get_page(p)
    \/ swap_out(p) \/ Save(p)
    \/ FillStack(p) \/ FillGrow(p) \/ FillFromFile(p) \/ swap_in(p) \/ Install(p)
    \/ mmap(p) \/ munmap(p) \/ MunmapPage(p) \/ MunmapEnd(p) \/ close(p)
    \/ exit(p) \/ process_exit(p) \/ thread_exit(p)
    \/ \E v \in Pages : UserWrite(p, v)
    \/ \E v \in Pages, w \in BOOLEAN : page_fault(p, v, w)

Spec == Init /\ [][Next]_vars

-----------------------------------------------------------------------------
(* Properties.                                                             *)

\* The types of the variables.
TypeOK ==
  /\ th \in [Procs -> Thread]
  /\ pte \in [Procs -> [Pages -> Frames \cup {NULL}]]
  /\ \A p \in Procs : DOMAIN spt[p] \subseteq Pages /\ \A v \in DOMAIN spt[p] : spt[p][v] \in Entry
  /\ fd \in [Procs -> {"open", "mapped", "closed"}]
  /\ pool \subseteq Frames /\ content \in [Frames -> Contents]
  /\ frame_table \in Seq(FrameEntry)
  /\ swap_table \subseteq Slots /\ swapped_data \in [Slots -> Contents]
  /\ {swap_lock, filesys_lock} \subseteq Procs \cup {NULL}
  /\ machine \in {"running", "panic", "lost"}
  /\ mem \in [Procs -> [Pages -> Contents]] /\ foreign \in BOOLEAN

\* The pages a process reads are its own, as it left them.
Intact == \A p \in Procs, v \in Pages \ MapPages :
            pte[p][v] # NULL => content[pte[p][v]] = mem[p][v]

\* A process never sees that its code, data and stack pages were evicted: what
\* it finds at an address, after any number of faults, evictions and reloads,
\* is what it last wrote there or what the executable holds.  This is the
\* illusion the comment of swap_out asks for.  The code provides it until
\* swap_out takes the frame of another process.
Illusion == machine = "running" /\ ~foreign => Intact

\* The same without the restriction.
IllusionAlways == machine = "running" => Intact

\* The entries of the frame table whose owner is not past pagedir_destroy.
Listed == {i \in 1..Len(frame_table) : th[frame_table[i].owner].pc # "dying"}

\* Every user page is in one place: until swap_out takes the frame of another
\* process, no frame is mapped twice, and a frame that is mapped or listed for
\* a process that still has its pages is listed once and not in the free pool.
FramesExclusive ==
  machine = "running" /\ ~foreign =>
    LET present == {o \in Procs \X Pages : pte[o[1]][o[2]] # NULL}
        mapped == {pte[o[1]][o[2]] : o \in present}
        listed == {frame_table[i].frame : i \in Listed}
    IN  /\ \A o, r \in present : pte[o[1]][o[2]] = pte[r[1]][r[2]] => o = r
        /\ \A i, j \in Listed : frame_table[i].frame = frame_table[j].frame => i = j
        /\ (mapped \cup listed) \cap pool = {}

\* The pages that are out, eviction finished.
Out == {o \in Procs \X Pages :
          /\ o[2] \in DOMAIN spt[o[1]]
          /\ spt[o[1]][o[2]].swapped /\ Anonymous(spt[o[1]][o[2]])
          /\ \A q \in Procs : th[q].victim # NULL =>
               <<th[q].victim.owner, th[q].victim.page>> # o}

\* The swap table is exact for pages that are out, whoever evicted them: their
\* slots are in use, no two share one, and the slot still holds what was saved.
SlotsExclusive ==
  machine = "running" =>
    /\ \A o \in Out : spt[o[1]][o[2]].slot \in swap_table
    /\ \A o, r \in Out : spt[o[1]][o[2]].slot = spt[r[1]][r[2]].slot => o = r
    /\ ~foreign => \A o \in Out : swapped_data[spt[o[1]][o[2]].slot] = mem[o[1]][o[2]]

=============================================================================
