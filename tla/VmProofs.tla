------------------------------- MODULE VmProofs -------------------------------
(***************************************************************************)
(* What is proved of Vm for any processes, pages, frames and slots, second *)
(* part: the steps that allocate, evict, fill and read back keep the rest  *)
(* of the invariant; slots and frames have one user, and a process does not*)
(* see that its pages are evicted.                                         *)
(***************************************************************************)
EXTENDS VmStepProofs

\* A leaf that names no prover is for Zenon: few of them need arithmetic.
USE Zenon

-----------------------------------------------------------------------------
(* Steps that move a page, continued: a frame is allocated.                *)

\* palloc_get_page gives p a frame for the page it wants.
Gets(p, f) ==
  /\ th[p].pc = "frame" /\ f \in pool /\ pool' = pool \ {f}
  /\ th'[p].pc = "fill" /\ th'[p].kpage = f /\ SameFault(th'[p], th[p])
  /\ \A q \in Procs : q # p => th'[q] = th[q]
  /\ UNCHANGED pte /\ UNCHANGED spt /\ UNCHANGED content /\ UNCHANGED frame_table
  /\ UNCHANGED swap_table /\ UNCHANGED swapped_data /\ UNCHANGED mem /\ UNCHANGED foreign

\* The frame has no other user.
LEMMA GetsExclusive ==
  ASSUME Control, Exclusive, NEW p \in Procs, NEW f \in Frames, Gets(p, f)
  PROVE  Exclusive'
<1>1. /\ th[p].pc = "frame" /\ f \in pool /\ pool' = pool \ {f}
      /\ th'[p].pc = "fill" /\ th'[p].kpage = f /\ th'[p].page = th[p].page
      /\ \A q \in Procs : q # p => th'[q] = th[q]
      /\ UNCHANGED pte /\ UNCHANGED spt /\ UNCHANGED frame_table
  BY DEF Gets, SameFault
<1>2. \A q \in Procs : q # p => Undisturbed(q)
  BY <1>1 DEF Undisturbed
<1>3. Fewer
  <2>1. DyingStay
    BY <1>1 DEF DyingStay
  <2> QED
    BY <1>1, <2>1, SameList DEF Control
<1>4. OneClaim /\ pool \subseteq Frames
  BY DEF Exclusive, Control, Types
<1>5. \A q \in Procs, v \in Pages : ~Claim(f, q, v)
  BY <1>1, <1>4 DEF OneClaim
<1>6. ASSUME NEW g \in Frames, NEW q \in Procs, NEW v \in Pages, Claim(g, q, v)'
      PROVE  Claim(g, q, v) \/ (g = f /\ q = p /\ v = th[p].page)
  <2>1. ListedAs(g, q, v)' => ListedAs(g, q, v)
    BY <1>3 DEF Fewer
  <2>2. CASE q # p
    BY <1>2, <1>6, <2>1, <2>2, OtherClaims
  <2>3. CASE q = p
    BY <1>1, <1>6, <2>1, <2>3 DEF Claim, Holding
  <2> QED
    BY <2>2, <2>3
<1>7. OneClaim'
  <2>1. ASSUME NEW g \in Frames, NEW q \in Procs, NEW r \in Procs, NEW v \in Pages, NEW w \in Pages,
               Claim(g, q, v)', Claim(g, r, w)'
        PROVE  q = r /\ v = w
    <3>1. CASE g = f
      BY <1>5, <1>6, <2>1, <3>1
    <3>2. CASE g # f
      <4>1. Claim(g, q, v) /\ Claim(g, r, w)
        BY <1>6, <2>1, <3>2
      <4> QED
        BY <1>4, <4>1 DEF OneClaim
    <3> QED
      BY <3>1, <3>2
  <2>2. ASSUME NEW g \in pool', NEW q \in Procs, NEW v \in Pages, Claim(g, q, v)'
        PROVE  FALSE
    <3>1. g \in pool /\ g # f /\ g \in Frames
      BY <1>1, <1>4, <2>2
    <3>2. Claim(g, q, v)
      BY <1>6, <2>2, <3>1
    <3> QED
      BY <1>4, <3>1, <3>2 DEF OneClaim
  <2> QED
    BY <2>1, <2>2 DEF OneClaim
<1>8. Place(p)'
  <2>1. Victim(p)'
    BY <1>1 DEF Victim
  <2>2. Unlisted(p)'
    <3> SUFFICES ASSUME NEW q \in Procs, NEW v \in Pages PROVE ~ListedAs(th[p].kpage, q, v)'
      BY DEF Unlisted
    <3>1. ~ListedAs(f, q, v)
      BY <1>5 DEF Claim
    <3>2. ~ListedAs(f, q, v)'
      BY <1>3, <3>1 DEF Fewer
    <3> QED
      BY <1>1, <3>2 DEF ListedAs
  <2>3. Exact(p)'
    <3> SUFFICES ASSUME NEW g \in Frames, NEW v \in DataPages, ListedAs(g, p, v)'
                 PROVE  pte'[p][v] = g
      BY DEF Exact
    <3>1. ListedAs(g, p, v)
      BY <1>3 DEF Fewer, Pages
    <3> QED
      BY <1>1, <3>1 DEF Exclusive, Place, Exact, Installing
  <2>4. Here(p)'
    BY <1>1 DEF Exclusive, Place, Here, Installing
  <2> QED
    BY <2>1, <2>2, <2>3, <2>4 DEF Place
<1>9. ASSUME NEW q \in Procs, q # p PROVE Place(q)'
  BY <1>2, <1>3, <1>9, PlaceFewer DEF Exclusive
<1>10. OneListing'
  BY <1>3 DEF Fewer, Exclusive
<1> QED
  BY <1>7, <1>8, <1>9, <1>10 DEF Exclusive

\* Nothing is written.
LEMMA GetsMemory ==
  ASSUME Control, Exclusive, NEW p \in Procs, NEW f \in Frames, Gets(p, f), AwayOnly,
         \A q \in Procs : Memory(q)
  PROVE  \A q \in Procs : Memory(q)'
<1>1. /\ th[p].pc = "frame" /\ th'[p].pc = "fill" /\ th'[p].goal = th[p].goal
      /\ \A q \in Procs : q # p => th'[q] = th[q]
      /\ UNCHANGED pte /\ UNCHANGED spt /\ UNCHANGED content
      /\ UNCHANGED swapped_data /\ UNCHANGED mem
  BY DEF Gets, SameFault
<1>2. \A q \in Procs : q # p => Undisturbed(q)
  BY <1>1 DEF Undisturbed
<1>3. Memory(p)'
  <2>1. InMemory(p)' /\ InSwap(p)'
    BY <1>1 DEF Memory, InMemory, InSwap, AwayOnly
  <2>2. GoingOut(p)' /\ ComingIn(p)'
    BY <1>1 DEF GoingOut, ComingIn
  <2>3. Young(p)' => Young(p)
    BY <1>1 DEF Young, Faulting
  <2>4. Unread(p)'
    BY <1>1, <2>3 DEF Memory, Unread, Installing
  <2> QED
    BY <2>1, <2>2, <2>4 DEF Memory
<1> QED
  BY <1>1, <1>2, <1>3, KeepMemory DEF AwayOnly, Exclusive

\* palloc_get_page gives a frame, or goes to swap_out.
LEMMA PallocSafe ==
  ASSUME Control, Safe, NEW p \in Procs, palloc_get_page(p)
  PROVE  Safe'
<1>1. /\ th \in [Procs -> Thread] /\ th[p] \in Thread /\ th[p].pc = "frame"
      /\ pool \subseteq Frames
  BY DEF Control, Types, palloc_get_page, At
<1>2. CASE Halt("panic")
  BY <1>2, HaltSafe
<1>3. ASSUME NEW f \in pool, pool' = pool \ {f},
             th' = [th EXCEPT ![p] = [th[p] EXCEPT !.pc = "fill", !.kpage = f]],
             UNCHANGED <<pte, spt, fd, content, frame_table, swap_table, swapped_data, locks,
                         machine, history>>
      PROVE  Safe'
  <2>1. f \in Frames
    BY <1>1
  <2>2. PICK r : r = [th[p] EXCEPT !.pc = "fill", !.kpage = f]
    OBVIOUS
  <2>3. r \in Thread /\ r.pc = "fill" /\ r.kpage = f /\ SameFault(r, th[p])
    BY <1>1, <2>1, <2>2, FillFields
  <2>4. th'[p] = r /\ \A q \in Procs : q # p => th'[q] = th[q]
    BY <1>1, <1>3, <2>2, <2>3, ThreadReplaced
  <2>5. /\ UNCHANGED pte /\ UNCHANGED spt /\ UNCHANGED content /\ UNCHANGED frame_table
        /\ UNCHANGED swap_table /\ UNCHANGED swapped_data /\ UNCHANGED mem /\ UNCHANGED foreign
    BY <1>3 DEF history
  <2>6. Gets(p, f)
    BY <1>1, <1>3, <2>3, <2>4, <2>5 DEF Gets
  <2>7. AwayOnly
    <3>1. \A q \in Procs : SwappedOnly(q)
      BY <2>5 DEF SwappedOnly
    <3> QED
      BY <1>1, <2>4, <3>1, NoneAway
  <2>8. Swap'
    BY <2>5, <2>7, AwaySwap DEF Safe
  <2> QED
    BY <2>1, <2>5, <2>6, <2>7, <2>8, GetsExclusive, GetsMemory, SafeParts
<1>4. CASE /\ pool = {} /\ th[p].goal # "lazy_again" /\ th' = Goto(p, "swap_out")
           /\ UNCHANGED <<pte, spt, fd, kernel, locks, machine, history>>
  <2>1. /\ UNCHANGED pte /\ UNCHANGED spt /\ UNCHANGED pool /\ UNCHANGED content
        /\ UNCHANGED frame_table /\ UNCHANGED swap_table /\ UNCHANGED swapped_data
        /\ UNCHANGED mem /\ UNCHANGED foreign
    BY <1>4 DEF kernel, history
  <2>2. Moves(th', p, "swap_out")
    <3>1. "swap_out" \in Points
      BY DEF Points
    <3> QED
      BY <1>1, <1>4, <3>1, GotoThread
  <2>3. Calm(p) /\ Calm(p)' /\ (Young(p)' => Young(p))
    BY <1>1, <2>2 DEF Calm, Holding, Young, Faulting, Moves, SameFault
  <2>4. \A q \in Procs : q # p => th'[q] = th[q]
    BY <2>2 DEF Moves
  <2>5. Quiet(p)
    BY <2>1, <2>3, <2>4, ThreadQuiet
  <2> QED
    BY <2>5, QuietSafe
<1> QED
  BY <1>2, <1>3, <1>4 DEF palloc_get_page

-----------------------------------------------------------------------------
(* Steps that move a page, continued: eviction.                            *)

\* The victim of swap_out is not out yet.
LEMMA SwapOutSwap ==
  ASSUME Control, Swap, NEW p \in Procs, swap_out(p), ~Halt("panic"), ~Halt("lost")
  PROVE  AwayOnly /\ Swap'
<1>1. swap_table' = swap_table /\ th[p].pc = "swap_out"
  BY DEF swap_out, At
<1>2. PICK e \in FrameEntry : SwapOutDone(p, e)
  BY SwapOutIs
<1>3. PICK o \in Procs : o = e.owner
  BY <1>2 DEF SwapOutDone
<1>4. PICK w \in Pages : w = e.page
  BY <1>2 DEF SwapOutDone
<1>5. /\ Changes(spt', o, w) /\ th'[p].pc = "save"
      /\ th'[p].victim = e /\ \A q \in Procs : q # p => th'[q] = th[q]
  BY <1>2, <1>3, <1>4 DEF SwapOutDone
<1>6. AwayOnly
  <2> SUFFICES ASSUME NEW q \in Procs, NEW v \in Pages, Away(q, v)'
               PROVE  Away(q, v) /\ spt'[q][v].slot = spt[q][v].slot
    BY DEF AwayOnly
  <2>1. v \in DataPages /\ v \in DOMAIN spt'[q] /\ spt'[q][v].swapped
    BY DEF Away
  <2>2. q # o \/ v # w
    BY <1>3, <1>4, <1>5 DEF Away
  <2>3. v \in DOMAIN spt[q] /\ spt'[q][v] = spt[q][v]
    BY <1>5, <2>1, <2>2 DEF Changes
  <2>4. \A r \in Procs : th[r].pc = "save" => th[r].victim.owner # q \/ th[r].victim.page # v
    <3>1. \A r \in Procs : th'[r].pc = "save" => th'[r].victim.owner # q \/ th'[r].victim.page # v
      BY DEF Away
    <3> QED
      BY <1>1, <1>5, <3>1, SMT
  <2> QED
    BY <2>1, <2>3, <2>4 DEF Away
<1> QED
  BY <1>1, <1>6, AwaySwap

\* The entry at the front is taken.
LEMMA TakenList ==
  ASSUME Types, Types', frame_table # << >>, frame_table' = Tail(frame_table), DyingStay,
         NEW e, e = Head(frame_table), th[e.owner].pc # "dying"
  PROVE  /\ Fewer /\ ListedAs(e.frame, e.owner, e.page)
         /\ OneListing => \A q \in Procs, v \in Pages : ~ListedAs(e.frame, q, v)'
<1>1. /\ 1 \in DOMAIN frame_table /\ e = frame_table[1]
      /\ \A i \in DOMAIN frame_table' :
           i \in Nat /\ i+1 \in DOMAIN frame_table /\ frame_table'[i] = frame_table[i+1]
  BY FrameTaken
<1>2. /\ DOMAIN frame_table = 1..Len(frame_table)
      /\ \A i \in DOMAIN frame_table : frame_table[i].owner \in Procs
  BY FrameTypes
<1>3. DOMAIN frame_table' = 1..Len(frame_table')
  <2>1. frame_table' \in Seq(FrameEntry)
    BY DEF Types
  <2> QED
    BY <2>1, SMT
<1>4. \A i \in Listed' : i \in Nat /\ i+1 \in Listed /\ frame_table'[i] = frame_table[i+1]
  BY <1>1, <1>2, <1>3 DEF Listed, DyingStay
<1>5. 1 \in Listed
  BY <1>1, <1>2 DEF Listed
<1>6. ListedAs(e.frame, e.owner, e.page)
  BY <1>1, <1>5 DEF ListedAs
<1>7. \A f, q, v : ListedAs(f, q, v)' => ListedAs(f, q, v)
  BY <1>4 DEF ListedAs
<1>8. ASSUME OneListing, NEW i \in Listed', NEW j \in Listed',
             frame_table'[i].frame = frame_table'[j].frame
      PROVE  i = j
  <2>1. i+1 = j+1
    <3>1. /\ i+1 \in Listed /\ j+1 \in Listed
          /\ frame_table[i+1].frame = frame_table[j+1].frame
      BY <1>4, <1>8
    <3> QED
      BY <1>8, <3>1 DEF OneListing
  <2>2. i \in Nat /\ j \in Nat
    BY <1>4, <1>8
  <2> QED
    BY <2>1, <2>2, SMT
<1>9. ASSUME OneListing, NEW i \in Listed', frame_table'[i].frame = e.frame
      PROVE  FALSE
  <2>1. i+1 = 1
    <3>1. i+1 \in Listed /\ frame_table[i+1].frame = frame_table[1].frame
      BY <1>1, <1>4, <1>9
    <3> QED
      BY <1>5, <1>9, <3>1 DEF OneListing
  <2>2. i \in DOMAIN frame_table' /\ i \in 1..Len(frame_table')
    BY <1>3, <1>9 DEF Listed
  <2> QED
    BY <2>1, <2>2, SMT
<1>10. OneListing => OneListing'
  BY <1>8 DEF OneListing
<1>11. OneListing => \A q \in Procs, v \in Pages : ~ListedAs(e.frame, q, v)'
  BY <1>9 DEF ListedAs
<1> QED
  BY <1>6, <1>7, <1>10, <1>11 DEF Fewer

\* The frame of the victim has no user left but the process that evicts it.
LEMMA SwapOutExclusive ==
  ASSUME Control, Control', Exclusive, NEW p \in Procs, NEW e \in FrameEntry, SwapOutDone(p, e),
         e.owner = p, th[p].pc = "swap_out", UNCHANGED pool
  PROVE  Exclusive' /\ ListedAs(e.frame, p, e.page)
<1>1. /\ e.page \in Pages /\ e.frame \in Frames /\ frame_table # << >> /\ e = Head(frame_table)
      /\ frame_table' = Tail(frame_table)
      /\ Changes(spt', p, e.page) /\ spt'[p][e.page].swapped /\ e.page \in DOMAIN spt[p]
      /\ Sets(pte', p, e.page, NULL) /\ \A q \in Procs : q # p => th'[q] = th[q]
      /\ th'[p].pc = "save" /\ th'[p].victim = e
  BY DEF SwapOutDone
<1>2. Types /\ Types' /\ DyingStay
  BY <1>1 DEF Control, DyingStay
<1>3. th[e.owner].pc # "dying"
  OBVIOUS
<1>4. /\ Fewer /\ ListedAs(e.frame, e.owner, e.page)
      /\ OneListing => \A q \in Procs, v \in Pages : ~ListedAs(e.frame, q, v)'
  BY <1>1, <1>2, <1>3, TakenList
<1>5. PICK f \in Frames : f = e.frame
  BY <1>1
<1>6. PICK w \in Pages : w = e.page
  BY <1>1
<1>7. ListedAs(f, p, w) /\ OneListing /\ Place(p)
  BY <1>4, <1>5, <1>6 DEF Exclusive
<1>8. \A q \in Procs, v \in Pages : ~ListedAs(f, q, v)'
  <2>1. f = (e.frame)'
    BY <1>5, SMT
  <2> QED
    BY <1>4, <1>7, <2>1 DEF ListedAs
<1>9. /\ \A q \in Procs : q # p => pte'[q] = pte[q] /\ spt'[q] = spt[q]
      /\ pte'[p][w] = NULL /\ \A v \in Pages : v # w => pte'[p][v] = pte[p][v]
      /\ DOMAIN spt'[p] = DOMAIN spt[p] /\ \A v \in DOMAIN spt[p] : v # w => spt'[p][v] = spt[p][v]
  BY <1>1, <1>6 DEF Sets, Changes
<1>10. NULL \notin Frames
  BY PageKinds
<1>11. Within(p)
  <2>1. \A q \in Procs : q # p => Undisturbed(q)
    BY <1>1, <1>9 DEF Undisturbed
  <2>2. ASSUME NEW g \in Frames, NEW v \in Pages, Claim(g, p, v)' PROVE Claim(g, p, v)
    <3>1. CASE pte'[p][v] = g
      BY <1>9, <1>10, <3>1 DEF Claim
    <3>2. CASE ListedAs(g, p, v)'
      BY <1>4, <3>2 DEF Claim, Fewer
    <3>3. CASE th'[p].victim.frame = g /\ th'[p].victim.page = v
      BY <1>1, <1>5, <1>6, <1>7, <3>3 DEF Claim
    <3> QED
      BY <1>1, <2>2, <3>1, <3>2, <3>3 DEF Claim, Holding
  <2> QED
    BY <1>4, <2>1, <2>2 DEF Within, Fewer
<1>12. Place(p)'
  <2>1. Victim(p)'
    <3>1. /\ th'[p].victim.owner = p /\ th'[p].victim.page = w /\ th'[p].victim.frame = f
          /\ w \in DOMAIN spt'[p] /\ spt'[p][w].swapped
      BY <1>1, <1>5, <1>6, <1>9
    <3>2. \A q \in Procs, v \in Pages : ~ListedAs(th[p].victim.frame, q, v)'
      BY <1>8, <3>1 DEF ListedAs
    <3> QED
      BY <1>9, <3>1, <3>2 DEF Victim
  <2>2. Unlisted(p)'
    BY <1>1 DEF Unlisted
  <2>3. Exact(p)'
    <3> SUFFICES ASSUME NEW g \in Frames, NEW v \in DataPages, ListedAs(g, p, v)'
                 PROVE  pte'[p][v] = g
      BY DEF Exact
    <3>1. v \in Pages
      BY DEF Pages
    <3>2. ListedAs(g, p, v)
      BY <1>4, <3>1 DEF Fewer
    <3>3. pte[p][v] = g
      BY <1>7, <3>2 DEF Place, Exact, Installing
    <3>4. ASSUME v = w PROVE FALSE
      <4>1. pte[p][v] = f
        BY <1>7, <3>4 DEF Place, Exact, Installing
      <4> QED
        BY <1>8, <3>1, <3>3, <4>1
    <3> QED
      BY <1>9, <3>1, <3>3, <3>4
  <2>4. Here(p)'
    <3> SUFFICES ASSUME NEW v \in DataPages, v \in DOMAIN spt'[p], pte'[p][v] # NULL
                 PROVE  ~spt'[p][v].swapped
      BY <1>1 DEF Here, Installing
    <3>1. v \in Pages /\ v # w
      BY <1>9 DEF Pages
    <3> QED
      BY <1>7, <1>9, <3>1 DEF Place, Here
  <2> QED
    BY <2>1, <2>2, <2>3, <2>4 DEF Place
<1>13. OneListing'
  BY <1>4, <1>7 DEF Fewer
<1>14. pool' \subseteq Frames /\ \A g \in pool' : g \in pool
  BY DEF Control, Types
<1>15. Exclusive'
  BY <1>11, <1>12, <1>13, <1>14, KeepExclusive
<1> QED
  BY <1>4, <1>15

\* What is on its way out is what the process left there.
LEMMA SwapOutMemory ==
  ASSUME Control, Exclusive, NEW p \in Procs, NEW e \in FrameEntry, SwapOutDone(p, e),
         e.owner = p, th[p].pc = "swap_out", ListedAs(e.frame, p, e.page), AwayOnly,
         UNCHANGED content, UNCHANGED swapped_data, UNCHANGED mem, \A q \in Procs : Memory(q)
  PROVE  \A q \in Procs : Memory(q)'
<1>1. /\ e.page \in Pages /\ e.frame \in Frames
      /\ Changes(spt', p, e.page) /\ spt'[p][e.page].swapped
      /\ Sets(pte', p, e.page, NULL) /\ \A q \in Procs : q # p => th'[q] = th[q]
      /\ th'[p].pc = "save" /\ th'[p].victim = e /\ th'[p].goal = th[p].goal
  BY DEF SwapOutDone, SameFault
<1>2. PICK f \in Frames : f = e.frame
  BY <1>1
<1>3. PICK w \in Pages : w = e.page
  BY <1>1
<1>4. /\ \A q \in Procs : q # p => pte'[q] = pte[q] /\ spt'[q] = spt[q]
      /\ pte'[p][w] = NULL /\ \A v \in Pages : v # w => pte'[p][v] = pte[p][v]
      /\ DOMAIN spt'[p] = DOMAIN spt[p] /\ \A v \in DOMAIN spt[p] : v # w => spt'[p][v] = spt[p][v]
      /\ spt'[p][w].swapped
  BY <1>1, <1>3 DEF Sets, Changes
<1>5. \A q \in Procs : q # p => Undisturbed(q)
  BY <1>1, <1>4 DEF Undisturbed
<1>6. Memory(p) /\ Place(p) /\ OneClaim
  BY DEF Exclusive
<1>7. InMemory(p)'
  <2> SUFFICES ASSUME NEW v \in Pages \ MapPages, pte'[p][v] # NULL
               PROVE  content[pte'[p][v]] = mem[p][v]
    BY DEF InMemory
  <2>1. pte'[p][v] = pte[p][v]
    BY <1>4
  <2> QED
    BY <1>6, <2>1 DEF Memory, InMemory
<1>8. InSwap(p)'
  BY <1>6 DEF Memory, InSwap, AwayOnly
<1>9. GoingOut(p)'
  <2> SUFFICES ASSUME w \in DataPages PROVE content[f] = mem[p][w]
    BY <1>1, <1>2, <1>3 DEF GoingOut
  <2>1. pte[p][w] = f
    BY <1>2, <1>3, <1>6 DEF Place, Exact, Installing
  <2>2. w \in Pages \ MapPages /\ NULL \notin Frames
    BY PageKinds
  <2> QED
    BY <1>6, <2>1, <2>2 DEF Memory, InMemory
<1>10. ComingIn(p)'
  BY <1>1 DEF ComingIn
<1>11. Unread(p)'
  <2>1. Young(p)' => Young(p)
    BY <1>1 DEF Young, Faulting
  <2>2. \A v \in CodePages : mem[p][v] = Loaded(p, v)
    BY <1>6 DEF Memory, Unread
  <2>3. Young(p) => \A v \in Pages : mem[p][v] = Loaded(p, v)
    BY <1>6 DEF Memory, Unread
  <2>4. ASSUME NEW v \in DataPages, v \in DOMAIN spt'[p], ~spt'[p][v].swapped, pte'[p][v] = NULL
        PROVE  mem[p][v] = Loaded(p, v)
    <3>1. v # w /\ v \in Pages
      BY <1>4, <2>4 DEF Pages
    <3>2. v \in DOMAIN spt[p] /\ ~spt[p][v].swapped /\ pte[p][v] = NULL
      BY <1>4, <2>4, <3>1
    <3> QED
      BY <1>6, <3>2 DEF Memory, Unread, Installing
  <2> QED
    BY <2>1, <2>2, <2>3, <2>4 DEF Unread
<1>12. Memory(p)'
  BY <1>7, <1>8, <1>9, <1>10, <1>11 DEF Memory
<1> QED
  BY <1>5, <1>6, <1>12, KeepMemory DEF AwayOnly

\* swap_out.
LEMMA SwapOutSafe ==
  ASSUME Control, Control', Safe, NEW p \in Procs, swap_out(p)
  PROVE  Safe'
<1>1. CASE Halt("panic") \/ Halt("lost")
  BY <1>1, HaltSafe
<1>2. CASE ~Halt("panic") /\ ~Halt("lost")
  <2>1. /\ th[p].pc = "swap_out" /\ UNCHANGED pool /\ UNCHANGED content
        /\ UNCHANGED swapped_data /\ UNCHANGED mem
    BY <1>2 DEF swap_out, At
  <2>2. AwayOnly /\ Swap'
    BY <1>2, SwapOutSwap DEF Safe
  <2>3. PICK e \in FrameEntry : SwapOutDone(p, e)
    BY <1>2, SwapOutIs
  <2>4. foreign' = (foreign \/ e.owner # p)
    BY <2>3 DEF SwapOutDone
  <2>5. ASSUME ~foreign', Exclusive PROVE Exclusive' /\ ListedAs(e.frame, p, e.page)
    <3>1. e.owner = p
      BY <2>4, <2>5
    <3> QED
      BY <2>1, <2>3, <2>5, <3>1, SwapOutExclusive
  <2>6. ASSUME ~foreign', Exclusive, \A q \in Procs : Memory(q)
        PROVE  \A q \in Procs : Memory(q)'
    <3>1. e.owner = p
      BY <2>4, <2>6
    <3>2. ListedAs(e.frame, p, e.page)
      BY <2>5, <2>6
    <3> QED
      BY <2>1, <2>2, <2>3, <2>6, <3>1, <3>2, SwapOutMemory
  <2> QED
    BY <2>2, <2>4, <2>5, <2>6, SafeParts
<1> QED
  BY <1>1, <1>2

\* Save takes a free slot; the page is out from now on.
LEMMA SaveSwap ==
  ASSUME Control, Swap, NEW p \in Procs, NEW o \in Procs, NEW w \in Pages, NEW f \in Frames,
         SaveDone(p, o, w, f)
  PROVE  Swap'
<1>1. /\ \A q \in Procs : q # p => th'[q] = th[q]
      /\ th[p].pc = "save" /\ th[p].victim.owner = o /\ th[p].victim.page = w
      /\ w \in DOMAIN spt[o] /\ spt \in [Procs -> Tables]
  BY DEF SaveDone, Control, Types
<1>2. CASE Anonymous(spt[o][w])
  <2>1. PICK s \in Slots : SlotTaken(o, w, f, s)
    BY <1>2 DEF SaveDone
  <2>2. /\ s \notin swap_table /\ swap_table' = swap_table \cup {s} /\ Changes(spt', o, w)
        /\ spt'[o][w].slot = s
    <3>1. PICK x \in Entry : x = spt[o][w]
      BY <1>1, EntryTypes
    <3>2. PICK r : r = [x EXCEPT !.slot = s]
      OBVIOUS
    <3>3. r.slot = s
      BY <3>2 DEF Entry
    <3> QED
      BY <2>1, <3>1, <3>2, <3>3 DEF SlotTaken
  <2>3. ASSUME NEW q \in Procs, NEW v \in Pages, Away(q, v)', q # o \/ v # w
        PROVE  /\ Away(q, v) /\ spt'[q][v].slot = spt[q][v].slot
               /\ spt[q][v].slot \in swap_table
    <3>1. v \in DataPages /\ v \in DOMAIN spt'[q] /\ spt'[q][v].swapped
      BY <2>3 DEF Away
    <3>2. v \in DOMAIN spt[q] /\ spt'[q][v] = spt[q][v]
      BY <2>2, <2>3, <3>1 DEF Changes
    <3>3. \A r \in Procs : th[r].pc = "save" => th[r].victim.owner # q \/ th[r].victim.page # v
      <4>1. \A r \in Procs : th'[r].pc = "save" => th'[r].victim.owner # q \/ th'[r].victim.page # v
        BY <2>3 DEF Away
      <4> QED
        BY <1>1, <2>3, <4>1, SMT
    <3>4. Away(q, v)
      BY <3>1, <3>2, <3>3 DEF Away
    <3> QED
      BY <3>2, <3>4 DEF Swap
  <2>4. \A q \in Procs, v \in Pages : Away(q, v)' => spt'[q][v].slot \in swap_table'
    BY <2>2, <2>3
  <2>5. ASSUME NEW q \in Procs, NEW r \in Procs, NEW u \in Pages, NEW v \in Pages,
               Away(q, u)', Away(r, v)', spt'[q][u].slot = spt'[r][v].slot
        PROVE  q = r /\ u = v
    <3>1. CASE (q # o \/ u # w) /\ (r # o \/ v # w)
      <4>1. Away(q, u) /\ Away(r, v) /\ spt[q][u].slot = spt[r][v].slot
        BY <2>3, <2>5, <3>1
      <4> QED
        BY <4>1 DEF Swap
    <3>2. CASE (q # o \/ u # w) /\ r = o /\ v = w
      <4>1. spt'[q][u].slot \in swap_table
        BY <2>3, <2>5, <3>2
      <4> QED
        BY <2>2, <2>5, <3>2, <4>1
    <3>3. CASE q = o /\ u = w /\ (r # o \/ v # w)
      <4>1. spt'[r][v].slot \in swap_table
        BY <2>3, <2>5, <3>3
      <4> QED
        BY <2>2, <2>5, <3>3, <4>1
    <3> QED
      BY <3>1, <3>2, <3>3
  <2> QED
    BY <2>4, <2>5 DEF Swap
<1>3. CASE ~Anonymous(spt[o][w])
  <2>1. UNCHANGED spt /\ swap_table' = swap_table
    BY <1>3 DEF SaveDone
  <2>2. w \notin DataPages
    <3>1. Kind(w, spt[o][w])
      BY <1>1 DEF Control, Local, Entries
    <3> QED
      BY <1>3, <3>1, PageKinds DEF Kind, Anonymous
  <2>3. AwayOnly
    <3> SUFFICES ASSUME NEW q \in Procs, NEW v \in Pages, Away(q, v)' PROVE Away(q, v)
      BY <2>1 DEF AwayOnly
    <3>1. v \in DataPages /\ v \in DOMAIN spt[q] /\ spt[q][v].swapped
      BY <2>1 DEF Away
    <3>2. \A r \in Procs : th[r].pc = "save" => th[r].victim.owner # q \/ th[r].victim.page # v
      <4>1. \A r \in Procs : th'[r].pc = "save" => th'[r].victim.owner # q \/ th'[r].victim.page # v
        BY DEF Away
      <4> QED
        BY <1>1, <2>2, <3>1, <4>1, SMT
    <3> QED
      BY <3>1, <3>2 DEF Away
  <2> QED
    BY <2>1, <2>3, AwaySwap
<1> QED
  BY <1>2, <1>3

\* The rest of swap_out when the victim is a page of the running process.
LEMMA SaveExclusive ==
  ASSUME Control, Control', Exclusive, NEW p \in Procs, NEW w \in Pages, NEW f \in Frames,
         SaveDone(p, p, w, f), UNCHANGED pte, UNCHANGED frame_table
  PROVE  Exclusive'
<1>1. /\ th[p].pc = "save" /\ th[p].victim.page = w /\ th[p].victim.frame = f
      /\ th'[p].pc = "frame" /\ \A q \in Procs : q # p => th'[q] = th[q]
      /\ Free({f})
  BY DEF SaveDone
<1>2. /\ \A q \in Procs : q # p => spt'[q] = spt[q]
      /\ DOMAIN spt'[p] = DOMAIN spt[p] /\ \A v \in DOMAIN spt[p] : v # w => spt'[p][v] = spt[p][v]
  BY DEF SaveDone, SlotTaken, Changes
<1>3. Fewer
  <2>1. DyingStay
    BY <1>1 DEF DyingStay
  <2> QED
    BY <2>1, SameList DEF Control
<1>4. OneClaim /\ Place(p) /\ NULL \notin Frames
  BY PageKinds DEF Exclusive
<1>5. pte[p][w] = NULL /\ \A q \in Procs, v \in Pages : ~ListedAs(f, q, v)
  BY <1>1, <1>4 DEF Place, Victim
<1>6. Within(p)
  <2>1. \A q \in Procs : q # p => Undisturbed(q)
    BY <1>1, <1>2 DEF Undisturbed
  <2>2. ASSUME NEW g \in Frames, NEW v \in Pages, Claim(g, p, v)' PROVE Claim(g, p, v)
    <3>1. ListedAs(g, p, v)' => ListedAs(g, p, v)
      BY <1>3 DEF Fewer
    <3> QED
      BY <1>1, <2>2, <3>1 DEF Claim, Holding
  <2> QED
    BY <1>3, <2>1, <2>2 DEF Within, Fewer
<1>7. Released(p, f)
  <2>1. Claim(f, p, w)
    BY <1>1 DEF Claim
  <2>2. ASSUME NEW v \in Pages, Claim(f, p, v)' PROVE FALSE
    <3>1. ~ListedAs(f, p, v)'
      BY <1>3, <1>5 DEF Fewer
    <3>2. pte[p][v] = f
      BY <1>1, <2>2, <3>1 DEF Claim, Holding
    <3>3. Claim(f, p, v)
      BY <3>2 DEF Claim
    <3>4. v = w
      BY <1>4, <2>1, <3>3 DEF OneClaim
    <3> QED
      BY <1>4, <1>5, <3>2, <3>4
  <2> QED
    BY <2>1, <2>2 DEF Released, Uses
<1>8. pool' \subseteq Frames /\ \A g \in pool' : g \in pool \/ Released(p, g)
  BY <1>1, <1>7 DEF Control, Types, Free
<1>9. Place(p)'
  <2>1. Victim(p)' /\ Unlisted(p)'
    BY <1>1 DEF Victim, Unlisted
  <2>2. Exact(p)'
    <3> SUFFICES ASSUME NEW g \in Frames, NEW v \in DataPages, ListedAs(g, p, v)'
                 PROVE  pte'[p][v] = g
      BY DEF Exact
    <3>1. ListedAs(g, p, v)
      BY <1>3 DEF Fewer, Pages
    <3> QED
      BY <1>1, <1>4, <3>1 DEF Place, Exact, Installing
  <2>3. Here(p)'
    <3> SUFFICES ASSUME NEW v \in DataPages, v \in DOMAIN spt'[p], pte'[p][v] # NULL
                 PROVE  ~spt'[p][v].swapped
      BY <1>1 DEF Here, Installing
    <3>1. v # w
      BY <1>5
    <3> QED
      BY <1>2, <1>4, <3>1 DEF Place, Here
  <2> QED
    BY <2>1, <2>2, <2>3 DEF Place
<1>10. OneListing'
  BY <1>3 DEF Fewer, Exclusive
<1> QED
  BY <1>6, <1>8, <1>9, <1>10, KeepExclusive

\* What Save does to the pages that are out.
LEMMA SaveAway ==
  ASSUME Control, Swap, NEW p \in Procs, NEW w \in Pages, NEW f \in Frames, SaveDone(p, p, w, f),
         NEW q \in Procs, NEW v \in Pages, Away(q, v)', q # p \/ v # w
  PROVE  /\ Away(q, v) /\ spt'[q][v] = spt[q][v]
         /\ swapped_data'[spt[q][v].slot] = swapped_data[spt[q][v].slot]
<1>1. /\ \A r \in Procs : r # p => th'[r] = th[r]
      /\ th[p].pc = "save" /\ th[p].victim.owner = p /\ th[p].victim.page = w
      /\ swapped_data \in [Slots -> Contents] /\ swap_table \subseteq Slots
  BY DEF SaveDone, Control, Types
<1>2. /\ \A r \in Procs : r # p => spt'[r] = spt[r]
      /\ DOMAIN spt'[p] = DOMAIN spt[p] /\ \A u \in DOMAIN spt[p] : u # w => spt'[p][u] = spt[p][u]
  BY DEF SaveDone, SlotTaken, Changes
<1>3. v \in DataPages /\ v \in DOMAIN spt'[q] /\ spt'[q][v].swapped
  BY DEF Away
<1>4. v \in DOMAIN spt[q] /\ spt'[q][v] = spt[q][v]
  BY <1>2, <1>3
<1>5. \A r \in Procs : th[r].pc = "save" => th[r].victim.owner # q \/ th[r].victim.page # v
  <2>1. \A r \in Procs : th'[r].pc = "save" => th'[r].victim.owner # q \/ th'[r].victim.page # v
    BY DEF Away
  <2>2. ASSUME NEW r \in Procs, th[r].pc = "save"
        PROVE  th[r].victim.owner # q \/ th[r].victim.page # v
    <3>1. CASE r = p
      BY <1>1, <3>1
    <3>2. CASE r # p
      <4>1. th'[r] = th[r]
        BY <1>1, <3>2
      <4> QED
        BY <2>1, <2>2, <4>1, SMT
    <3> QED
      BY <3>1, <3>2
  <2> QED
    BY <2>2
<1>6. Away(q, v)
  BY <1>3, <1>4, <1>5 DEF Away
<1>7. PICK x \in Slots : x = spt[q][v].slot /\ x \in swap_table
  BY <1>1, <1>6 DEF Swap
<1>8. CASE UNCHANGED swapped_data
  BY <1>4, <1>6, <1>8
<1>9. CASE swapped_data' # swapped_data
  <2>1. PICK s \in Slots : SlotTaken(p, w, f, s)
    BY <1>9 DEF SaveDone
  <2>2. s # x /\ swapped_data' = [swapped_data EXCEPT ![s] = content[f]]
    BY <1>7, <2>1 DEF SlotTaken
  <2>3. swapped_data'[x] = swapped_data[x]
    BY <1>1, <2>2
  <2> QED
    BY <1>4, <1>6, <1>7, <2>3
<1> QED
  BY <1>8, <1>9

\* What goes to the slot is what the process left there.
LEMMA SaveMemory ==
  ASSUME Control, Exclusive, Swap, NEW p \in Procs, NEW w \in Pages, NEW f \in Frames,
         SaveDone(p, p, w, f), UNCHANGED pte, UNCHANGED mem, \A q \in Procs : Memory(q)
  PROVE  \A q \in Procs : Memory(q)'
<1>1. /\ th[p].pc = "save" /\ th[p].victim.page = w /\ th[p].victim.frame = f
      /\ th'[p].pc = "frame" /\ \A q \in Procs : q # p => th'[q] = th[q]
      /\ Free({f}) /\ th'[p].goal = Again(th[p].goal) /\ w \in DOMAIN spt[p]
  BY DEF SaveDone
<1>2. /\ \A q \in Procs : q # p => spt'[q] = spt[q]
      /\ DOMAIN spt'[p] = DOMAIN spt[p] /\ \A v \in DOMAIN spt[p] : v # w => spt'[p][v] = spt[p][v]
  BY DEF SaveDone, SlotTaken, Changes
<1>3. /\ OneClaim /\ Place(p) /\ Memory(p) /\ pte[p][w] = NULL /\ spt[p][w].swapped
      /\ swapped_data \in [Slots -> Contents] /\ spt \in [Procs -> Tables]
      /\ pte \in [Procs -> [Pages -> Frames \cup {NULL}]]
  BY <1>1 DEF Exclusive, Place, Victim, Control, Types
<1>4. \A g \in Frames : g # f => content'[g] = content[g]
  BY <1>1 DEF Free
<1>5. Claim(f, p, w)
  BY <1>1 DEF Claim
<1>6. \A q \in Procs : q # p => Undisturbed(q)
  BY <1>1, <1>2 DEF Undisturbed
<1>7. InMemory(p)'
  <2> SUFFICES ASSUME NEW v \in Pages \ MapPages, pte[p][v] # NULL
               PROVE  content'[pte[p][v]] = mem[p][v]
    BY DEF InMemory
  <2>1. PICK g \in Frames : g = pte[p][v]
    BY PresentClaims
  <2>2. Claim(g, p, v) /\ content[g] = mem[p][v]
    BY <1>3, <2>1 DEF Claim, Memory, InMemory
  <2>3. v # w
    BY <1>3
  <2>4. g # f
    BY <1>3, <1>5, <2>2, <2>3, OnePage
  <2> QED
    BY <1>4, <2>1, <2>2, <2>4
<1>8. InSwap(p)'
  <2> SUFFICES ASSUME NEW v \in Pages, Away(p, v)'
               PROVE  swapped_data'[spt'[p][v].slot] = mem[p][v]
    BY DEF InSwap
  <2>1. CASE v # w
    <3>1. /\ Away(p, v) /\ spt'[p][v] = spt[p][v]
          /\ swapped_data'[spt[p][v].slot] = swapped_data[spt[p][v].slot]
      BY <2>1, SaveAway
    <3>2. swapped_data[spt[p][v].slot] = mem[p][v]
      BY <1>3, <3>1 DEF Memory, InSwap
    <3> QED
      BY <3>1, <3>2
  <2>2. CASE v = w
    <3>1. w \in DataPages
      BY <2>2 DEF Away
    <3>2. Anonymous(spt[p][w])
      <4>1. Kind(w, spt[p][w])
        BY <1>1 DEF Control, Local, Entries
      <4> QED
        BY <3>1, <4>1, PageKinds DEF Kind, Anonymous
    <3>3. PICK s \in Slots : SlotTaken(p, w, f, s)
      BY <3>2 DEF SaveDone
    <3>4. /\ swapped_data' = [swapped_data EXCEPT ![s] = content[f]]
          /\ spt'[p][w] = [spt[p][w] EXCEPT !.slot = s]
      BY <3>3 DEF SlotTaken
    <3>5. swapped_data'[s] = content[f]
      BY <1>3, <3>4
    <3>6. spt'[p][w].slot = s
      <4>1. spt[p][w] \in Entry
        BY <1>1, <1>3, EntryTypes
      <4> QED
        BY <3>4, <4>1 DEF Entry
    <3>7. content[f] = mem[p][w]
      BY <1>1, <1>3, <3>1 DEF Memory, GoingOut
    <3> QED
      BY <2>2, <3>5, <3>6, <3>7
  <2> QED
    BY <2>1, <2>2
<1>9. GoingOut(p)' /\ ComingIn(p)'
  BY <1>1 DEF GoingOut, ComingIn
<1>10. Unread(p)'
  <2>1. Young(p)' => Young(p)
    BY <1>1 DEF Young, Faulting, Again
  <2>2. \A v \in CodePages : mem[p][v] = Loaded(p, v)
    BY <1>3 DEF Memory, Unread
  <2>3. Young(p) => \A v \in Pages : mem[p][v] = Loaded(p, v)
    BY <1>3 DEF Memory, Unread
  <2>4. ASSUME NEW v \in DataPages, v \in DOMAIN spt'[p], ~spt'[p][v].swapped, pte[p][v] = NULL
        PROVE  mem[p][v] = Loaded(p, v)
    <3>1. v # w
      <4>1. spt'[p][w].swapped
        <5>1. spt[p][w] \in Entry
          BY <1>1, <1>3, EntryTypes
        <5>2. CASE UNCHANGED spt
          BY <1>3, <5>2
        <5>3. CASE spt' # spt
          <6>1. PICK s \in Slots : spt'[p][w] = [spt[p][w] EXCEPT !.slot = s]
            BY <5>3 DEF SaveDone, SlotTaken
          <6>2. PICK e \in Entry : e = spt[p][w]
            BY <5>1
          <6>3. [e EXCEPT !.slot = s].swapped = e.swapped
            BY DEF Entry
          <6> QED
            BY <1>3, <6>1, <6>2, <6>3
        <5> QED
          BY <5>2, <5>3
      <4> QED
        BY <2>4, <4>1
    <3>2. v \in DOMAIN spt[p] /\ ~spt[p][v].swapped
      BY <1>2, <2>4, <3>1
    <3> QED
      BY <1>1, <1>3, <2>4, <3>2 DEF Memory, Unread, Installing
  <2> QED
    BY <2>1, <2>2, <2>3, <2>4 DEF Unread
<1>11. Memory(p)'
  BY <1>7, <1>8, <1>9, <1>10 DEF Memory
<1>12. \A g \in Frames : content'[g] = content[g] \/ Uses(p, g)
  BY <1>4, <1>5 DEF Uses
<1>13. \A q \in Procs, v \in Pages : q # p /\ Away(q, v)' =>
         Away(q, v) /\ swapped_data'[spt[q][v].slot] = swapped_data[spt[q][v].slot]
  BY SaveAway
<1> QED
  BY <1>3, <1>6, <1>11, <1>12, <1>13, KeepMemory

\* The rest of swap_out.
LEMMA SaveSafe ==
  ASSUME Control, Control', Safe, NEW p \in Procs, Save(p)
  PROVE  Safe'
<1>1. CASE Halt("panic") \/ Halt("lost")
  BY <1>1, HaltSafe
<1>2. CASE ~Halt("panic") /\ ~Halt("lost")
  <2>1. UNCHANGED pte /\ UNCHANGED frame_table /\ UNCHANGED mem /\ UNCHANGED foreign
    BY <1>2 DEF Save, history
  <2>2. PICK o \in Procs, w \in Pages, f \in Frames : SaveDone(p, o, w, f)
    BY <1>2, SaveIs
  <2>3. Swap /\ Swap'
    BY <2>2, SaveSwap DEF Safe
  <2>4. ASSUME Exclusive PROVE SaveDone(p, p, w, f)
    <3>1. o = p
      BY <2>2, <2>4 DEF Exclusive, Place, Victim, SaveDone
    <3> QED
      BY <2>2, <3>1
  <2>5. Exclusive => Exclusive'
    BY <2>1, <2>4, SaveExclusive
  <2>6. Exclusive /\ (\A q \in Procs : Memory(q)) => \A q \in Procs : Memory(q)'
    BY <2>1, <2>3, <2>4, SaveMemory
  <2> QED
    BY <2>1, <2>3, <2>5, <2>6, SafeParts
<1> QED
  BY <1>1, <1>2

-----------------------------------------------------------------------------
(* Steps that move a page, continued: a frame is filled.                   *)

\* Only frame f is new in the list, for page v of p.
Gains(p, f, v) ==
  /\ OneListing /\ (\A q \in Procs, u \in Pages : ~ListedAs(f, q, u)) => OneListing'
  /\ \A g \in Frames, q \in Procs, u \in Pages :
       ListedAs(g, q, u)' => ListedAs(g, q, u) \/ (g = f /\ q = p /\ u = v)

\* The end of a fault: page v of p is in frame f.
Fills(p, v, f) ==
  /\ Holding(p) /\ th[p].page = v /\ th[p].kpage = f
  /\ th'[p].pc = "user" \/ th'[p].pc = "munmap"
  /\ \A q \in Procs : q # p => th'[q] = th[q] /\ spt'[q] = spt[q] /\ mem'[q] = mem[q]
  /\ Sets(pte', p, v, f) /\ Gains(p, f, v)
  /\ SwappedOnly(p)
  /\ \A u \in DataPages : u \in DOMAIN spt'[p] /\ ~spt'[p][u].swapped =>
       u \in DOMAIN spt[p] /\ ~spt[p][u].swapped
  /\ \A u \in Pages : mem'[p][u] = mem[p][u] \/ (u = v /\ v \in GrowPages)
  /\ \A g \in Frames : g # f => content'[g] = content[g]
  /\ UNCHANGED pool /\ UNCHANGED swap_table /\ UNCHANGED swapped_data /\ UNCHANGED foreign

\* The frame was already in use for the page.
LEMMA FillsExclusive ==
  ASSUME Control, Exclusive, NEW p \in Procs, NEW v \in Pages, NEW f \in Frames, Fills(p, v, f),
         OneListing', v \in DataPages /\ v \in DOMAIN spt'[p] => ~spt'[p][v].swapped
  PROVE  Exclusive'
<1>1. /\ Holding(p) /\ th[p].page = v /\ th[p].kpage = f
      /\ th'[p].pc = "user" \/ th'[p].pc = "munmap"
      /\ \A q \in Procs : q # p => th'[q] = th[q] /\ spt'[q] = spt[q]
      /\ Gains(p, f, v) /\ SwappedOnly(p) /\ UNCHANGED pool
  BY DEF Fills
<1>2. /\ \A q \in Procs : q # p => pte'[q] = pte[q]
      /\ pte'[p][v] = f /\ \A u \in Pages : u # v => pte'[p][u] = pte[p][u]
  BY DEF Fills, Sets
<1>3. OneClaim /\ Place(p) /\ NULL \notin Frames /\ pte[p][v] = NULL
  <2>1. Local(p) /\ Faulting(p)
    BY <1>1 DEF Control, Holding, Faulting
  <2> QED
    BY <1>1, <2>1, PageKinds DEF Exclusive, Local, Fault
<1>4. Claim(f, p, v)
  BY <1>1 DEF Claim
<1>5. Within(p)
  <2>1. \A q \in Procs : q # p => Undisturbed(q)
    BY <1>1, <1>2 DEF Undisturbed
  <2>2. ASSUME NEW g \in Frames, NEW u \in Pages, Claim(g, p, u)' PROVE Claim(g, p, u)
    <3>1. CASE pte'[p][u] = g
      <4>1. CASE u = v
        BY <1>2, <1>4, <3>1, <4>1
      <4>2. CASE u # v
        BY <1>2, <3>1, <4>2 DEF Claim
      <4> QED
        BY <4>1, <4>2
    <3>2. CASE ListedAs(g, p, u)'
      <4>1. ListedAs(g, p, u) \/ (g = f /\ u = v)
        BY <1>1, <3>2 DEF Gains
      <4> QED
        BY <1>4, <4>1 DEF Claim
    <3> QED
      BY <1>1, <2>2, <3>1, <3>2 DEF Claim, Holding
  <2>3. ASSUME NEW g \in Frames, NEW q \in Procs, NEW u \in Pages, q # p, ListedAs(g, q, u)'
        PROVE  ListedAs(g, q, u)
    BY <1>1, <2>3 DEF Gains
  <2> QED
    BY <2>1, <2>2, <2>3 DEF Within
<1>6. Place(p)'
  <2>1. Victim(p)' /\ Unlisted(p)'
    BY <1>1 DEF Victim, Unlisted
  <2>2. Exact(p)'
    <3> SUFFICES ASSUME NEW g \in Frames, NEW u \in DataPages, ListedAs(g, p, u)'
                 PROVE  pte'[p][u] = g
      BY DEF Exact
    <3>1. u \in Pages
      BY DEF Pages
    <3>2. ListedAs(g, p, u) \/ (g = f /\ u = v)
      BY <1>1, <3>1 DEF Gains
    <3>3. CASE ListedAs(g, p, u)
      <4>1. pte[p][u] = g \/ (u = v /\ f = g)
        BY <1>1, <1>3, <3>3 DEF Place, Exact, Installing
      <4> QED
        BY <1>2, <1>3, <3>1, <4>1
    <3>4. CASE g = f /\ u = v
      BY <1>2, <3>4
    <3> QED
      BY <3>2, <3>3, <3>4
  <2>3. Here(p)'
    <3> SUFFICES ASSUME NEW u \in DataPages, u \in DOMAIN spt'[p], pte'[p][u] # NULL, u # v,
                        spt'[p][u].swapped
                 PROVE  FALSE
      BY <1>1 DEF Here, Installing
    <3>1. pte[p][u] # NULL
      BY <1>2 DEF Pages
    <3> QED
      BY <1>1, <1>3, <3>1 DEF Place, Here, SwappedOnly
  <2> QED
    BY <2>1, <2>2, <2>3 DEF Place
<1>7. pool' \subseteq Frames /\ \A g \in pool' : g \in pool
  BY <1>1 DEF Control, Types
<1> QED
  BY <1>5, <1>6, <1>7, KeepExclusive

\* The process finds the page as it left it.
LEMMA FillsMemory ==
  ASSUME Control, Exclusive, NEW p \in Procs, NEW v \in Pages, NEW f \in Frames, Fills(p, v, f),
         AwayOnly, v \notin MapPages => content'[f] = mem'[p][v], \A q \in Procs : Memory(q)
  PROVE  \A q \in Procs : Memory(q)'
<1>1. /\ Holding(p) /\ th[p].page = v /\ th[p].kpage = f
      /\ th'[p].pc = "user" \/ th'[p].pc = "munmap"
      /\ \A q \in Procs : q # p => th'[q] = th[q] /\ spt'[q] = spt[q] /\ mem'[q] = mem[q]
      /\ \A g \in Frames : g # f => content'[g] = content[g]
      /\ UNCHANGED swapped_data
  BY DEF Fills
<1>2. /\ \A q \in Procs : q # p => pte'[q] = pte[q]
      /\ pte'[p][v] = f /\ \A u \in Pages : u # v => pte'[p][u] = pte[p][u]
  BY DEF Fills, Sets
<1>3. /\ \A u \in Pages : mem'[p][u] = mem[p][u] \/ (u = v /\ v \in GrowPages)
      /\ \A u \in DataPages : u \in DOMAIN spt'[p] /\ ~spt'[p][u].swapped =>
           u \in DOMAIN spt[p] /\ ~spt[p][u].swapped
  BY DEF Fills
<1>4. OneClaim /\ Memory(p) /\ NULL \notin Frames
  BY PageKinds DEF Exclusive
<1>5. Claim(f, p, v)
  BY <1>1 DEF Claim
<1>6. \A q \in Procs : q # p => Undisturbed(q)
  BY <1>1, <1>2 DEF Undisturbed
<1>7. InMemory(p)'
  <2> SUFFICES ASSUME NEW u \in Pages \ MapPages, pte'[p][u] # NULL
               PROVE  content'[pte'[p][u]] = mem'[p][u]
    BY DEF InMemory
  <2>1. CASE u = v
    BY <1>2, <2>1
  <2>2. CASE u # v
    <3>1. pte'[p][u] = pte[p][u] /\ mem'[p][u] = mem[p][u]
      BY <1>2, <1>3, <2>2
    <3>2. PICK g \in Frames : g = pte[p][u]
      BY <3>1, PresentClaims
    <3>3. Claim(g, p, u) /\ content[g] = mem[p][u]
      BY <1>4, <3>1, <3>2 DEF Claim, Memory, InMemory
    <3>4. g # f
      BY <1>4, <1>5, <2>2, <3>3, OnePage
    <3>5. content'[g] = content[g]
      BY <1>1, <3>4
    <3> QED
      BY <3>1, <3>2, <3>3, <3>5
  <2> QED
    BY <2>1, <2>2
<1>8. InSwap(p)'
  <2> SUFFICES ASSUME NEW u \in Pages, Away(p, u)'
               PROVE  swapped_data[spt'[p][u].slot] = mem'[p][u]
    BY <1>1 DEF InSwap
  <2>1. Away(p, u) /\ spt'[p][u].slot = spt[p][u].slot
    BY DEF AwayOnly
  <2>2. u \in DataPages
    BY <2>1 DEF Away
  <2>3. mem'[p][u] = mem[p][u]
    BY <1>3, <2>2, PageKinds
  <2> QED
    BY <1>4, <2>1, <2>3 DEF Memory, InSwap
<1>9. GoingOut(p)' /\ ComingIn(p)' /\ ~Young(p)'
  BY <1>1 DEF GoingOut, ComingIn, Young, Faulting
<1>10. Unread(p)'
  <2>1. ASSUME NEW u \in CodePages PROVE mem'[p][u] = Loaded(p, u)
    <3>1. mem'[p][u] = mem[p][u]
      BY <1>3, PageKinds DEF Pages
    <3> QED
      BY <1>4, <3>1 DEF Memory, Unread
  <2>2. ASSUME NEW u \in DataPages, u \in DOMAIN spt'[p], ~spt'[p][u].swapped, pte'[p][u] = NULL
        PROVE  mem'[p][u] = Loaded(p, u)
    <3>1. u # v /\ u \in Pages
      BY <1>2, <1>4, <2>2 DEF Pages
    <3>2. u \in DOMAIN spt[p] /\ ~spt[p][u].swapped /\ pte[p][u] = NULL
      BY <1>2, <1>3, <2>2, <3>1
    <3>3. mem'[p][u] = mem[p][u]
      BY <1>3, <3>1
    <3>4. ~Installing(p, u) /\ th[p].pc # "dying"
      BY <1>1, <3>1 DEF Installing, Holding
    <3> QED
      BY <1>4, <3>2, <3>3, <3>4 DEF Memory, Unread
  <2> QED
    BY <1>9, <2>1, <2>2 DEF Unread
<1>11. Memory(p)'
  BY <1>7, <1>8, <1>9, <1>10 DEF Memory
<1>12. \A g \in Frames : content'[g] = content[g] \/ Uses(p, g)
  BY <1>1, <1>5 DEF Uses
<1> QED
  BY <1>1, <1>4, <1>6, <1>11, <1>12, KeepMemory DEF AwayOnly

\* What is left to show of the end of a fault.
LEMMA FillsSafe ==
  ASSUME Control, Safe, NEW p \in Procs, NEW v \in Pages, NEW f \in Frames, Fills(p, v, f),
         ASSUME Exclusive
         PROVE  OneListing' /\ (v \in DataPages /\ v \in DOMAIN spt'[p] => ~spt'[p][v].swapped),
         ASSUME Exclusive, \A q \in Procs : Memory(q), v \notin MapPages
         PROVE  content'[f] = mem'[p][v]
  PROVE  Safe'
<1>1. AwayOnly
  <2>1. \A q \in Procs : SwappedOnly(q)
    BY DEF Fills, SwappedOnly
  <2>2. \A q \in Procs : th[q].pc = "save" => th'[q].pc = "save" /\ th'[q].victim = th[q].victim
    BY DEF Fills, Holding
  <2> QED
    BY <2>1, <2>2, NoneAway
<1>2. Swap' /\ UNCHANGED foreign
  BY <1>1, AwaySwap DEF Fills, Safe
<1>3. Exclusive => Exclusive'
  BY FillsExclusive
<1>4. Exclusive /\ (\A q \in Procs : Memory(q)) => \A q \in Procs : Memory(q)'
  BY <1>1, FillsMemory
<1> QED
  BY <1>2, <1>3, <1>4, SafeParts

\* The frame table stays: that is no new entry.
LEMMA FewerGains ==
  ASSUME Fewer, NEW p \in Procs, NEW f \in Frames, NEW v \in Pages
  PROVE  Gains(p, f, v)
  BY DEF Fewer, Gains

\* FillStack clears the first stack page, as the process has it.
LEMMA FillStackSafe ==
  ASSUME Control, Safe, NEW p \in Procs, FillStack(p)
  PROVE  Safe'
<1>1. /\ th \in [Procs -> Thread] /\ th[p].pc = "fill" /\ th[p].goal = "stack" /\ Local(p)
      /\ content \in [Frames -> Contents] /\ Holding(p) /\ Faulting(p)
  BY DEF Control, Types, FillStack, At, Holding, Faulting
<1>2. PICK f \in Frames : f = th[p].kpage
  BY <1>1 DEF Local, Victims
<1>3. th[p].page = StackPage /\ StackPage \in Pages
  BY <1>1 DEF Local, Fault, Pages
<1>4. /\ UNCHANGED spt /\ UNCHANGED pool /\ UNCHANGED frame_table /\ UNCHANGED swap_table
      /\ UNCHANGED swapped_data /\ UNCHANGED mem /\ UNCHANGED foreign
      /\ pte' = install_page(p, StackPage, f) /\ th' = Resume(p)
      /\ content' = [content EXCEPT ![f] = Loaded(p, StackPage)]
  BY <1>2 DEF FillStack, history
<1>5. Resumes(th', p)
  BY <1>1, <1>4, ResumeThread
<1>6. Sets(pte', p, StackPage, f)
  BY <1>1, <1>2, <1>3, <1>4, Installed
<1>7. content'[f] = Loaded(p, StackPage) /\ \A g \in Frames : g # f => content'[g] = content[g]
  BY <1>1, <1>4
<1>8. /\ \A q \in Procs : q # p => th'[q] = th[q]
      /\ th'[p].pc = "user" \/ th'[p].pc = "munmap"
  BY <1>5 DEF Resumes
<1>9. Fewer
  <2>1. DyingStay
    BY <1>1, <1>8 DEF DyingStay
  <2> QED
    BY <1>4, <2>1, SameList DEF Control
<1>10. Fills(p, StackPage, f)
  <2>1. SwappedOnly(p)
    BY <1>4 DEF SwappedOnly
  <2>2. Gains(p, f, StackPage)
    BY <1>3, <1>9, FewerGains
  <2> QED
    BY <1>1, <1>2, <1>3, <1>4, <1>6, <1>7, <1>8, <2>1, <2>2 DEF Fills
<1>11. StackPage \notin DataPages
  BY PageKinds
<1>12. Exclusive => OneListing'
  BY <1>9 DEF Exclusive, Fewer
<1>13. (\A q \in Procs : Memory(q)) => content'[f] = mem'[p][StackPage]
  BY <1>1, <1>3, <1>4, <1>7 DEF Memory, Unread, Young
<1> QED
  BY <1>3, <1>10, <1>11, <1>12, <1>13, FillsSafe

\* Install.
LEMMA InstallSafe ==
  ASSUME Control, Safe, NEW p \in Procs, Install(p)
  PROVE  Safe'
<1>1. /\ th \in [Procs -> Thread] /\ th[p].pc = "install" /\ Local(p)
      /\ spt \in [Procs -> Tables] /\ Holding(p) /\ Faulting(p)
  BY DEF Control, Types, Install, At, Holding, Faulting
<1>2. PICK f \in Frames : f = th[p].kpage
  BY <1>1 DEF Local, Victims
<1>3. PICK v \in Pages : v = th[p].page
  BY <1>1 DEF Local, Fault
<1>4. /\ UNCHANGED pool /\ UNCHANGED content /\ UNCHANGED frame_table /\ UNCHANGED swap_table
      /\ UNCHANGED swapped_data /\ UNCHANGED mem /\ UNCHANGED foreign
      /\ pte' = install_page(p, v, f) /\ spt' = Noted(p) /\ th' = Resume(p)
  BY <1>2, <1>3 DEF Install, kernel, history, install_fault_page
<1>5. v \in DOMAIN spt[p]
  BY <1>1, <1>3 DEF Local, Fault
<1>6. Resumes(th', p)
  BY <1>1, <1>4, ResumeThread
<1>7. Sets(pte', p, v, f)
  BY <1>1, <1>2, <1>3, <1>4, Installed
<1>8. /\ \A q \in Procs : q # p => th'[q] = th[q]
      /\ th'[p].pc = "user" \/ th'[p].pc = "munmap"
  BY <1>6 DEF Resumes
<1>9. Fewer
  <2>1. DyingStay
    BY <1>1, <1>8 DEF DyingStay
  <2> QED
    BY <1>4, <2>1, SameList DEF Control
<1>10. Changes(spt', p, v) /\ SameEntry(spt'[p][v], spt[p][v])
  BY <1>1, <1>3, <1>4, <1>5, NotedIs
<1>11. \A u \in DOMAIN spt'[p] : /\ u \in DOMAIN spt[p] /\ spt'[p][u].swapped = spt[p][u].swapped
                                 /\ spt'[p][u].slot = spt[p][u].slot
  BY <1>10 DEF Changes, SameEntry
<1>12. Fills(p, v, f)
  <2>1. SwappedOnly(p)
    BY <1>11 DEF SwappedOnly
  <2>2. \A q \in Procs : q # p => th'[q] = th[q] /\ spt'[q] = spt[q] /\ mem'[q] = mem[q]
    BY <1>4, <1>8, <1>10 DEF Changes
  <2>3. Gains(p, f, v)
    BY <1>9, FewerGains
  <2> QED
    BY <1>1, <1>2, <1>3, <1>4, <1>7, <1>8, <1>11, <2>1, <2>2, <2>3 DEF Fills
<1>13. Exclusive => OneListing'
  BY <1>9 DEF Exclusive, Fewer
<1>14. Exclusive /\ v \in DataPages => ~spt'[p][v].swapped
  <2> SUFFICES ASSUME Place(p), v \in DataPages PROVE ~spt'[p][v].swapped
    BY DEF Exclusive
  <2>1. ~spt[p][v].swapped
    BY <1>1, <1>3, <1>5 DEF Place, Here, Installing
  <2> QED
    BY <1>5, <1>10, <1>11, <2>1 DEF Changes
<1>15. (\A q \in Procs : Memory(q)) /\ v \notin MapPages => content'[f] = mem'[p][v]
  BY <1>1, <1>2, <1>3, <1>4 DEF Memory, ComingIn
<1> QED
  BY <1>12, <1>13, <1>14, <1>15, FillsSafe

\* The frame table gains an entry for frame f, page v of p.
Enters(p, f, v) ==
  \E e \in FrameEntry : e.frame = f /\ e.owner = p /\ e.page = v /\ Lists(frame_table', e)

\* allocate_frame does this.
LEMMA AllocateEnters ==
  ASSUME Types, NEW p \in Procs, NEW f \in Frames, NEW v \in Pages, NEW b \in BOOLEAN,
         frame_table' = allocate_frame(p, f, v, b)
  PROVE  Enters(p, f, v)
<1>1. PICK e : e = [frame |-> f, owner |-> p, page |-> v, spte |-> b]
  OBVIOUS
<1>2. e \in FrameEntry /\ e.owner = p /\ e.page = v /\ e.frame = f
  BY <1>1, SMT DEF FrameEntry
<1>3. frame_table' = Append(frame_table, e)
  BY <1>1 DEF allocate_frame
<1>4. Lists(frame_table', e)
  BY <1>2, <1>3, FrameAppended
<1> QED
  BY <1>2, <1>4 DEF Enters

\* An entry is added.
LEMMA EnteredList ==
  ASSUME Types, Types', NEW p \in Procs, NEW f \in Frames, NEW v \in Pages, Enters(p, f, v),
         DyingStay
  PROVE  Gains(p, f, v)
<1>1. PICK e \in FrameEntry : e.frame = f /\ e.owner = p /\ e.page = v /\ Lists(frame_table', e)
  BY DEF Enters
<1>2. /\ DOMAIN frame_table = 1..Len(frame_table)
      /\ \A i \in DOMAIN frame_table :
           /\ frame_table[i].owner \in Procs /\ frame_table[i].page \in Pages
  BY FrameTypes
<1>3. DOMAIN frame_table' = 1..Len(frame_table')
  <2>1. frame_table' \in Seq(FrameEntry)
    BY DEF Types
  <2> QED
    BY <2>1, SMT
<1>4. PICK n : n = Len(frame_table) + 1
  OBVIOUS
<1>5. \A i \in Listed' : \/ i \in Listed /\ frame_table'[i] = frame_table[i]
                         \/ i = n /\ frame_table'[i] = e
  <2> SUFFICES ASSUME NEW i \in Listed'
               PROVE  \/ i \in Listed /\ frame_table'[i] = frame_table[i]
                      \/ i = n /\ frame_table'[i] = e
    OBVIOUS
  <2>1. i \in DOMAIN frame_table' /\ th'[frame_table'[i].owner].pc # "dying"
    BY <1>3 DEF Listed
  <2>2. CASE i \in DOMAIN frame_table
    <3>1. frame_table'[i] = frame_table[i]
      BY <1>1, <2>2 DEF Lists
    <3> QED
      BY <1>2, <2>1, <2>2, <3>1 DEF Listed, DyingStay
  <2>3. CASE i \notin DOMAIN frame_table
    BY <1>1, <1>4, <2>1, <2>3 DEF Lists
  <2> QED
    BY <2>2, <2>3
<1>6. ASSUME NEW g \in Frames, NEW q \in Procs, NEW u \in Pages, ListedAs(g, q, u)'
      PROVE  ListedAs(g, q, u) \/ (g = f /\ q = p /\ u = v)
  BY <1>1, <1>5, <1>6 DEF ListedAs
<1>7. ASSUME OneListing, \A q \in Procs, u \in Pages : ~ListedAs(f, q, u) PROVE OneListing'
  <2>1. \A i \in Listed : frame_table[i].frame # f
    BY <1>2, <1>7 DEF ListedAs, Listed
  <2> QED
    BY <1>1, <1>5, <1>7, <2>1 DEF OneListing
<1> QED
  BY <1>6, <1>7 DEF Gains

\* A frame that is being filled is not yet in the frame table.
LEMMA FirstListing ==
  ASSUME Exclusive, NEW p \in Procs, th[p].pc = "fill", NEW f \in Frames, th[p].kpage = f,
         NEW v \in Pages, Gains(p, f, v)
  PROVE  OneListing'
  BY DEF Exclusive, Place, Unlisted, Gains

\* FillGrow: the new stack page is what the frame held.
LEMMA FillGrowSafe ==
  ASSUME Control, Control', Safe, NEW p \in Procs, FillGrow(p)
  PROVE  Safe'
<1>1. /\ th \in [Procs -> Thread] /\ th[p].pc = "fill" /\ th[p].goal = "grow" /\ Local(p)
      /\ spt \in [Procs -> Tables] /\ Holding(p) /\ Faulting(p) /\ Types /\ Types'
      /\ mem \in [Procs -> [Pages -> Contents]]
  BY DEF Control, Types, FillGrow, At, Holding, Faulting
<1>2. PICK f \in Frames : f = th[p].kpage
  BY <1>1 DEF Local, Victims
<1>3. PICK v \in Pages : v = th[p].page
  BY <1>1 DEF Local, Fault
<1>4. v \in GrowPages /\ v \notin DataPages
  BY <1>1, <1>3, PageKinds DEF Local, Fault
<1>5. /\ UNCHANGED pool /\ UNCHANGED content /\ UNCHANGED swap_table
      /\ UNCHANGED swapped_data /\ UNCHANGED foreign
      /\ pte' = install_page(p, v, f) /\ th' = Resume(p)
      /\ frame_table' = allocate_frame(p, f, v, FALSE)
      /\ mem' = [mem EXCEPT ![p][v] = content[f]]
      /\ spt' = [spt EXCEPT ![p] = Inserted(spt[p], [u \in {v} |-> Grown])]
  BY <1>2, <1>3 DEF FillGrow, install_fault_page
<1>6. Resumes(th', p)
  BY <1>1, <1>5, ResumeThread
<1>7. Sets(pte', p, v, f)
  BY <1>1, <1>2, <1>3, <1>5, Installed
<1>8. /\ \A q \in Procs : q # p => th'[q] = th[q]
      /\ th'[p].pc = "user" \/ th'[p].pc = "munmap"
  BY <1>6 DEF Resumes
<1>9. Gains(p, f, v)
  <2>1. DyingStay
    BY <1>1, <1>8 DEF DyingStay
  <2>2. FALSE \in BOOLEAN
    BY SMT
  <2>3. Enters(p, f, v)
    BY <1>1, <1>5, <2>2, AllocateEnters
  <2> QED
    BY <1>1, <2>1, <2>3, EnteredList
<1>10. /\ \A q \in Procs : q # p => spt'[q] = spt[q]
       /\ \A u \in DOMAIN spt'[p] : u # v => u \in DOMAIN spt[p] /\ spt'[p][u] = spt[p][u]
  <2>1. PICK T : T = Inserted(spt[p], [u \in {v} |-> Grown])
    OBVIOUS
  <2>2. \A u \in DOMAIN T : u # v => u \in DOMAIN spt[p] /\ T[u] = spt[p][u]
    BY <2>1 DEF Inserted
  <2>3. spt'[p] = T /\ \A q \in Procs : q # p => spt'[q] = spt[q]
    BY <1>1, <1>5, <2>1
  <2> QED
    BY <2>2, <2>3
<1>11. /\ \A q \in Procs : q # p => mem'[q] = mem[q]
       /\ mem'[p][v] = content[f] /\ \A u \in Pages : u # v => mem'[p][u] = mem[p][u]
  <2>1. mem[p] \in [Pages -> Contents]
    BY <1>1
  <2> QED
    BY <1>1, <1>5, <2>1
<1>12. Fills(p, v, f)
  <2>1. SwappedOnly(p)
    BY <1>4, <1>10 DEF SwappedOnly
  <2>2. \A u \in DataPages : u \in DOMAIN spt'[p] /\ ~spt'[p][u].swapped =>
          u \in DOMAIN spt[p] /\ ~spt[p][u].swapped
    BY <1>4, <1>10
  <2>3. \A u \in Pages : mem'[p][u] = mem[p][u] \/ (u = v /\ v \in GrowPages)
    BY <1>4, <1>11
  <2>4. \A q \in Procs : q # p => th'[q] = th[q] /\ spt'[q] = spt[q] /\ mem'[q] = mem[q]
    BY <1>8, <1>10, <1>11
  <2> QED
    BY <1>1, <1>2, <1>3, <1>5, <1>7, <1>8, <1>9, <2>1, <2>2, <2>3, <2>4 DEF Fills
<1>13. Exclusive => OneListing'
  BY <1>1, <1>2, <1>9, FirstListing
<1>14. content'[f] = mem'[p][v]
  BY <1>5, <1>11
<1> QED
  BY <1>4, <1>12, <1>13, <1>14, FillsSafe

\* FillFromFile: a page that is neither present nor out is as the executable has it.
LEMMA FillFromFileSafe ==
  ASSUME Control, Control', Safe, NEW p \in Procs, FillFromFile(p)
  PROVE  Safe'
<1>1. CASE Halt("lost")
  BY <1>1, HaltSafe
<1>2. CASE ~Halt("lost")
  <2>1. /\ th \in [Procs -> Thread] /\ th[p].pc = "fill" /\ Local(p) /\ Faulting(p)
        /\ spt \in [Procs -> Tables] /\ content \in [Frames -> Contents] /\ Holding(p)
        /\ Types /\ Types'
        /\ th[p].goal = "page" \/ th[p].goal = "lazy" \/ th[p].goal = "lazy_again"
    BY DEF Control, Types, FillFromFile, At, Holding, Faulting
  <2>2. PICK f \in Frames : f = th[p].kpage
    BY <2>1 DEF Local, Victims
  <2>3. PICK v \in Pages : v = th[p].page
    BY <2>1 DEF Local, Fault
  <2>4. /\ UNCHANGED pool /\ UNCHANGED swap_table /\ UNCHANGED swapped_data /\ UNCHANGED mem
        /\ UNCHANGED foreign /\ ~NoFile(p, spt[p][v])
        /\ content' = [content EXCEPT ![f] = Loaded(p, v)]
        /\ pte' = install_page(p, v, f)
        /\ frame_table' = allocate_frame(p, f, v, TRUE)
        /\ spt' = Noted(p) /\ th' = Resume(p)
        /\ ~spt[p][v].swapped \/ th[p].goal # "page"
    BY <1>2, <2>2, <2>3 DEF FillFromFile, history, install_fault_page
  <2>5. v \in DOMAIN spt[p] /\ Kind(v, spt[p][v]) /\ pte[p][v] = NULL
    BY <2>1, <2>3, Regions DEF Local, Fault, Entries
  <2>6. Resumes(th', p)
    BY <2>1, <2>4, ResumeThread
  <2>7. Sets(pte', p, v, f)
    BY <2>1, <2>2, <2>3, <2>4, Installed
  <2>8. /\ \A q \in Procs : q # p => th'[q] = th[q]
        /\ th'[p].pc = "user" \/ th'[p].pc = "munmap"
    BY <2>6 DEF Resumes
  <2>9. Gains(p, f, v)
    <3>1. DyingStay
      BY <2>1, <2>8 DEF DyingStay
    <3>2. TRUE \in BOOLEAN
      BY SMT
    <3>3. Enters(p, f, v)
      BY <2>1, <2>4, <3>2, AllocateEnters
    <3> QED
      BY <2>1, <3>1, <3>3, EnteredList
  <2>10. Changes(spt', p, v) /\ SameEntry(spt'[p][v], spt[p][v])
    BY <2>1, <2>3, <2>4, <2>5, NotedIs
  <2>11. content'[f] = Loaded(p, v) /\ \A g \in Frames : g # f => content'[g] = content[g]
    BY <2>1, <2>4
  <2>12. \A u \in DOMAIN spt'[p] : /\ u \in DOMAIN spt[p] /\ spt'[p][u].swapped = spt[p][u].swapped
                                   /\ spt'[p][u].slot = spt[p][u].slot
    BY <2>10 DEF Changes, SameEntry
  <2>13. Fills(p, v, f)
    <3>1. SwappedOnly(p)
      BY <2>12 DEF SwappedOnly
    <3>2. \A q \in Procs : q # p => th'[q] = th[q] /\ spt'[q] = spt[q] /\ mem'[q] = mem[q]
      BY <2>4, <2>8, <2>10 DEF Changes
    <3> QED
      BY <2>1, <2>2, <2>3, <2>4, <2>7, <2>8, <2>9, <2>11, <2>12, <3>1, <3>2 DEF Fills
  <2>14. Exclusive => OneListing'
    BY <2>1, <2>2, <2>9, FirstListing
  <2>15. v \notin MapPages => ~spt[p][v].swapped
    BY <2>1, <2>3, <2>4, Regions DEF Local, Fault
  <2>16. v \in DataPages => ~spt'[p][v].swapped
    BY <2>5, <2>12, <2>15, <2>10, PageKinds DEF Changes
  <2>17. ASSUME \A q \in Procs : Memory(q), v \notin MapPages PROVE content'[f] = mem'[p][v]
    <3>1. Unread(p)
      BY <2>17 DEF Memory
    <3>2. v \in CodePages \/ v \in DataPages
      BY <2>4, <2>5, <2>17 DEF Kind, NoFile
    <3>3. CASE v \in CodePages
      BY <2>4, <2>11, <3>1, <3>3 DEF Unread
    <3>4. CASE v \in DataPages
      BY <2>1, <2>4, <2>5, <2>11, <2>15, <2>17, <3>1, <3>4 DEF Unread, Installing
    <3> QED
      BY <3>2, <3>3, <3>4
  <2> QED
    BY <2>13, <2>14, <2>16, <2>17, FillsSafe
<1> QED
  BY <1>1, <1>2

-----------------------------------------------------------------------------
(* Steps that move a page, continued: a page is read back.                 *)

\* swap_in of page v into frame f.
SwapInDone(p, v, f) ==
  /\ th[p].pc = "fill" /\ th[p].page = v /\ th[p].kpage = f /\ swap_lock = NULL
  /\ v \in DOMAIN spt[p] /\ spt[p][v].swapped
  /\ Enters(p, f, v) /\ Moves(th', p, "install")
  /\ content' = [content EXCEPT ![f] = SwappedContent(p, v)]
  /\ swap_table' = Reclaimed(p, v)
  /\ swapped_data' = [t \in Slots |-> IF t = spt[p][v].slot THEN Junk ELSE swapped_data[t]]
  /\ Changes(spt', p, v) /\ ~spt'[p][v].swapped
  /\ UNCHANGED pte /\ UNCHANGED pool /\ UNCHANGED mem /\ UNCHANGED foreign

\* It does this or halts.
LEMMA SwapInIs ==
  ASSUME Control, NEW p \in Procs, swap_in(p), ~Halt("lost")
  PROVE  \E v \in Pages, f \in Frames : SwapInDone(p, v, f)
<1>1. /\ th \in [Procs -> Thread] /\ th[p].pc = "fill" /\ th[p].goal = "page" /\ Local(p)
      /\ spt \in [Procs -> Tables] /\ Types
  BY DEF Control, Types, swap_in, At
<1>2. PICK v : v = th[p].page
  OBVIOUS
<1>3. PICK f : f = th[p].kpage
  OBVIOUS
<1>4. /\ UNCHANGED pte /\ UNCHANGED pool /\ UNCHANGED mem /\ UNCHANGED foreign
      /\ spt[p][v].swapped /\ swap_lock = NULL
      /\ frame_table' = allocate_frame(p, f, v, TRUE)
      /\ content' = [content EXCEPT ![f] = SwappedContent(p, v)]
      /\ swap_table' = Reclaimed(p, v)
      /\ swapped_data' = [t \in Slots |-> IF t = spt[p][v].slot THEN Junk ELSE swapped_data[t]]
      /\ spt' = [spt EXCEPT ![p][v] = [spt[p][v] EXCEPT !.swapped = FALSE, !.slot = NULL]]
      /\ th' = Goto(p, "install")
  BY <1>2, <1>3 DEF swap_in, history
<1>5. v \in DOMAIN spt[p] /\ v \in Pages /\ f \in Frames /\ spt[p][v] \in Entry
  <2>1. v \in DOMAIN spt[p] /\ f \in Frames
    BY <1>1, <1>2, <1>3 DEF Local, Fault, Faulting, Victims, Holding
  <2> QED
    BY <1>1, <2>1, EntryTypes
<1>6. Moves(th', p, "install")
  <2>1. "install" \in Points
    BY DEF Points
  <2> QED
    BY <1>1, <1>4, <2>1, GotoThread
<1>7. Changes(spt', p, v) /\ ~spt'[p][v].swapped
  <2>1. PICK e \in Entry : e = spt[p][v]
    BY <1>5
  <2>2. PICK r : r = [e EXCEPT !.swapped = FALSE, !.slot = NULL]
    OBVIOUS
  <2>3. r \in Entry /\ ~r.swapped
    BY <2>2 DEF Entry
  <2>4. spt' = [spt EXCEPT ![p][v] = r]
    BY <1>4, <2>1, <2>2
  <2>5. Changes(spt', p, v) /\ spt'[p][v] = r
    BY <1>1, <1>5, <2>3, <2>4, EntryChangesTo
  <2> QED
    BY <2>3, <2>5
<1>8. Enters(p, f, v)
  <2>1. TRUE \in BOOLEAN
    BY SMT
  <2> QED
    BY <1>1, <1>4, <1>5, <2>1, AllocateEnters
<1>9. SwapInDone(p, v, f)
  BY <1>1, <1>2, <1>3, <1>4, <1>5, <1>6, <1>7, <1>8 DEF SwapInDone
<1> QED
  BY <1>5, <1>9

\* While nobody has the swap lock no page is on its way out.
LEMMA NobodySaves ==
  ASSUME Control, swap_lock = NULL
  PROVE  \A q \in Procs : th[q].pc # "save"
  BY PageKinds DEF Control, Local, Victims

\* An entry that is marked as swapped is of a page that is out, if it is a data page.
LEMMA SwappedAway ==
  ASSUME Control, swap_lock = NULL, NEW p \in Procs, NEW v \in DOMAIN spt[p], spt[p][v].swapped
  PROVE  /\ Away(p, v) <=> v \in DataPages
         /\ Anonymous(spt[p][v]) <=> v \in DataPages
<1>1. Kind(v, spt[p][v])
  BY DEF Control, Local, Entries
<1>2. Anonymous(spt[p][v]) <=> v \in DataPages
  BY <1>1, PageKinds DEF Kind, Anonymous
<1> QED
  BY <1>2, NobodySaves DEF Away

\* swap_in frees the slot of the page.
LEMMA SwapInSwap ==
  ASSUME Control, Swap, NEW p \in Procs, NEW v \in Pages, NEW f \in Frames, SwapInDone(p, v, f)
  PROVE  AwayOnly /\ Swap' /\ \A q \in Procs, u \in Pages : Away(q, u)' => q # p \/ u # v
<1>1. /\ Changes(spt', p, v) /\ ~spt'[p][v].swapped /\ swap_lock = NULL
      /\ v \in DOMAIN spt[p] /\ spt[p][v].swapped /\ swap_table' = Reclaimed(p, v)
  BY DEF SwapInDone
<1>2. \A q \in Procs : SwappedOnly(q)
  BY <1>1 DEF SwappedOnly, Changes
<1>3. AwayOnly
  BY <1>1, <1>2, NobodySaves, NoneAway
<1>4. ASSUME NEW q \in Procs, NEW u \in Pages, Away(q, u)'
      PROVE  (q # p \/ u # v) /\ spt'[q][u].slot \in swap_table'
  <2>1. q # p \/ u # v
    BY <1>1, <1>4 DEF Away
  <2>2. Away(q, u) /\ spt'[q][u].slot = spt[q][u].slot
    BY <1>3, <1>4 DEF AwayOnly
  <2>3. spt[q][u].slot \in swap_table
    BY <2>2 DEF Swap
  <2>4. CASE Anonymous(spt[p][v])
    <3>1. Away(p, v)
      BY <1>1, <2>4, SwappedAway
    <3>2. spt[q][u].slot # spt[p][v].slot
      BY <2>1, <2>2, <3>1 DEF Swap
    <3> QED
      BY <1>1, <2>1, <2>2, <2>3, <2>4, <3>2 DEF Reclaimed
  <2>5. CASE ~Anonymous(spt[p][v])
    BY <1>1, <2>1, <2>2, <2>3, <2>5 DEF Reclaimed
  <2> QED
    BY <2>4, <2>5
<1>5. ASSUME NEW q \in Procs, NEW r \in Procs, NEW u \in Pages, NEW w \in Pages,
             Away(q, u)', Away(r, w)', spt'[q][u].slot = spt'[r][w].slot
      PROVE  q = r /\ u = w
  <2>1. Away(q, u) /\ Away(r, w) /\ spt[q][u].slot = spt[r][w].slot
    BY <1>3, <1>5 DEF AwayOnly
  <2> QED
    BY <2>1 DEF Swap
<1>6. Swap'
  BY <1>4, <1>5 DEF Swap
<1> QED
  BY <1>3, <1>4, <1>6

\* The frame that swap_in fills was already in use for the page.
LEMMA SwapInExclusive ==
  ASSUME Control, Control', Exclusive, NEW p \in Procs, NEW v \in Pages, NEW f \in Frames,
         SwapInDone(p, v, f)
  PROVE  Exclusive'
<1>1. /\ th[p].pc = "fill" /\ th[p].page = v /\ th[p].kpage = f /\ Enters(p, f, v)
      /\ Moves(th', p, "install") /\ Changes(spt', p, v) /\ ~spt'[p][v].swapped
      /\ UNCHANGED pte /\ UNCHANGED pool
  BY DEF SwapInDone
<1>2. /\ th'[p].pc = "install" /\ th'[p].page = v /\ th'[p].kpage = f
      /\ \A q \in Procs : q # p => th'[q] = th[q]
  BY <1>1 DEF Moves, SameFault
<1>3. /\ \A q \in Procs : q # p => spt'[q] = spt[q]
      /\ DOMAIN spt'[p] = DOMAIN spt[p] /\ \A u \in DOMAIN spt[p] : u # v => spt'[p][u] = spt[p][u]
  BY <1>1 DEF Changes
<1>4. Gains(p, f, v)
  <2>1. DyingStay /\ Types /\ Types'
    BY <1>1, <1>2 DEF DyingStay, Control
  <2> QED
    BY <1>1, <2>1, EnteredList
<1>5. Claim(f, p, v) /\ Place(p)
  BY <1>1 DEF Claim, Holding, Exclusive
<1>6. Within(p)
  <2>1. \A q \in Procs : q # p => Undisturbed(q)
    BY <1>1, <1>2, <1>3 DEF Undisturbed
  <2>2. ASSUME NEW g \in Frames, NEW u \in Pages, Claim(g, p, u)' PROVE Claim(g, p, u)
    <3>1. CASE ListedAs(g, p, u)'
      <4>1. ListedAs(g, p, u) \/ (g = f /\ u = v)
        BY <1>4, <3>1 DEF Gains
      <4> QED
        BY <1>5, <4>1 DEF Claim
    <3>2. CASE pte'[p][u] = g
      BY <1>1, <3>2 DEF Claim
    <3>3. CASE th'[p].kpage = g /\ th'[p].page = u
      BY <1>2, <1>5, <3>3
    <3> QED
      BY <1>2, <2>2, <3>1, <3>2, <3>3 DEF Claim, Holding
  <2>3. ASSUME NEW g \in Frames, NEW q \in Procs, NEW u \in Pages, q # p, ListedAs(g, q, u)'
        PROVE  ListedAs(g, q, u)
    BY <1>4, <2>3 DEF Gains
  <2> QED
    BY <2>1, <2>2, <2>3 DEF Within
<1>7. Place(p)'
  <2>1. Victim(p)' /\ Unlisted(p)'
    BY <1>2 DEF Victim, Unlisted
  <2>2. Exact(p)'
    <3> SUFFICES ASSUME NEW g \in Frames, NEW u \in DataPages, ListedAs(g, p, u)'
                 PROVE  pte'[p][u] = g \/ (u = v /\ g = f)
      BY <1>2 DEF Exact, Installing
    <3>1. u \in Pages
      BY DEF Pages
    <3>2. ListedAs(g, p, u) \/ (g = f /\ u = v)
      BY <1>4, <3>1 DEF Gains
    <3> QED
      BY <1>1, <1>5, <3>2 DEF Place, Exact, Installing
  <2>3. Here(p)'
    <3> SUFFICES ASSUME NEW u \in DataPages, u \in DOMAIN spt'[p], pte'[p][u] # NULL, u # v
                 PROVE  ~spt'[p][u].swapped
      BY <1>1, <1>2 DEF Here, Installing
    <3> QED
      BY <1>1, <1>3, <1>5 DEF Place, Here
  <2> QED
    BY <2>1, <2>2, <2>3 DEF Place
<1>8. OneListing'
  BY <1>1, <1>4, FirstListing
<1>9. pool' \subseteq Frames /\ \A g \in pool' : g \in pool
  BY <1>1 DEF Control, Types
<1> QED
  BY <1>6, <1>7, <1>8, <1>9, KeepExclusive

\* The slots of the pages that stay out keep what they hold.
LEMMA SwapInAway ==
  ASSUME Control, Swap, NEW p \in Procs, NEW v \in Pages, NEW f \in Frames, SwapInDone(p, v, f),
         NEW q \in Procs, NEW u \in Pages, Away(q, u)'
  PROVE  /\ Away(q, u) /\ spt'[q][u].slot = spt[q][u].slot /\ (q # p \/ u # v)
         /\ swapped_data'[spt[q][u].slot] = swapped_data[spt[q][u].slot]
<1>1. /\ AwayOnly /\ (q # p \/ u # v) /\ NULL \notin Slots
      /\ swap_table \subseteq Slots
  BY SwapInSwap, PageKinds DEF Control, Types
<1>2. Away(q, u) /\ spt'[q][u].slot = spt[q][u].slot
  BY <1>1 DEF AwayOnly
<1>3. PICK x \in Slots : x = spt[q][u].slot
  BY <1>1, <1>2 DEF Swap
<1>4. /\ v \in DOMAIN spt[p] /\ spt[p][v].swapped /\ swap_lock = NULL
      /\ swapped_data' = [t \in Slots |-> IF t = spt[p][v].slot THEN Junk ELSE swapped_data[t]]
  BY DEF SwapInDone
<1>5. x # spt[p][v].slot
  <2>1. Kind(v, spt[p][v])
    BY <1>4 DEF Control, Local, Entries
  <2>2. CASE v \in DataPages
    <3>1. Away(p, v)
      BY <1>4, <2>2, SwappedAway
    <3> QED
      BY <1>1, <1>2, <1>3, <3>1 DEF Swap
  <2>3. CASE v \notin DataPages
    <3>1. v \in CodePages \cup MapPages
      BY <1>4, <2>1, <2>3 DEF Kind
    <3> QED
      BY <1>1, <1>3, <2>1, <3>1 DEF Kind
  <2> QED
    BY <2>2, <2>3
<1>6. swapped_data'[x] = swapped_data[x]
  BY <1>4, <1>5
<1> QED
  BY <1>1, <1>2, <1>3, <1>6

\* What swap_in reads is what the process left there.
LEMMA SwapInMemory ==
  ASSUME Control, Exclusive, Swap, NEW p \in Procs, NEW v \in Pages, NEW f \in Frames,
         SwapInDone(p, v, f), \A q \in Procs : Memory(q)
  PROVE  \A q \in Procs : Memory(q)'
<1>1. /\ th[p].pc = "fill" /\ th[p].page = v /\ th[p].kpage = f /\ swap_lock = NULL
      /\ v \in DOMAIN spt[p] /\ spt[p][v].swapped
      /\ Moves(th', p, "install") /\ Changes(spt', p, v) /\ ~spt'[p][v].swapped
      /\ content' = [content EXCEPT ![f] = SwappedContent(p, v)]
      /\ UNCHANGED pte /\ UNCHANGED mem
  BY DEF SwapInDone
<1>2. /\ th'[p].pc = "install" /\ th'[p].page = v /\ th'[p].kpage = f /\ th'[p].goal = th[p].goal
      /\ \A q \in Procs : q # p => th'[q] = th[q]
  BY <1>1 DEF Moves, SameFault
<1>3. /\ \A q \in Procs : q # p => spt'[q] = spt[q]
      /\ DOMAIN spt'[p] = DOMAIN spt[p] /\ \A u \in DOMAIN spt[p] : u # v => spt'[p][u] = spt[p][u]
  BY <1>1 DEF Changes
<1>4. /\ content \in [Frames -> Contents] /\ Memory(p) /\ OneClaim /\ Local(p)
      /\ pte[p][v] = NULL
  BY <1>1 DEF Control, Types, Exclusive, Local, Fault, Faulting
<1>5. content'[f] = SwappedContent(p, v) /\ \A g \in Frames : g # f => content'[g] = content[g]
  BY <1>1, <1>4
<1>6. Claim(f, p, v)
  BY <1>1 DEF Claim, Holding
<1>7. \A q \in Procs : q # p => Undisturbed(q)
  BY <1>1, <1>2, <1>3 DEF Undisturbed
<1>8. InMemory(p)'
  <2> SUFFICES ASSUME NEW u \in Pages \ MapPages, pte[p][u] # NULL
               PROVE  content'[pte[p][u]] = mem[p][u]
    BY <1>1 DEF InMemory
  <2>1. PICK g \in Frames : g = pte[p][u]
    BY PresentClaims
  <2>2. Claim(g, p, u) /\ content[g] = mem[p][u] /\ u # v
    BY <1>4, <2>1 DEF Claim, Memory, InMemory
  <2>3. g # f
    BY <1>4, <1>6, <2>2, OnePage
  <2> QED
    BY <1>5, <2>1, <2>2, <2>3
<1>9. InSwap(p)'
  <2> SUFFICES ASSUME NEW u \in Pages, Away(p, u)'
               PROVE  swapped_data'[spt'[p][u].slot] = mem[p][u]
    BY <1>1 DEF InSwap
  <2>1. /\ Away(p, u) /\ spt'[p][u].slot = spt[p][u].slot
        /\ swapped_data'[spt[p][u].slot] = swapped_data[spt[p][u].slot]
    BY SwapInAway
  <2>2. swapped_data[spt[p][u].slot] = mem[p][u]
    BY <1>4, <2>1 DEF Memory, InSwap
  <2> QED
    BY <2>1, <2>2
<1>10. GoingOut(p)'
  BY <1>2 DEF GoingOut
<1>11. ComingIn(p)'
  <2> SUFFICES ASSUME v \notin MapPages PROVE SwappedContent(p, v) = mem[p][v]
    BY <1>1, <1>2, <1>5 DEF ComingIn
  <2>1. (Away(p, v) <=> v \in DataPages) /\ (Anonymous(spt[p][v]) <=> v \in DataPages)
    BY <1>1, SwappedAway
  <2>2. v \in DataPages \/ v \in CodePages
    <3>1. Kind(v, spt[p][v])
      BY <1>1 DEF Control, Local, Entries
    <3> QED
      BY <1>1, <3>1 DEF Kind
  <2>3. CASE v \in DataPages
    BY <1>4, <2>1, <2>3 DEF SwappedContent, Memory, InSwap
  <2>4. CASE v \in CodePages
    <3>1. v \notin DataPages
      BY <2>4, PageKinds
    <3> QED
      BY <1>4, <2>1, <2>4, <3>1 DEF SwappedContent, Memory, Unread
  <2> QED
    BY <2>2, <2>3, <2>4
<1>12. Unread(p)'
  <2>1. Young(p)' => Young(p)
    BY <1>1, <1>2 DEF Young, Faulting
  <2>2. \A u \in CodePages : mem[p][u] = Loaded(p, u)
    BY <1>4 DEF Memory, Unread
  <2>3. Young(p) => \A u \in Pages : mem[p][u] = Loaded(p, u)
    BY <1>4 DEF Memory, Unread
  <2>4. ASSUME NEW u \in DataPages, u \in DOMAIN spt'[p], ~spt'[p][u].swapped, pte[p][u] = NULL,
               u # v
        PROVE  mem[p][u] = Loaded(p, u)
    <3>1. u \in DOMAIN spt[p] /\ ~spt[p][u].swapped
      BY <1>3, <2>4
    <3> QED
      BY <1>1, <1>4, <2>4, <3>1 DEF Memory, Unread, Installing
  <2> QED
    BY <1>1, <1>2, <2>1, <2>2, <2>3, <2>4 DEF Unread, Installing
<1>13. Memory(p)'
  BY <1>8, <1>9, <1>10, <1>11, <1>12 DEF Memory
<1>14. \A g \in Frames : content'[g] = content[g] \/ Uses(p, g)
  BY <1>5, <1>6 DEF Uses
<1>15. \A q \in Procs, u \in Pages : q # p /\ Away(q, u)' =>
         Away(q, u) /\ swapped_data'[spt[q][u].slot] = swapped_data[spt[q][u].slot]
  BY SwapInAway
<1> QED
  BY <1>1, <1>4, <1>7, <1>13, <1>14, <1>15, KeepMemory

\* swap_in.
LEMMA SwapInSafe ==
  ASSUME Control, Control', Safe, NEW p \in Procs, swap_in(p)
  PROVE  Safe'
<1>1. CASE Halt("lost")
  BY <1>1, HaltSafe
<1>2. CASE ~Halt("lost")
  <2>1. PICK v \in Pages, f \in Frames : SwapInDone(p, v, f)
    BY <1>2, SwapInIs
  <2>2. Swap /\ Swap' /\ UNCHANGED foreign
    BY <2>1, SwapInSwap DEF Safe, SwapInDone
  <2>3. Exclusive => Exclusive'
    BY <2>1, SwapInExclusive
  <2>4. Exclusive /\ (\A q \in Procs : Memory(q)) => \A q \in Procs : Memory(q)'
    BY <2>1, <2>2, SwapInMemory
  <2> QED
    BY <2>2, <2>3, <2>4, SafeParts
<1> QED
  BY <1>1, <1>2

-----------------------------------------------------------------------------
(* The invariant.                                                          *)

\* And where the pages are.
LEMMA NextSafe ==
  ASSUME Control, Control', Safe, Next, Removals
  PROVE  Safe'
<1>1. PICK p \in Procs :
        \/ load(p) \/ palloc_get_page(p)
        \/ swap_out(p) \/ Save(p)
        \/ FillStack(p) \/ FillGrow(p) \/ FillFromFile(p) \/ swap_in(p) \/ Install(p)
        \/ mmap(p) \/ munmap(p) \/ MunmapPage(p) \/ MunmapEnd(p) \/ close(p)
        \/ exit(p) \/ process_exit(p) \/ thread_exit(p)
        \/ \E v \in Pages : UserWrite(p, v)
        \/ \E v \in Pages, w \in BOOLEAN : page_fault(p, v, w)
  BY DEF Next
<1>2. CASE load(p)
  BY <1>2, LoadSafe
<1>3. CASE palloc_get_page(p)
  BY <1>3, PallocSafe
<1>4. CASE swap_out(p)
  BY <1>4, SwapOutSafe
<1>5. CASE Save(p)
  BY <1>5, SaveSafe
<1>6. CASE FillStack(p)
  BY <1>6, FillStackSafe
<1>7. CASE FillGrow(p)
  BY <1>7, FillGrowSafe
<1>8. CASE FillFromFile(p)
  BY <1>8, FillFromFileSafe
<1>9. CASE swap_in(p)
  BY <1>9, SwapInSafe
<1>10. CASE Install(p)
  BY <1>10, InstallSafe
<1>11. CASE mmap(p)
  BY <1>11, MmapSafe
<1>12. CASE munmap(p)
  BY <1>12, MunmapSafe
<1>13. CASE MunmapPage(p)
  BY <1>13, MunmapPageSafe
<1>14. CASE MunmapEnd(p)
  BY <1>14, MunmapEndSafe DEF Removals
<1>15. CASE close(p)
  BY <1>15, CloseSafe
<1>16. CASE exit(p)
  BY <1>16, ExitSafe
<1>17. CASE process_exit(p)
  BY <1>17, ProcessExitSafe
<1>18. CASE thread_exit(p)
  BY <1>18, ThreadExitSafe DEF Removals
<1>19. ASSUME NEW v \in Pages, UserWrite(p, v) PROVE Safe'
  BY <1>19, UserWriteSafe
<1>20. ASSUME NEW v \in Pages, NEW w \in BOOLEAN, page_fault(p, v, w) PROVE Safe'
  BY <1>20, PageFaultSafe
<1> QED
  BY <1>1, <1>2, <1>3, <1>4, <1>5, <1>6, <1>7, <1>8, <1>9, <1>10, <1>11, <1>12, <1>13,
     <1>14, <1>15, <1>16, <1>17, <1>18, <1>19, <1>20

-----------------------------------------------------------------------------
(* Lists.                                                                  *)

INSTANCE FiniteSetTheorems

\* A set of places of a list is finite.
LEMMA FinitePlaces ==
  ASSUME NEW n \in Nat, NEW I \in SUBSET (1..n)
  PROVE  IsFiniteSet(I) /\ Cardinality(I) \in Nat
<1>1. 1 \in Int /\ n \in Int
  BY SMT
<1>2. IsFiniteSet(1..n)
  BY <1>1, FS_Interval
<1>3. IsFiniteSet(I)
  BY <1>2, FS_Subset
<1> QED
  BY <1>3, FS_CardinalityType

\* The places of a set of places are numbered by their rank, from 1 on.
LEMMA RankType ==
  ASSUME NEW n \in Nat, NEW I \in SUBSET (1..n), NEW i \in I
  PROVE  IsFiniteSet(I) /\ Cardinality(I) \in Nat /\ Rank(I, i) \in 1..Cardinality(I)
<1>1. IsFiniteSet(I) /\ Cardinality(I) \in Nat
  BY FinitePlaces
<1>2. DEFINE J == {j \in I : j <= i}
<1>3. J \subseteq I /\ i \in J
  BY SMT
<1>4. IsFiniteSet(J) /\ Cardinality(J) <= Cardinality(I) /\ Cardinality(J) \in Nat
  BY <1>1, <1>3, FS_Subset, FS_CardinalityType, SMT
<1>5. Cardinality(J) # 0
  BY <1>3, <1>4, FS_EmptySet, SMT
<1> HIDE DEF J
<1>6. Cardinality(J) \in 1..Cardinality(I)
  BY <1>1, <1>4, <1>5, SMT
<1> QED
  BY <1>1, <1>6, SMT DEF Rank, J

\* No two places have the same rank.
LEMMA RankInjective ==
  ASSUME NEW n \in Nat, NEW I \in SUBSET (1..n), NEW i \in I, NEW k \in I,
         Rank(I, i) = Rank(I, k), i < k
  PROVE  FALSE
<1>1. IsFiniteSet(I)
  BY FinitePlaces
<1>2. DEFINE J == {j \in I : j <= i}
             K == {j \in I : j <= k}
<1>3. J \subseteq K /\ k \in K /\ k \notin J /\ K \subseteq I
  <2>1. \A j \in I : j \in Int
    BY SMT
  <2>2. \A j \in I : j <= i => j <= k
    BY <2>1, SMT
  <2>3. k <= k /\ ~(k <= i)
    BY <2>1, SMT
  <2> QED
    BY <2>2, <2>3
<1>4. IsFiniteSet(K)
  BY <1>1, <1>3, FS_Subset, SMT
<1>5. Cardinality(K) = Cardinality(J)
  BY SMT DEF Rank
<1>6. K = J
  BY <1>3, <1>4, <1>5, FS_Subset, SMT
<1> QED
  BY <1>3, <1>6, SMT

\* List t takes its elements from different places of s, all of them in I.
Samples(t, s, I) ==
  /\ Cardinality(I) \in Nat /\ DOMAIN t = 1..Cardinality(I)
  /\ t = [k \in 1..Cardinality(I) |-> t[k]]
  /\ \E g \in [1..Cardinality(I) -> I] :
       /\ \A k \in 1..Cardinality(I) : t[k] = s[g[k]]
       /\ \A j, k \in 1..Cardinality(I) : g[j] = g[k] => j = k

\* A sublist does.
LEMMA SublistPlaces ==
  ASSUME NEW n \in Nat, NEW I \in SUBSET (1..n), NEW s
  PROVE  Samples(Sublist(s, I), s, I)
<1> DEFINE c == Cardinality(I)
           R == [i \in I |-> Rank(I, i)]
           g == [k \in 1..c |-> CHOOSE i \in I : Rank(I, i) = k]
<1>1. IsFiniteSet(I) /\ c \in Nat
  BY FinitePlaces
<1>2. \A i \in I : Rank(I, i) \in 1..c
  BY RankType
<1>3. \A i, k \in I : Rank(I, i) = Rank(I, k) => i = k
  <2>1. SUFFICES ASSUME NEW i \in I, NEW k \in I, Rank(I, i) = Rank(I, k), i # k PROVE FALSE
    BY SMT
  <2>2. i < k \/ k < i
    BY <2>1, SMT
  <2> QED
    BY <2>1, <2>2, RankInjective, SMT
<1>4. R \in Injection(I, 1..c)
  BY <1>2, <1>3, SMT DEF Injection, IsInjective
<1>5. IsFiniteSet(1..c) /\ Cardinality(1..c) = c
  BY <1>1, FS_Interval, SMT
<1>6. R \in Surjection(I, 1..c)
  BY <1>4, <1>5, FS_Injection, SMT
<1>7. \A k \in 1..c : \E i \in I : Rank(I, i) = k
  BY <1>6 DEF Surjection
<1>8. \A k \in 1..c : g[k] \in I /\ Rank(I, g[k]) = k
  BY <1>7, SMT
<1>9. g \in [1..c -> I]
  BY <1>8, SMT
<1>10. \A k \in 1..c : Sublist(s, I)[k] = s[g[k]]
  BY SMT DEF Sublist
<1>11. \A j, k \in 1..c : g[j] = g[k] => j = k
  BY <1>8, SMT
<1>12. DOMAIN Sublist(s, I) = 1..c /\ Sublist(s, I) = [k \in 1..c |-> Sublist(s, I)[k]]
  BY SMT DEF Sublist
<1> HIDE DEF g
<1> QED
  BY <1>1, <1>9, <1>10, <1>11, <1>12, SMT DEF Samples

\* A sublist of the frame table.
LEMMA SublistThins ==
  ASSUME Types, NEW I \in SUBSET DOMAIN frame_table
  PROVE  Thins(Sublist(frame_table, I), I)
<1> DEFINE t == Sublist(frame_table, I)
<1>1. PICK n \in Nat : n = Len(frame_table)
  BY FrameTypes
<1>2. I \in SUBSET (1..n)
  BY <1>1, FrameTypes
<1>3. Samples(t, frame_table, I)
  BY <1>2, SublistPlaces
<1> HIDE DEF t
<1>4. PICK g \in [DOMAIN t -> I] :
         /\ \A k \in DOMAIN t : t[k] = frame_table[g[k]]
         /\ \A j, k \in DOMAIN t : g[j] = g[k] => j = k
  BY <1>3 DEF Samples
<1>5. \A k \in DOMAIN t : t[k] \in FrameEntry
  BY <1>4, FrameTypes
<1>6. PICK c \in Nat : c = Cardinality(I)
  BY <1>3 DEF Samples
<1>7. t \in [1..c -> FrameEntry]
  BY <1>3, <1>5, <1>6 DEF Samples
<1>8. t \in Seq(FrameEntry)
  BY <1>6, <1>7, SMT
<1> QED
  BY <1>4, <1>8 DEF Thins, t

\* What MunmapEnd does to the frame table.
LEMMA MunmapEndFrames ==
  ASSUME Types, NEW p \in Procs, MunmapEnd(p), machine' = "running"
  PROVE  \E I \in SUBSET DOMAIN frame_table : MunmapDone(p, I)
<1> DEFINE found == {i \in DOMAIN frame_table : Unmapped(p, frame_table[i])}
           I == DOMAIN frame_table \ found
           kept == Sublist(frame_table, I)
<1>1. ~Halt("lost") /\ ~Halt("panic")
  BY DEF Halt
<1>2. /\ Free({frame_table[i].frame : i \in found})
      /\ frame_table' = [i \in 1..Len(kept) |-> Orphan(p, kept[i])]
  BY <1>1 DEF MunmapEnd
<1>3. /\ I = {i \in DOMAIN frame_table : ~Unmapped(p, frame_table[i])}
      /\ found = DOMAIN frame_table \ I /\ I \in SUBSET DOMAIN frame_table
  OBVIOUS
<1> HIDE DEF found
<1> HIDE DEF I
<1>4. Thins(kept, I)
  BY <1>3, SublistThins
<1> HIDE DEF kept
<1>5. PICK g \in [DOMAIN kept -> I] :
         /\ \A k \in DOMAIN kept : kept[k] = frame_table[g[k]]
         /\ \A j, k \in DOMAIN kept : g[j] = g[k] => j = k
  BY <1>4 DEF Thins
<1>6. kept \in Seq(FrameEntry) /\ Len(kept) \in Nat /\ DOMAIN kept = 1..Len(kept)
  BY <1>4, SMT DEF Thins
<1>7. DOMAIN frame_table' = DOMAIN kept
  BY <1>2, <1>6
<1>8. \A k \in DOMAIN kept : frame_table'[k] = Orphan(p, frame_table[g[k]])
  BY <1>2, <1>5, <1>6
<1>9. \A k \in DOMAIN kept : kept[k] \in FrameEntry
  BY <1>6, SMT
<1>10. frame_table' \in [1..Len(kept) -> FrameEntry]
  BY <1>2, <1>6, <1>9, OrphanIs DEF Stays
<1>11. frame_table' \in Seq(FrameEntry)
  BY <1>6, <1>10, SMT
<1>12. \E h \in [DOMAIN frame_table' -> I] :
         /\ \A k \in DOMAIN frame_table' : frame_table'[k] = Orphan(p, frame_table[h[k]])
         /\ \A j, k \in DOMAIN frame_table' : h[j] = h[k] => j = k
  <2>1. g \in [DOMAIN frame_table' -> I]
    BY <1>7
  <2> QED
    BY <1>5, <1>7, <1>8, <2>1
<1>13. Free({frame_table[i].frame : i \in DOMAIN frame_table \ I})
  BY <1>2, <1>3
<1>14. MunmapDone(p, I)
  BY <1>3, <1>11, <1>12, <1>13 DEF MunmapDone
<1> QED
  BY <1>3, <1>14

\* What thread_exit does to it.
LEMMA ThreadExitFrames ==
  ASSUME Types, NEW p \in Procs, thread_exit(p)
  PROVE  Thins(frame_table', {i \in DOMAIN frame_table : frame_table[i].owner # p})
<1> DEFINE I == {i \in DOMAIN frame_table : frame_table[i].owner # p}
<1>1. I \in SUBSET DOMAIN frame_table /\ frame_table' = Sublist(frame_table, I)
  BY DEF thread_exit
<1> HIDE DEF I
<1>2. Thins(frame_table', I)
  BY <1>1, SublistThins
<1> QED
  BY <1>2 DEF I

-----------------------------------------------------------------------------
(* What is proved.                                                         *)

\* What the fault handler, eviction, munmap and exit rely on holds in every
\* state, for any processes, pages, frames and swap slots: each process is where
\* its locals say (Control), the swap table is exact (Swap), and until swap_out
\* takes the frame of another process every frame has one user (Alone) and every
\* page is as its process left it, wherever it is (Kept).
THEOREM PagingInvariant == Spec => [](Control /\ Safe)
<1>1. Init => Control /\ Safe
  BY InitControl, InitSafe
<1>2. Control /\ Safe /\ [Next]_vars => (Control /\ Safe)'
  <2> SUFFICES ASSUME Control, Safe, [Next]_vars PROVE Control' /\ Safe'
    OBVIOUS
  <2>1. CASE Next
    <3>1. Removals
      BY ThreadExitFrames, MunmapEndFrames DEF Removals, Control
    <3>2. Control'
      BY <2>1, <3>1, NextControl DEF Safe
    <3> QED
      BY <2>1, <3>1, <3>2, NextSafe
  <2>2. CASE UNCHANGED vars
    BY <2>2, StutterSafe
  <2> QED
    BY <2>1, <2>2
<1> QED
  BY <1>1, <1>2, PTL DEF Spec

\* The variables keep their types.
THEOREM TypesAreKept == Spec => []TypeOK
<1>1. Control => TypeOK
  <2> SUFFICES ASSUME Control PROVE TypeOK
    OBVIOUS
  <2>1. \A p \in Procs :
          DOMAIN spt[p] \subseteq Pages /\ \A v \in DOMAIN spt[p] : spt[p][v] \in Entry
    BY EntryTypes DEF Control, Types
  <2> QED
    BY <2>1 DEF Control, Types, TypeOK
<1> QED
  BY <1>1, PagingInvariant, PTL

\* A page that is out has a slot that is in use, which no other such page has and
\* which swap_in finds as swap_out left it: no interleaving of faults, evictions,
\* unmappings and exits of any processes frees a slot too early or gives it twice.
THEOREM SlotsAreExclusive == Spec => []SlotsExclusive
<1>1. Control /\ Safe => SlotsExclusive
  BY SlotsOf
<1> QED
  BY <1>1, PagingInvariant, PTL

\* Until swap_out takes the frame of another process, no frame is given to two
\* pages and no frame in use is in the free pool, in whatever order faults,
\* evictions, unmappings and exits come.
THEOREM FramesAreExclusive == Spec => []FramesExclusive
<1>1. Control /\ Safe => FramesExclusive
  BY FramesOf
<1> QED
  BY <1>1, PagingInvariant, PTL

\* Until swap_out takes the frame of another process, no process finds anything
\* but what it last wrote, or what its executable holds, on a page that is
\* present: eviction to swap, reloading and exits of others do not show.
THEOREM EvictionIsUnseen == Spec => []Illusion
<1>1. Control /\ Safe => Illusion
  BY DEF Safe, Kept, Memory, InMemory, Illusion, Intact
<1> QED
  BY <1>1, PagingInvariant, PTL

===============================================================================
