---------------------------- MODULE Sequential ----------------------------
(***************************************************************************)
(* Callers of the sequential parts of the kernel: libraries, allocators,   *)
(* the display, the keyboard, the scheduler's arithmetic and the loader.   *)
(* A behaviour is about one of them, kind: obj is the object that the      *)
(* calls work on, as the code represents it, and ref what the caller       *)
(* thinks it is.  For pure functions obj is the input, and the property    *)
(* compares the result with a definition of it.                            *)
(***************************************************************************)
EXTENDS Lists, Hash, Memory, Screen, Keyboard, Mlfqs, Loader, Arithmetic, Stdlib, Strings, Stdio

CONSTANTS
  Keys, Sizes, MaxLive,  \* hash tables; sizes and number of live blocks
  BitCnt,                \* size of the bitmap
  MaxRows, MaxTicks, ArrayLen, BufferLen

VARIABLES kind, obj, ref
vars == <<kind, obj, ref>>

-----------------------------------------------------------------------------
(* Lists: ref has the sequence of elements of each list, and the values of *)
(* the elements, which are not decreasing since the order of the elements  *)
(* in the lists is arbitrary.                                              *)

ListKeys ==
  {k \in [ListElems -> ListElems] : \A e \in ListElems : e > 1 => k[e] \in {k[e-1], k[e-1] + 1}}

InitLists ==
  /\ kind = "list"
  /\ obj = list_init
  /\ \E k \in {f \in ListKeys : f[1] = 1} : ref = [key |-> k, seq |-> [l \in ListIds |-> <<>>]]

Free == ListElems \ (ToSet(ref.seq[1]) \cup ToSet(ref.seq[2]))
Elems(l) == ref.seq[l]
Other(l) == 3 - l
SetSeq(l, s) == ref' = [ref EXCEPT !.seq[l] = s]
SetBoth(l, s, t) == ref' = [ref EXCEPT !.seq[l] = s, !.seq[Other(l)] = t]

ListInsert(l, e) ==
  \E i \in 1..Len(Elems(l))+1 :
    /\ obj' = list_insert(obj, IF i <= Len(Elems(l)) THEN Elems(l)[i] ELSE list_end(l), e)
    /\ SetSeq(l, InsertAt(Elems(l), i, e))

ListPush(l, e) ==
  \/ obj' = list_push_front(obj, l, e) /\ SetSeq(l, <<e>> \o Elems(l))
  \/ obj' = list_push_back(obj, l, e) /\ SetSeq(l, Append(Elems(l), e))

ListPop(l) ==
  /\ Elems(l) # <<>>
  /\ \/ obj' = list_pop_front(obj, l) /\ SetSeq(l, Tail(Elems(l)))
     \/ obj' = list_pop_back(obj, l) /\ SetSeq(l, Front(Elems(l)))

ListRemove(l) ==
  \E i \in 1..Len(Elems(l)) : obj' = list_remove(obj, Elems(l)[i]) /\ SetSeq(l, RemoveAt(Elems(l), i))

\* A range of one list goes before an element, or the end, of the other.
ListSplice(l) ==
  \E i, j \in 1..Len(Elems(l))+1, k \in 1..Len(Elems(Other(l)))+1 :
    LET node(m, n) == IF n <= Len(Elems(m)) THEN Elems(m)[n] ELSE list_end(m)
        s == Elems(l)
        t == Elems(Other(l))
    IN  /\ i <= j
        /\ obj' = list_splice(obj, node(Other(l), k), node(l, i), node(l, j))
        /\ SetBoth(l, SubSeq(s, 1, i - 1) \o SubSeq(s, j, Len(s)),
                   SubSeq(t, 1, k - 1) \o SubSeq(s, i, j - 1) \o SubSeq(t, k, Len(t)))

ListReverse(l) == obj' = list_reverse(obj, l) /\ SetSeq(l, Reverse(Elems(l)))

ListSort(l) ==
  /\ obj' = list_sort(obj, ref.key, l)
  /\ \E s \in SetToSeqs(ToSet(Elems(l))) : IsStableSortOf(s, Elems(l), ref.key) /\ SetSeq(l, s)

\* The list must be sorted; the new element goes behind its equals, or with the
\* order of less_priority before them.
ListInsertOrdered(l, e, strict) ==
  /\ is_sorted(obj, ref.key, list_begin(obj, l), list_end(l))
  /\ obj' = list_insert_ordered(obj, ref.key, l, e, strict)
  /\ LET before(x) == IF strict THEN ref.key[x] <= ref.key[e] ELSE ref.key[x] < ref.key[e]
         s == Elems(l)
     IN  SetSeq(l, SelectSeq(s, before) \o <<e>> \o SelectSeq(s, LAMBDA x : ~before(x)))

ListUnique(l) ==
  /\ obj' = list_unique(obj, ref.key, l, Other(l))
  /\ LET out == Repeated(Elems(l), ref.key)
         s == Elems(l)
     IN  SetBoth(l, SelectSeq(s, LAMBDA x : x \notin out),
                 Elems(Other(l)) \o SelectSeq(s, LAMBDA x : x \in out))

ListNext ==
  /\ kind = "list"
  /\ UNCHANGED kind
  /\ \E l \in ListIds :
       \/ \E e \in Free : ListInsert(l, e) \/ ListPush(l, e)
       \/ \E e \in Free, strict \in BOOLEAN : ListInsertOrdered(l, e, strict)
       \/ ListPop(l) \/ ListRemove(l) \/ ListSplice(l) \/ ListReverse(l) \/ ListSort(l)
       \/ ListUnique(l)

\* After any calls each list holds what its caller thinks, in that order, along
\* both chains of links; sorting is stable, and the maximum and the minimum are
\* the first of their value.
ListsAgree ==
  kind = "list" => \A l \in ListIds :
    LET s == ref.seq[l]
        first(better(_, _)) == s[CHOOSE i \in 1..Len(s) :
                                   \A j \in 1..Len(s) : IF j < i THEN better(s[i], s[j]) ELSE ~better(s[j], s[i])]
    IN  /\ Walk(obj, list_begin(obj, l), list_end(l)) = s
        /\ WalkBack(obj, list_rbegin(obj, l), head(l)) = Reverse(s)
        /\ list_size(obj, l) = Len(s) /\ is_tail(obj, tail(l))
        /\ \A e \in ToSet(s) : is_interior(obj, e)
        /\ s = <<>> => list_max(obj, ref.key, l) = tail(l) /\ list_min(obj, ref.key, l) = tail(l)
        /\ s # <<>> =>
             /\ list_max(obj, ref.key, l) = first(LAMBDA x, y : ref.key[x] > ref.key[y])
             /\ list_min(obj, ref.key, l) = first(LAMBDA x, y : ref.key[x] < ref.key[y])

-----------------------------------------------------------------------------
(* Hash tables: ref is the set of elements.                                *)

HashElems == [key : Keys, tag : {1, 2}]
Same(e) == {x \in ref : x.key = e.key}
Elem(s) == IF s = {} THEN NoElem ELSE CHOOSE e \in s : TRUE

InitHash == kind = "hash" /\ obj = [h |-> hash_init, ret |-> NoElem, want |-> NoElem] /\ ref = {}

Returns(r, old) == obj' = [h |-> r.h, ret |-> r.ret, want |-> old]

HashInsert(e, malloced) ==
  /\ Returns(hash_insert(obj.h, e, malloced), Elem(Same(e)))
  /\ ref' = IF Same(e) = {} THEN ref \cup {e} ELSE ref

HashReplace(e, malloced) ==
  /\ Returns(hash_replace(obj.h, e, malloced), Elem(Same(e)))
  /\ ref' = (ref \ Same(e)) \cup {e}

HashDelete(e, malloced) ==
  /\ Returns(hash_delete(obj.h, e, malloced), Elem(Same(e)))
  /\ ref' = ref \ Same(e)

HashClear == Returns([h |-> hash_clear(obj.h), ret |-> NoElem], NoElem) /\ ref' = {}

HashNext ==
  /\ kind = "hash"
  /\ UNCHANGED kind
  /\ \/ \E e \in HashElems, malloced \in BOOLEAN :
          HashInsert(e, malloced) \/ HashReplace(e, malloced) \/ HashDelete(e, malloced)
     \/ HashClear

\* A table is the set of its elements, whatever insertions, replacements and
\* deletions it saw and whether or not the memory for other buckets was found:
\* every element is found by its key, the iteration gives each once, and the old
\* element is returned.
TablesAgree ==
  kind = "hash" =>
    /\ ToSet(Iterate(obj.h, hash_first)) = ref /\ ToSet(hash_apply(obj.h)) = ref
    /\ Len(Iterate(obj.h, hash_first)) = Cardinality(ref)
    /\ hash_size(obj.h) = Cardinality(ref) /\ hash_empty(obj.h) = (ref = {})
    /\ \A e \in HashElems : hash_find(obj.h, e) = Elem(Same(e))
    /\ obj.ret = obj.want
    /\ is_power_of_2(Len(obj.h.buckets))

-----------------------------------------------------------------------------
(* Memory: ref has the live blocks with the sizes asked for.               *)

InitMemory == kind = "memory" /\ obj = malloc_init /\ ref = [p \in {} |-> 0]

Without(f, p) == [x \in DOMAIN f \ {p} |-> f[x]]
With(f, p, size) == IF p = NOWHERE THEN f ELSE [x \in DOMAIN f \cup {p} |-> IF x = p THEN size ELSE f[x]]
Lives == Cardinality(DOMAIN ref) < MaxLive

Malloc(size) ==
  /\ Lives
  /\ obj' = malloc(obj, size).m
  /\ ref' = With(ref, malloc(obj, size).p, size)

Calloc(a, b) ==
  /\ Lives /\ a * b < SizeMax
  /\ obj' = calloc(obj, a, b).m
  /\ ref' = With(ref, calloc(obj, a, b).p, a * b)

FreeBlock(p) == obj' = free(obj, p) /\ ref' = Without(ref, p)

Realloc(p, size) ==
  LET r == realloc(obj, p, size)
  IN  /\ obj' = r.m
      /\ ref' = IF size # 0 /\ r.p = NOWHERE THEN ref ELSE With(Without(ref, p), r.p, size)

MemoryNext ==
  /\ kind = "memory"
  /\ UNCHANGED kind
  /\ \/ \E size \in Sizes : Malloc(size)
     \/ \E a, b \in {1, 2, 3} : Calloc(a, b)
     \/ \E p \in DOMAIN ref : FreeBlock(p) \/ \E size \in Sizes : Realloc(p, size)

\* Memory is given to one caller at a time and is not lost: see MemoryExact.
BlocksExclusive == kind = "memory" => MemoryExact(obj, ref)

-----------------------------------------------------------------------------
(* Bitmaps: ref is the set of the bits that are set.                       *)

InitBitmap ==
  /\ kind = "bitmap"
  /\ \E garbage \in 0..2^ELEM_BITS-1 : obj = bitmap_create(BitCnt, garbage)
  /\ ref = {}

BitmapChange ==
  \E i \in 0..BitCnt-1 :
    \/ obj' = bitmap_flip(obj, i) /\ ref' = (ref \ {i}) \cup ({i} \ ref)
    \/ \E cnt \in 0..BitCnt-i, value \in BOOLEAN :
         /\ obj' = bitmap_set_multiple(obj, i, cnt, value)
         /\ ref' = IF value THEN ref \cup i..i+cnt-1 ELSE ref \ (i..i+cnt-1)

\* The groups of cnt equal bits, and what a search takes: the first of them.
Groups(start, cnt, value) ==
  {i \in start..BitCnt-cnt : \A j \in i..i+cnt-1 : (j \in ref) = value}

BitmapScan ==
  \E start \in 0..BitCnt, cnt \in 1..BitCnt+1, value \in BOOLEAN :
    LET groups == Groups(start, cnt, value)
        first == Min(groups)
    IN  /\ obj' = bitmap_scan_and_flip(obj, start, cnt, value).b
        /\ ref' = IF groups = {} THEN ref
                  ELSE IF value THEN ref \ (first..first+cnt-1) ELSE ref \cup first..first+cnt-1

BitmapNext ==
  /\ kind = "bitmap"
  /\ UNCHANGED kind
  /\ BitmapChange \/ BitmapScan \/ (obj' = bitmap_read(obj) /\ UNCHANGED ref)

\* A bitmap is a set of numbers: the words have exactly its bits, a search returns
\* the first group and takes nothing else, also at the end of the last word, and
\* the counts are right.
BitmapsAgree ==
  kind = "bitmap" =>
    /\ SetBits(obj) = ref
    /\ \A start \in 0..BitCnt : \A cnt \in 0..BitCnt-start :
         LET bits == ref \cap start..start+cnt-1
         IN  /\ bitmap_count(obj, start, cnt, TRUE) = Cardinality(bits)
             /\ bitmap_any(obj, start, cnt) = (bits # {}) /\ bitmap_none(obj, start, cnt) = (bits = {})
             /\ bitmap_all(obj, start, cnt) = (Cardinality(bits) = cnt)

-----------------------------------------------------------------------------
(* The display: ref is the paper.                                          *)

InitScreen ==
  /\ kind = "screen"
  /\ \E cursor \in {0, COL_CNT} :
       LET fb == [y \in 0..ROW_CNT-1 |-> [x \in 0..COL_CNT-1 |-> IF y = 0 THEN "b" ELSE BLANK]]
       IN  obj = vga_init(fb, cursor) /\ ref = Paper(fb, cursor)

ScreenNext ==
  /\ kind = "screen"
  /\ UNCHANGED kind
  /\ \E c \in {"nl", "ff", "bs", "cr", "tab", "a"} :
       /\ obj' = vga_putc(obj, c)
       /\ ref' = Write(ref, c)
       /\ Len(ref'.rows) <= MaxRows

\* After any text the display shows the end of what was written; tabs, wrapped
\* lines and scrolling lose nothing and leave no remains of earlier rows.
ScreenAgrees == kind = "screen" => Shows(obj, ref)

-----------------------------------------------------------------------------
(* The keyboard: ref has the keys held, Caps Lock, and the character meant.*)

InitKeyboard ==
  /\ kind = "keyboard"
  /\ obj = [keys |-> [v \in DOMAIN ShiftKeys |-> FALSE], caps_lock |-> FALSE, c |-> NOCHAR]
  /\ ref = [held |-> {}, caps |-> FALSE, c |-> NOCHAR]

Hit(key) ==
  /\ obj' = keyboard_interrupt(obj, key, FALSE)
  /\ ref' = [held |-> ref.held \cup ({key} \cap Range(ShiftKeys)), caps |-> ref.caps # (key = CapsLock),
             c |-> IF key \in OrdinaryKeys THEN Meaning(key, ref.held, ref.caps) ELSE NOCHAR]

Release(key) ==
  /\ obj' = keyboard_interrupt(obj, key, TRUE)
  /\ ref' = [ref EXCEPT !.held = @ \ {key}, !.c = NOCHAR]

KeyboardNext == kind = "keyboard" /\ UNCHANGED kind /\ \E key \in AllKeys : Hit(key) \/ Release(key)

\* Whatever keys are pressed and released in whatever order, each ordinary key gives
\* the character that the keys held at that moment say.
KeyboardAgrees == kind = "keyboard" => obj.c = ref.c /\ obj.caps_lock = ref.caps

-----------------------------------------------------------------------------
(* The scheduler's arithmetic.  ref counts the ticks; ahead has the pairs  *)
(* of threads of which the first used the CPU at least as much as the      *)
(* other in each second so far, and has at least the nice value of it.     *)

InitMlfqs ==
  /\ kind = "mlfqs"
  /\ \E nice \in [Threads -> {0, 5}] :
       /\ obj = [load_avg |-> 0, recent_cpu |-> [t \in Threads |-> 0], nice |-> nice,
                 priority |-> [t \in Threads |-> calc_priority(0, nice[t])]]
       /\ ref = [ticks |-> 0, used |-> [t \in Threads |-> 0],
                 ahead |-> {p \in Threads \X Threads : nice[p[1]] >= nice[p[2]]}]

\* The idle thread runs when no other is ready.
Tick ==
  /\ ref.ticks < MaxTicks
  /\ \E running \in Threads \cup {IDLE} :
     \E ready \in IF running = IDLE THEN {0} ELSE 0..Cardinality(Threads)-1 :
       LET ticks == ref.ticks + 1
           used == [t \in Threads |-> ref.used[t] + (IF t = running THEN 1 ELSE 0)]
           over == ticks % TIMER_FREQ = 0
       IN  /\ obj' = mlfqs_tick_change(obj, ticks, ready, running)
           /\ ref' = [ticks |-> ticks, used |-> IF over THEN [t \in Threads |-> 0] ELSE used,
                      ahead |-> IF over THEN {p \in ref.ahead : used[p[1]] >= used[p[2]]} ELSE ref.ahead]

SetNice ==
  \E t \in Threads, nice \in {-21, 20} :
    /\ \E p \in ref.ahead : t \in {p[1], p[2]}
    /\ obj' = thread_set_nice(obj, t, nice)
    /\ ref' = [ref EXCEPT !.ahead = {p \in @ : t \notin {p[1], p[2]}}]

MlfqsNext == kind = "mlfqs" /\ UNCHANGED kind /\ (Tick \/ SetNice)

\* When priorities are computed, a thread that used the CPU at least as much as
\* another in every second, and is as nice to others, does not go before it,
\* whatever the rounding of the decayed averages; and the load is at most the
\* number of threads.
FairPriorities ==
  kind = "mlfqs" =>
    /\ ref.ticks % SLICE = 0 => \A p \in ref.ahead :
         ref.used[p[1]] >= ref.used[p[2]] => obj.priority[p[1]] <= obj.priority[p[2]]
    /\ obj.load_avg \in 0..CONVERT_N_TO_FIXED(Cardinality(Threads))

-----------------------------------------------------------------------------
(* Pure functions: obj is the input.                                       *)

Phdrs ==
  [type : {"LOAD"}, offset : {0, 1, 5, 9}, vaddr : {0, 1, 4, 5, 7, 12, 25}, filesz : 0..5,
   memsz : {0, 1, 4, 6, 7, 31}, w : {TRUE}]
OtherPhdr(type, vaddr) == [type |-> type, offset |-> vaddr, vaddr |-> vaddr, filesz |-> 2, memsz |-> 3, w |-> FALSE]
InitLoad ==
  /\ kind = "load" /\ ref = 0
  /\ \E p \in Phdrs, type \in {"LOAD", "NOTE", "INTERP"}, vaddr \in {0, 5}, opens, header \in BOOLEAN,
       phoff \in {-1, 2, 3} :
       /\ (opens /\ header) \/ phoff = 2
       /\ obj = [opens |-> opens, header |-> header, length |-> 6, phoff |-> phoff,
                 phdrs |-> <<p, OtherPhdr(type, vaddr)>>]

\* load accepts exactly the executables whose segments are in the user's memory and
\* in the file, and the pages that its entries describe have the right bytes: see
\* Loads.
ProgramsLoaded == kind = "load" => Loads(obj)

InitStack == kind = "stack" /\ ref = 0 /\ \E n \in 1..3 : obj \in [1..n -> {<<1>>, <<1, 2>>, <<2, 1, 1>>}]

\* The stack of setup_stack gives main its arguments: see ArgumentsFound.
ArgumentsPassed == kind = "stack" => ArgumentsFound(obj)

InitDivide == kind = "divide" /\ ref = 0 /\ obj \in 1..Double-1

\* udiv64 and its relatives: no division traps and every quotient is right, also
\* where the estimate from the upper words is one off: see DivisionExact.
DivisionsExact == kind = "divide" => DivisionExact(obj)

InitSort == kind = "sort" /\ ref = 0 /\ \E n \in 0..ArrayLen : obj \in [1..n -> 1..3]

\* qsort orders every array without losing an element, and bsearch finds exactly
\* what is in it: see SortedAndFound.
SortsAndSearches == kind = "sort" => SortedAndFound(obj, sort(obj), 0..4)

InitNumber == kind = "number" /\ ref = 0 /\ obj \in -IntMax-1..IntMax

\* atoi reads every int from its numeral, the smallest one too: see NumberRead.
NumbersRead ==
  kind = "number" => \A spaces \in {<<>>, <<SPACE, SPACE>>}, plus \in BOOLEAN, after \in {<<>>, <<LETTER, 1>>} :
                       NumberRead(obj, spaces, plus, after)

InitRandom == kind = "random" /\ ref = 0 /\ \E seed \in [1..4 -> 0..3] : obj = random_init(seed)

RandomNext == kind = "random" /\ obj' = random_byte(obj).r /\ UNCHANGED <<kind, ref>>

\* The generator's state stays a permutation of the bytes, whatever the seed and
\* however many bytes were drawn, so that no byte value dies out.
StaysPermutation ==
  kind = "random" => Range(obj.s) = 0..Bytes256-1 /\ random_byte(obj).byte \in 0..Bytes256-1

\* A memory: two strings, the second at the middle, both ended.
InitString ==
  /\ kind = "string" /\ ref = 0
  /\ obj \in [0..2*BufferLen-1 -> 0..2]
  /\ obj[BufferLen - 1] = NUL /\ obj[2 * BufferLen - 1] = NUL

\* memmove and the searches of string.c do what their definitions say, also for
\* ranges that overlap: see MovesExactly and Finds.
StringsExact == kind = "string" => MovesExactly(obj) /\ Finds(obj, 0, BufferLen)

\* strlcpy and strlcat stay in the buffer of the size they are given: see CopiesFit.
CopiesBounded == kind = "string" => CopiesFit(obj, 0, BufferLen)

\* A negative width is an argument, for which the format has a star.
InitFormat ==
  /\ kind = "format" /\ ref = 0
  /\ \E flags \in SUBSET {"-", "+", " ", "#", "0"}, width \in {0, 3, 6, -6}, precision \in {-1, 0, 2},
       value \in {0, 5, -7, 83} :
       obj = [flags |-> flags, width |-> width, precision |-> precision, value |-> value]

DigitsOf(n) == Number(n, 10)
Printed(o, conversion, arg) ==
  LET format == <<"%">> \o SetToSeq(o.flags)
                  \o (IF o.width < 0 THEN <<"*">> ELSE DigitsOf(o.width))
                  \o (IF o.precision = -1 THEN <<>> ELSE <<".">> \o DigitsOf(o.precision))
                  \o conversion
  IN  vprintf(format, IF o.width < 0 THEN <<o.width, arg>> ELSE <<arg>>)

\* Zeros to the left of a number that is to be left-justified.
ZerosLeft(o) == o.width < 0 /\ "0" \in o.flags /\ "-" \notin o.flags /\ o.precision = -1

\* The value that an argument has in a signed type.
Wrapped(value, size) == CHOOSE v \in -(size \div 2)..(size \div 2)-1 : (v - value) % size = 0

\* printf of an integer of any type is what the C standard says, for every combination
\* of flags, width and precision, except for the flag 0 with a negative argument as
\* the width; strings are cut at the precision and padded to the width.
FormatsExact ==
  kind = "format" =>
    LET flags == IF obj.width < 0 THEN obj.flags \cup {"-"} ELSE obj.flags
        width == IF obj.width < 0 THEN -obj.width ELSE obj.width
        standard(value, conv) == Standard(value, conv, flags, width, obj.precision)
        str == <<"a", "b", "c", "d">>
        text == IF obj.precision = -1 THEN str ELSE Prefix(str, obj.precision)
        fill == Dup(" ", width - Len(text))
    IN  /\ ~ZerosLeft(obj) =>
             /\ \A conv \in {"u", "o", "x"} :
                  obj.value >= 0 => Printed(obj, <<conv>>, obj.value) = standard(obj.value, conv)
             /\ \A type \in {<<>>, <<"h">>, <<"h", "h">>} :
                  Printed(obj, type \o <<"d">>, obj.value) =
                    standard(Wrapped(obj.value, TypeSize[CASE type = <<>> -> "" [] Len(type) = 1 -> "h"
                                                           [] OTHER -> "hh"]), "d")
        /\ Printed(obj, <<"s">>, str) = IF "-" \in flags THEN text \o fill ELSE fill \o text

\* vsnprintf stays in the buffer, ends the text, keeps the longest beginning that
\* fits and returns the whole length; a hex dump shows each byte once, in its place.
OutputBounded ==
  kind = "format" =>
    LET output == Printed(obj, <<"d">>, obj.value)
    IN  /\ \A size \in 0..8 :
             LET r == vsnprintf(size, output)
             IN  /\ r.length = Len(output)
                 /\ Len(r.buffer) <= size
                 /\ size > 0 => r.buffer = Append(Prefix(output, size - 1), "NUL")
        /\ obj.width >= 0 => DumpsAll(obj.width, 3 * obj.precision + 3)

-----------------------------------------------------------------------------

Init ==
  \/ InitLists \/ InitHash \/ InitMemory \/ InitBitmap \/ InitScreen \/ InitKeyboard \/ InitMlfqs
  \/ InitLoad \/ InitStack \/ InitDivide \/ InitSort \/ InitNumber \/ InitRandom \/ InitString \/ InitFormat

Next == ListNext \/ HashNext \/ MemoryNext \/ BitmapNext \/ ScreenNext \/ KeyboardNext \/ MlfqsNext
        \/ RandomNext

Spec == Init /\ [][Next]_vars

\* The kernel's containers, after any calls, are the sequences, sets and maps that
\* their callers take them for: list.c, hash.c and bitmap.c.
ContainersAgree == ListsAgree /\ TablesAgree /\ BitmapsAgree

\* After any keys and any text, what is read is what was typed, and what is on the
\* display is what was written: kbd.c and vga.c.
ConsoleAgrees == KeyboardAgrees /\ ScreenAgrees

\* load and setup_stack: an executable is accepted exactly when its segments fit,
\* its pages have the right bytes, and main finds its arguments.
ProgramsStart == ProgramsLoaded /\ ArgumentsPassed

\* The library functions return what their definitions say, for every input of a
\* bounded set: division, sorting and searching, numbers, random bytes, strings,
\* bounded copies and formatted output.
LibraryExact ==
  /\ DivisionsExact /\ SortsAndSearches /\ NumbersRead /\ StaysPermutation
  /\ StringsExact /\ CopiesBounded /\ FormatsExact /\ OutputBounded

=============================================================================
