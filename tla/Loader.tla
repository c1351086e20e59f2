------------------------------- MODULE Loader -------------------------------
(***************************************************************************)
(* load of userprog/process.c: what the headers of an executable put into  *)
(* the supplemental page table, and the stack that a program starts with.  *)
(* Addresses have ADDRESSES values, the user's are those below PHYS_BASE.  *)
(* An executable is a record: whether it opens, whether its header is      *)
(* good, its length, where its program headers are and what they say.      *)
(***************************************************************************)
EXTENDS Integers, Sequences, SequencesExt, FiniteSetsExt

CONSTANTS PAGE, PHYS_BASE, ADDRESSES,
          PhdrSize    \* the size of a program header in the file

Down(x) == x - (x % PAGE)
ROUND_UP(x) == Down(x + PAGE - 1)
is_user_vaddr(a) == a % ADDRESSES < PHYS_BASE

\* Mutant: the end of the segment may have wrapped around.
MutValidateSegment(phdr, length) ==
  /\ phdr.offset % PAGE = phdr.vaddr % PAGE
  /\ phdr.offset <= length
  /\ phdr.memsz >= phdr.filesz
  /\ phdr.memsz # 0
  /\ is_user_vaddr(phdr.vaddr)
  /\ is_user_vaddr(phdr.vaddr + phdr.memsz)

validate_segment(phdr, length) ==
  /\ phdr.offset % PAGE = phdr.vaddr % PAGE
  /\ phdr.offset <= length
  /\ phdr.memsz >= phdr.filesz
  /\ phdr.memsz # 0
  /\ is_user_vaddr(phdr.vaddr)
  /\ is_user_vaddr(phdr.vaddr + phdr.memsz)
  /\ (phdr.vaddr + phdr.memsz) % ADDRESSES >= phdr.vaddr

\* load_segment: an entry for each page; hash_insert keeps an entry that is there.
RECURSIVE load_segment(_, _, _, _, _, _)
load_segment(spt, ofs, upage, read_bytes, zero_bytes, writable) ==
  IF read_bytes = 0 /\ zero_bytes = 0 THEN spt
  ELSE LET page_read_bytes == Min({read_bytes, PAGE})
           entry == [file_ofs |-> ofs, read |-> page_read_bytes, writable |-> writable]
       IN  load_segment(IF upage \in DOMAIN spt THEN spt
                        ELSE [p \in DOMAIN spt \cup {upage} |-> IF p = upage THEN entry ELSE spt[p]],
                        ofs + page_read_bytes, upage + PAGE,
                        read_bytes - page_read_bytes, zero_bytes - (PAGE - page_read_bytes), writable)

\* The case PT_LOAD.
LoadPhdr(spt, phdr) ==
  LET page_offset == phdr.vaddr % PAGE
      all == ROUND_UP(page_offset + phdr.memsz)
      read_bytes == IF phdr.filesz > 0 THEN page_offset + phdr.filesz ELSE 0
  IN  load_segment(spt, Down(phdr.offset), Down(phdr.vaddr), read_bytes, all - read_bytes, phdr.w)

\* The loop over the program headers from the i-th; <<FALSE, ...>> is goto done.
RECURSIVE LoadPhdrs(_, _, _, _)
LoadPhdrs(exe, i, file_ofs, spt) ==
  IF i > Len(exe.phdrs) THEN <<TRUE, spt>>
  ELSE IF file_ofs < 0 \/ file_ofs > exe.length \/ file_ofs + PhdrSize > exe.length THEN <<FALSE, spt>>
  ELSE LET phdr == exe.phdrs[i]
           more(t) == LoadPhdrs(exe, i + 1, file_ofs + PhdrSize, t)
       IN  IF phdr.type \in {"DYNAMIC", "INTERP", "SHLIB"} THEN <<FALSE, spt>>
           ELSE IF phdr.type # "LOAD" THEN more(spt)
           ELSE IF validate_segment(phdr, exe.length) THEN more(LoadPhdr(spt, phdr))
           ELSE <<FALSE, spt>>

NoPages == [p \in {} |-> 0]
load(exe) == IF ~exe.opens \/ ~exe.header THEN <<FALSE, NoPages>> ELSE LoadPhdrs(exe, 1, exe.phoff, NoPages)

\* What the page fault handler puts at an address of a page with an entry: the
\* byte i of the file is i + 1, zero is 0.
Fetch(spt, a) ==
  LET e == spt[Down(a)] IN IF a % PAGE < e.read THEN e.file_ofs + (a % PAGE) + 1 ELSE 0

-----------------------------------------------------------------------------
(* setup_stack.  The stack is a function from addresses to bytes; a word w *)
(* is the bytes <<w, 0>> to <<w, 3>>.                                      *)

Push(st, bytes) ==
  LET esp == st.esp - Len(bytes)
  IN  [esp |-> esp,
       mem |-> [a \in DOMAIN st.mem \cup esp..st.esp-1 |->
                  IF a \in esp..st.esp-1 THEN bytes[a - esp + 1] ELSE st.mem[a]]]
PushWord(st, w) == Push(st, [k \in 1..4 |-> <<w, k - 1>>])

\* The strings from the i-th down to the first, with their addresses.
RECURSIVE PushStrings(_, _, _, _)
PushStrings(st, args, i, ptrs) ==
  IF i = 0 THEN [st |-> st, ptrs |-> ptrs]
  ELSE LET s == Push(st, args[i] \o <<0>>) IN PushStrings(s, args, i - 1, <<s.esp>> \o ptrs)

RECURSIVE PushPointers(_, _, _)
PushPointers(st, ptrs, i) == IF i = 0 THEN st ELSE PushPointers(PushWord(st, ptrs[i]), ptrs, i - 1)

setup_stack(args) ==
  LET strings == PushStrings([esp |-> PHYS_BASE, mem |-> NoPages], args, Len(args), <<>>)
      argv == PushPointers(PushWord(Push(strings.st, <<0>>), 0), strings.ptrs, Len(args))
  IN  PushWord(PushWord(PushWord(argv, argv.esp), Len(args)), 0)

-----------------------------------------------------------------------------
(* What a program relies on.                                               *)

\* A program header is good if its segment is in the user's memory and in the file.
GoodSegment(p, length) ==
  /\ p.vaddr + p.memsz < PHYS_BASE /\ p.memsz > 0 /\ p.filesz <= p.memsz
  /\ p.offset <= length /\ (p.vaddr - p.offset) % PAGE = 0

GoodExe(exe) ==
  /\ exe.opens /\ exe.header
  /\ exe.phdrs # <<>> => exe.phoff >= 0 /\ exe.phoff + PhdrSize * Len(exe.phdrs) <= exe.length
  /\ \A i \in 1..Len(exe.phdrs) :
       /\ exe.phdrs[i].type \notin {"DYNAMIC", "INTERP", "SHLIB"}
       /\ exe.phdrs[i].type = "LOAD" => GoodSegment(exe.phdrs[i], exe.length)

PagesOf(p) == {Down(a) : a \in p.vaddr..p.vaddr+p.memsz-1}

\* load accepts exactly the good executables; then no page is outside the user's
\* memory, and the segments that share no page with an earlier one hold their
\* bytes of the file, and zeros behind them.
Loads(exe) ==
  LET r == load(exe)
      spt == r[2]
      loads == {i \in 1..Len(exe.phdrs) : exe.phdrs[i].type = "LOAD"}
  IN  /\ r[1] = GoodExe(exe)
      /\ \A p \in DOMAIN spt : p % PAGE = 0 /\ p + PAGE <= PHYS_BASE
      /\ r[1] => \A i \in loads :
           LET p == exe.phdrs[i] IN
           (\A j \in loads : j < i => PagesOf(exe.phdrs[j]) \cap PagesOf(p) = {}) =>
             \A a \in p.vaddr..p.vaddr+p.memsz-1 :
               /\ Fetch(spt, a) = IF a < p.vaddr + p.filesz THEN p.offset + (a - p.vaddr) + 1 ELSE 0
               /\ spt[Down(a)].writable = p.w

\* The string at an address of the stack.
RECURSIVE StringAt(_, _)
StringAt(mem, a) == IF mem[a] = 0 THEN <<>> ELSE <<mem[a]>> \o StringAt(mem, a + 1)
WordAt(mem, a) == IF \A k \in 0..3 : mem[a + k] = <<mem[a][1], k>> THEN mem[a][1] ELSE -1

\* The entry point finds its arguments: above the return address argc and argv,
\* and through argv each argument and a null pointer behind the last.
ArgumentsFound(args) ==
  LET st == setup_stack(args)
      argv == WordAt(st.mem, st.esp + 8)
  IN  /\ WordAt(st.mem, st.esp + 4) = Len(args)
      /\ \A i \in 1..Len(args) : StringAt(st.mem, WordAt(st.mem, argv + 4 * (i - 1))) = args[i]
      /\ WordAt(st.mem, argv + 4 * Len(args)) = 0

=============================================================================
