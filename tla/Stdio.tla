------------------------------- MODULE Stdio -------------------------------
(***************************************************************************)
(* lib/stdio.c: conversions of printf, their output into a bounded buffer, *)
(* and hex dumps.  Formats and outputs are sequences of characters; a      *)
(* digit is the one-character string of it.                                *)
(***************************************************************************)
EXTENDS Integers, Sequences, SequencesExt, FiniteSetsExt

CONSTANTS
  TypeSize,   \* the number of values of each argument type
  IntegerBuf, \* 64 in the code: the buffer for the digits of a number
  PerLine     \* 16 in the code: bytes per line of a hex dump

DigitChars == <<"0", "1", "2", "3", "4", "5", "6", "7", "8", "9", "a", "b", "c", "d", "e", "f">>
isdigit(c) == \E i \in 1..10 : DigitChars[i] = c
DigitVal(c) == (CHOOSE i \in 1..10 : DigitChars[i] = c) - 1
Base == [d |-> 10, i |-> 10, u |-> 10, o |-> 8, x |-> 16]
Group == [d |-> 3, i |-> 3, u |-> 3, o |-> 3, x |-> 4]
FlagChars == {"-", "+", " ", "#", "0", "'"}
Prefix(s, n) == SubSeq(s, 1, Min({n, Len(s)}))
Dup(ch, cnt) == [i \in 1..Max({cnt, 0}) |-> ch]

-----------------------------------------------------------------------------
(* parse_conversion.  args are the arguments that are left.                *)

RECURSIVE ParseFlags(_, _)
ParseFlags(f, flags) ==
  IF f # <<>> /\ Head(f) \in FlagChars THEN ParseFlags(Tail(f), flags \cup {Head(f)})
  ELSE [f |-> f, flags |-> (flags \ (IF "-" \in flags THEN {"0"} ELSE {}))
                               \ (IF "+" \in flags THEN {" "} ELSE {})]

RECURSIVE ParseDigits(_, _)
ParseDigits(f, n) ==
  IF f # <<>> /\ isdigit(Head(f)) THEN ParseDigits(Tail(f), n * 10 + DigitVal(Head(f))) ELSE [f |-> f, n |-> n]

\* A width or a precision: an argument or digits.
ParseNumber(f, args) ==
  IF f # <<>> /\ Head(f) = "*" THEN [f |-> Tail(f), n |-> Head(args), args |-> Tail(args)]
  ELSE LET d == ParseDigits(f, 0) IN [f |-> d.f, n |-> d.n, args |-> args]

ParseType(f) ==
  IF Len(f) >= 2 /\ f[1] \in {"h", "l"} /\ f[2] = f[1]
  THEN [f |-> SubSeq(f, 3, Len(f)), type |-> f[1] \o f[1]]
  ELSE IF f # <<>> /\ Head(f) \in {"h", "j", "l", "t", "z"} THEN [f |-> Tail(f), type |-> Head(f)]
  ELSE [f |-> f, type |-> ""]

\* The precision, -1 if there is none.
ParsePrecision(w) ==
  IF w.f # <<>> /\ Head(w.f) = "." THEN ParseNumber(Tail(w.f), w.args)
  ELSE [f |-> w.f, n |-> -1, args |-> w.args]

\* struct printf_conversion, from what was read: flags, width, precision and type.
Conversion(a, w, p, t) ==
  LET left == IF w.n < 0 THEN a.flags \cup {"-"} ELSE a.flags
  IN  [flags |-> IF p.n >= 0 THEN left \ {"0"} ELSE left,
       width |-> IF w.n < 0 THEN -w.n ELSE w.n,
       precision |-> IF p.n < 0 THEN -1 ELSE p.n, type |-> t.type, f |-> t.f, args |-> p.args]

parse_conversion(format, arguments) ==
  LET ToType(a, w, p) == Conversion(a, w, p, ParseType(p.f))
      ToPrecision(a, w) == ToType(a, w, ParsePrecision(w))
      ToWidth(a) == ToPrecision(a, ParseNumber(a.f, arguments))
  IN  ToWidth(ParseFlags(format, {}))

-----------------------------------------------------------------------------
(* Conversions.  The buffer of format_integer is built backwards, its last *)
(* character comes first here.                                             *)

RECURSIVE Accumulate(_, _, _, _)
Accumulate(value, conv, group, cnt) ==
  IF value = 0 THEN <<>>
  ELSE Accumulate(value \div Base[conv], conv, group, cnt + 1)
         \o <<DigitChars[(value % Base[conv]) + 1]>>
         \o (IF group /\ cnt > 0 /\ cnt % Group[conv] = 0 THEN <<",">> ELSE <<>>)

\* The output of format_integer: the parts of a number, padded to the field.
Field(sign, x, body, c) ==
  LET pad == c.width - Len(body) - Len(x) - Len(sign)
  IN  (IF c.flags \cap {"-", "0"} = {} THEN Dup(" ", pad) ELSE <<>>) \o sign \o x
        \o (IF "0" \in c.flags THEN Dup("0", pad) ELSE <<>>)
        \o body \o (IF "-" \in c.flags THEN Dup(" ", pad) ELSE <<>>)

format_integer(value, is_signed, negative, conv, c) ==
  LET sign == IF ~is_signed THEN <<>> ELSE IF negative THEN <<"-">>
              ELSE IF "+" \in c.flags THEN <<"+">> ELSE IF " " \in c.flags THEN <<" ">> ELSE <<>>
      x == IF "#" \in c.flags /\ value # 0 /\ conv = "x" THEN <<"0", "x">> ELSE <<>>
      digits == Accumulate(value, conv, "'" \in c.flags, 0)
      padded == Dup("0", (IF c.precision < 0 THEN 1 ELSE Min({c.precision, IntegerBuf - 1})) - Len(digits))
                  \o digits
      body == IF "#" \in c.flags /\ conv = "o" /\ (padded = <<>> \/ Head(padded) # "0")
              THEN <<"0">> \o padded ELSE padded
  IN  Field(sign, x, body, c)

format_string(string, length, c) ==
  (IF "-" \notin c.flags THEN Dup(" ", c.width - length) ELSE <<>>)
    \o SubSeq(string, 1, length)
    \o (IF "-" \in c.flags THEN Dup(" ", c.width - length) ELSE <<>>)

\* The value of an argument of a type.
Unsigned(value, type) == value % TypeSize[type]
AsSigned(value, type) ==
  LET v == Unsigned(value, type)
  IN  IF v >= TypeSize[type] \div 2 THEN v - TypeSize[type] ELSE v

\* What __vprintf prints for a conversion; x stands for X too, and <<"NULL">> for a
\* null pointer to a string.
Converted(c, conv, arg) ==
  LET s == AsSigned(arg, c.type)
      string == IF arg = <<"NULL">> THEN <<"(", "n", "u", "l", "l", ")">> ELSE arg
  IN  CASE conv \in {"d", "i"} -> format_integer(IF s < 0 THEN -s ELSE s, TRUE, s < 0, conv, c)
        [] conv \in {"o", "u", "x"} -> format_integer(Unsigned(arg, c.type), FALSE, FALSE, conv, c)
        [] conv = "c" -> format_string(<<arg>>, 1, c)
        [] conv = "s" -> format_string(string, IF c.precision = -1 THEN Len(string)
                                               ELSE Min({c.precision, Len(string)}), c)
        [] conv = "p" -> format_integer(arg, FALSE, FALSE, "x", [c EXCEPT !.flags = {"#"}])
        [] OTHER -> <<"<<no conversion>>">>

\* __vprintf.
RECURSIVE vprintf(_, _)
vprintf(format, arguments) ==
  IF format = <<>> THEN <<>>
  ELSE IF Head(format) # "%" THEN <<Head(format)>> \o vprintf(Tail(format), arguments)
  ELSE IF format[2] = "%" THEN <<"%">> \o vprintf(SubSeq(format, 3, Len(format)), arguments)
  ELSE LET Rest(c) == vprintf(Tail(c.f), IF Head(c.f) \in {"d", "i", "o", "u", "x", "c", "s", "p"}
                                         THEN Tail(c.args) ELSE c.args)
           Output(c) == Converted(c, Head(c.f), Head(c.args)) \o Rest(c)
       IN  Output(parse_conversion(Tail(format), arguments))

\* vsnprintf: what its helper keeps of the output, and what it returns.
vsnprintf(buf_size, output) ==
  LET aux == FoldLeft(LAMBDA a, ch : [length |-> a.length + 1,
                                      p |-> IF a.length < Max({buf_size - 1, 0}) THEN Append(a.p, ch) ELSE a.p],
                      [length |-> 0, p |-> <<>>], output)
  IN  [length |-> aux.length, buffer |-> aux.p \o (IF buf_size > 0 THEN <<"NUL">> ELSE <<>>)]

\* hex_dump: for each line its offset and the columns of the bytes it prints.
RECURSIVE hex_dump(_, _)
hex_dump(ofs, size) ==
  IF size = 0 THEN <<>>
  ELSE LET start == ofs % PerLine
           end == IF PerLine - start > size THEN start + size ELSE PerLine
       IN  <<[ofs |-> ofs - start, start |-> start, end |-> end]>>
             \o hex_dump(ofs + end - start, size - (end - start))

-----------------------------------------------------------------------------
(* What printf promises of an integer: see the C standard, 7.19.6.1.       *)

RECURSIVE Number(_, _)
Number(value, base) == IF value = 0 THEN <<>> ELSE Number(value \div base, base) \o <<DigitChars[(value % base) + 1]>>

\* The text that belongs to a value, for flags as written, a width and a precision
\* (-1 for none).
Standard(value, conv, flags, width, precision) ==
  LET neg == value < 0
      abs == IF neg THEN -value ELSE value
      number == Number(abs, Base[conv])
      least == IF precision = -1 THEN 1 ELSE precision
      digits == Dup("0", least - Len(number)) \o number
      alt == IF "#" \notin flags THEN <<>>
             ELSE IF conv = "x" /\ abs # 0 THEN <<"0", "x">>
             ELSE IF conv = "o" /\ (digits = <<>> \/ Head(digits) # "0") THEN <<"0">> ELSE <<>>
      sign == IF conv # "d" THEN <<>> ELSE IF neg THEN <<"-">> ELSE IF "+" \in flags THEN <<"+">>
              ELSE IF " " \in flags THEN <<" ">> ELSE <<>>
      fill == width - Len(sign \o alt \o digits)
  IN  IF "-" \in flags THEN sign \o alt \o digits \o Dup(" ", fill)
      ELSE IF "0" \in flags /\ precision = -1 THEN sign \o alt \o Dup("0", fill) \o digits
      ELSE Dup(" ", fill) \o sign \o alt \o digits

\* A dump shows every byte once, at the line and the column of its address.
DumpsAll(ofs, size) ==
  LET lines == hex_dump(ofs, size)
  IN  /\ \A a \in ofs..ofs+size-1 :
           Cardinality({n \in 1..Len(lines) :
                          \E i \in lines[n].start..lines[n].end-1 : lines[n].ofs + i = a}) = 1
      /\ \A n \in 1..Len(lines) : \A i \in lines[n].start..lines[n].end-1 :
           lines[n].ofs + i \in ofs..ofs+size-1
      /\ \A n \in 1..Len(lines) : lines[n].ofs % PerLine = 0

=============================================================================
