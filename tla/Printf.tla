------------------------------- MODULE Printf -------------------------------
(***************************************************************************)
(* _vsnprintf of the printf library in the bootloader (printf.c), as built: *)
(* without floating point and long long.  It goes through the format and    *)
(* gives character by character to an output function, which may have no    *)
(* room for them, or drop them; integers are converted in a buffer of fixed *)
(* size, last digit first.                                                  *)
(*                                                                         *)
(* A character is a string of one character, or "NUL".  int, short and char *)
(* are cut down to Bits, ShortBits and CharBits; long is int, as on rv32.   *)
(***************************************************************************)
EXTENDS Integers, Sequences, FiniteSets, SequencesExt

CONSTANTS
  Bits, ShortBits, CharBits,
  BufSize,     \* PRINTF_NTOA_BUFFER_SIZE
  Directives,  \* the directives of formats, each with its argument
  Capacity,    \* bound: characters of memory from snprintf's buffer on
  Counts       \* what snprintf is told of the room in it

VARIABLES
  directive, \* the one in the format
  format,    \* without the terminating NUL
  at,        \* index into it
  args,      \* the arguments that va_arg has not taken
  out,       \* the output function
  maxlen,
  idx,       \* characters so far
  ntoa,      \* buf of the last integer that was converted
  said,      \* everything that was given to the output function
  sent,      \* what went on to _putchar, or to the function given to fctprintf
  buffer     \* what is in the buffer of snprintf, and behind it

printfVars == <<directive, format, at, args, out, maxlen, idx, ntoa, said, sent, buffer>>

Abs(v) == IF v < 0 THEN -v ELSE v
ToSigned(v, bits) == IF v >= 2^(bits - 1) THEN v - 2^bits ELSE v

-----------------------------------------------------------------------------
(* From the format to the fields of a directive: a record p of what has been *)
(* evaluated of it goes from one to the next.                               *)

FlagOf == [c \in {"0", "-", "+", " ", "#"} |->
             CASE c = "0" -> "zero" [] c = "-" -> "left" [] c = "+" -> "plus"
               [] c = " " -> "space" [] c = "#" -> "hash"]
LowerDigits == <<"0", "1", "2", "3", "4", "5", "6", "7", "8", "9", "a", "b", "c", "d", "e", "f">>
UpperDigits == <<"0", "1", "2", "3", "4", "5", "6", "7", "8", "9", "A", "B", "C", "D", "E", "F">>
DigitValue == [c \in {LowerDigits[n + 1] : n \in 0 .. 9} |->
                 CHOOSE n \in 0 .. 9 : LowerDigits[n + 1] = c]

Char(i) == IF i <= Len(format) THEN format[i] ELSE "NUL"
\* Mutant: one character, no more.
After_One(i, S) == IF Char(i) \in S THEN i + 1 ELSE i
\* Where the characters of S that begin at i end.
After(i, S) == Min({j \in i .. Len(format) + 1 : Char(j) \notin S})
\* The number whose digits they are.
Atoi(i, j) == LET value[k \in i .. j] ==
                    IF k = i THEN 0 ELSE (10 * value[k - 1] + DigitValue[Char(k - 1)]) % 2^Bits
              IN  value[j]

\* format++ after a *, for which va_arg took an argument.
Star(p) == [p EXCEPT !.at = @ + 1, !.args = Tail(@)]

EvalFlags(p) ==
  LET end == After(p.at, DOMAIN FlagOf)
  IN [p EXCEPT !.flags = {FlagOf[format[i]] : i \in p.at .. end - 1}, !.at = end]

EvalWidth(p) ==
  LET end == After(p.at, DOMAIN DigitValue)
      w == ToSigned(Head(p.args), Bits)
  IN CASE end > p.at -> [p EXCEPT !.width = Atoi(p.at, end), !.at = end]
       [] Char(p.at) = "*" -> [Star(p) EXCEPT !.width = Abs(w),
                                 !.flags = @ \cup (IF w < 0 THEN {"left"} ELSE {})]
       [] OTHER -> p

EvalPrecision(p) ==
  LET q == [p EXCEPT !.hasPrec = TRUE, !.at = @ + 1]
      end == After(q.at, DOMAIN DigitValue)
  IN CASE Char(p.at) # "." -> p
       [] Char(p.at) = "." /\ end > q.at -> [q EXCEPT !.prec = Atoi(q.at, end), !.at = end]
       [] Char(p.at) = "." /\ Char(q.at) = "*" ->
            [Star(q) EXCEPT !.prec = Max({ToSigned(Head(q.args), Bits), 0})]
       [] OTHER -> q

\* On rv32 long, ptrdiff_t and size_t are as wide as int; intmax_t is long long.
EvalLength(p) ==
  LET c == Char(p.at)
      twice == c \in {"l", "h"} /\ Char(p.at + 1) = c
  IN IF c \in {"l", "h", "t", "j", "z"}
     THEN [p EXCEPT !.at = @ + (IF twice THEN 2 ELSE 1),
                    !.length = CASE twice -> IF c = "l" THEN "ll" ELSE "hh"
                                 [] c = "h" /\ ~twice -> "h"
                                 [] c = "j" -> "ll"
                                 [] OTHER -> "l"]
     ELSE p

Unevaluated(i) == [at |-> i, args |-> args, flags |-> {}, width |-> 0, hasPrec |-> FALSE,
                   prec |-> 0, length |-> "none", conv |-> "NUL", arg |-> 0]

Integers10 == {"d", "i", "u"}
IntegerConversions == Integers10 \cup {"x", "X", "o", "b"}

Base(f) == CASE f.conv \in {"x", "X", "p"} -> 16
             [] f.conv = "o" -> 8
             [] f.conv = "b" -> 2
             [] OTHER -> 10
IsSigned(f) == f.conv \in {"d", "i"}
Upper(f) == f.conv \in {"X", "p"}

\* What the flags lose before an integer is converted; the others keep them.
Ignored(f) ==
  IF f.conv \notin IntegerConversions THEN {}
  ELSE (IF f.conv \in Integers10 THEN {"hash"} ELSE {})
       \cup (IF IsSigned(f) THEN {} ELSE {"plus", "space"})
       \cup (IF f.hasPrec THEN {"zero"} ELSE {})
Flags(f) == f.flags \ Ignored(f)

LongLong == {"ll", "j"}
\* long long is not built: its conversions print nothing, and take nothing.
TakesArgument(f) == \/ f.conv \in IntegerConversions /\ f.length \notin LongLong
                    \/ f.conv \in {"c", "s", "p"}

\* The specifier, and the argument if it takes one.
EvalSpecifier(p) ==
  LET g == [p EXCEPT !.conv = Char(p.at), !.at = @ + 1]
  IN IF TakesArgument(g) THEN [g EXCEPT !.arg = Head(g.args), !.args = Tail(@)] ELSE g
Evaluated(i) == EvalSpecifier(EvalLength(EvalPrecision(EvalWidth(EvalFlags(Unevaluated(i))))))

\* What va_arg and the casts make of the argument's bits; char is unsigned on
\* RISC-V.
Value(f) == CASE f.length = "hh" /\ f.conv # "p" -> f.arg % 2^CharBits
              [] f.length = "h" /\ f.conv # "p" ->
                   IF IsSigned(f) THEN ToSigned(f.arg % 2^ShortBits, ShortBits)
                   ELSE f.arg % 2^ShortBits
              [] OTHER -> IF IsSigned(f) THEN ToSigned(f.arg, Bits) ELSE f.arg

-----------------------------------------------------------------------------
(* Integers                                                                *)

Digit(n, upper) == IF upper THEN UpperDigits[n + 1] ELSE LowerDigits[n + 1]

Repeat(char, n) == [i \in 1 .. n |-> char]

\* The loop of _ntoa_long: what is left of the value in each round; one round at
\* least, and then while something is left and there is room.
Left(v, base) == LET left[i \in 1 .. BufSize] == IF i = 1 THEN v ELSE left[i - 1] \div base
                 IN  left
Rounds(v, base) == Cardinality({i \in 1 .. BufSize : i = 1 \/ Left(v, base)[i] # 0})
\* The digits, last one first.
Digits(v, base, upper) ==
  LET left == Left(v, base)
  IN [i \in 1 .. Rounds(v, base) |-> Digit(left[i] % base, upper)]

\* A character is appended while there is room in buf.
Push(buf, char) == IF Len(buf) < BufSize THEN Append(buf, char) ELSE buf
\* Mutant: the room is not looked at.
ZeroPad_Unbounded(buf, n) == buf \o Repeat("0", Max({n - Len(buf), 0}))
\* Each place of buf from its end on that is still below n.
ZeroPad(buf, n) == buf \o Repeat("0", Cardinality({i \in Len(buf) .. BufSize - 1 : i < n}))

\* The sign takes one place of a field that is filled with zeros.
PadWidth(f, negative) ==
  IF /\ "left" \notin Flags(f) /\ "zero" \in Flags(f) /\ f.width > 0
     /\ negative \/ Flags(f) \cap {"plus", "space"} # {}
  THEN f.width - 1 ELSE f.width

\* "handle hash": a prefix, for which zeros of the padding, or what is in their
\* place, make way.
Hash(f, buf, width) ==
  LET cut == IF ~f.hasPrec /\ buf # <<>> /\ (Len(buf) = f.prec \/ Len(buf) = width)
             THEN Max({Len(buf) - (IF Base(f) = 16 THEN 2 ELSE 1), 0})
             ELSE Len(buf)
      kept == SubSeq(buf, 1, cut)
      letter == IF Base(f) = 16 THEN Push(kept, IF Upper(f) THEN "X" ELSE "x")
                ELSE IF Base(f) = 2 THEN Push(kept, "b")
                ELSE kept
  IN Push(letter, "0")

\* _ntoa_format up to _out_rev.
NtoaFormat(f, digits, negative, hash) ==
  LET flags == Flags(f)
      width == PadWidth(f, negative)
      zeros == IF "left" \in flags THEN digits
               ELSE ZeroPad(ZeroPad(digits, f.prec), IF "zero" \in flags THEN width ELSE 0)
      prefixed == IF hash THEN Hash(f, zeros, width) ELSE zeros
  IN IF negative THEN Push(prefixed, "-")
     ELSE IF "plus" \in flags THEN Push(prefixed, "+")
     ELSE IF "space" \in flags THEN Push(prefixed, " ")
     ELSE prefixed

\* buf at the end of _ntoa_format.
NtoaLong(f) ==
  LET v == Value(f)
      digits == IF f.hasPrec /\ v = 0 THEN <<>> ELSE Digits(Abs(v), Base(f), Upper(f))
  IN NtoaFormat(f, digits, v < 0, "hash" \in Flags(f) /\ v # 0)

\* _out_rev: spaces on one side or the other.
OutRev(buf, width, flags) ==
  LET spaces == Repeat(" ", Max({width - Len(buf), 0}))
  IN IF "left" \in flags THEN Reverse(buf) \o spaces
     ELSE IF "zero" \in flags THEN Reverse(buf)
     ELSE spaces \o Reverse(buf)

-----------------------------------------------------------------------------
(* The conversions: what they give to the output function                  *)

\* %p: a fixed width, filled with zeros.
Sized(f) == IF f.conv = "p"
            THEN [f EXCEPT !.width = (Bits + 3) \div 4, !.flags = @ \cup {"zero"}]
            ELSE f
Integer(f) == OutRev(NtoaLong(Sized(f)), Sized(f).width, Flags(Sized(f)))

\* Text of %c and %s in its field, which the flag 0 does not change.
Field(f, text) ==
  LET spaces == Repeat(" ", Max({f.width - Len(text), 0}))
  IN IF "left" \in Flags(f) THEN text \o spaces ELSE spaces \o text

\* The part of the string that is printed.
Text(f) == SubSeq(f.arg, 1, IF f.hasPrec THEN Min({f.prec, Len(f.arg)}) ELSE Len(f.arg))

\* The switch over the specifier; % and what it does not know is printed.
Converted(f) == CASE f.conv = "c" -> Field(f, <<f.arg>>)
                  [] f.conv = "s" -> Field(f, Text(f))
                  [] f.conv \in IntegerConversions /\ ~TakesArgument(f) -> <<>>
                  [] TakesArgument(f) /\ f.conv \notin {"c", "s"} -> Integer(f)
                  [] OTHER -> <<f.conv>>

-----------------------------------------------------------------------------
(* _vsnprintf                                                              *)

\* Mutant: one more.
Room_Equal(n) == n <= maxlen
Room(n) == n < maxlen

\* The output functions _out_char and _out_fct drop a NUL.
Shown(chars) == FlattenSeq([n \in DOMAIN chars |->
                              IF chars[n] = "NUL" THEN <<>> ELSE <<chars[n]>>])

Out(chars) ==
  /\ said' = said \o chars
  /\ sent' = IF out \in {"_out_char", "_out_fct"} THEN sent \o Shown(chars) ELSE sent
  /\ buffer' = IF out # "_out_buffer" THEN buffer
               ELSE [n \in DOMAIN buffer |-> IF n >= idx /\ n < idx + Len(chars) /\ Room(n)
                                             THEN chars[n - idx + 1] ELSE buffer[n]]
  /\ idx' = idx + Len(chars)

Literal ==
  /\ at <= Len(format) /\ format[at] # "%"
  /\ Out(<<format[at]>>)
  /\ at' = at + 1
  /\ UNCHANGED <<directive, format, args, out, maxlen, ntoa>>

Directive ==
  /\ at <= Len(format) /\ format[at] = "%"
  /\ LET f == Evaluated(at + 1)
     IN /\ Out(Converted(f))
        /\ args' = f.args
        /\ ntoa' = IF f.conv \in IntegerConversions \cup {"p"} /\ TakesArgument(f)
                   THEN NtoaLong(Sized(f)) ELSE ntoa
        /\ at' = f.at
  /\ UNCHANGED <<directive, format, out, maxlen>>

\* The NUL, in the last place of a buffer that is too small; a buffer of size 0
\* has none.
Terminate ==
  /\ at = Len(format) + 1
  /\ buffer' = IF out = "_out_buffer" /\ maxlen > 0
               THEN [buffer EXCEPT ![Min({idx, maxlen - 1})] = "NUL"] ELSE buffer
  /\ at' = at + 1
  /\ UNCHANGED <<directive, format, args, out, maxlen, idx, ntoa, said, sent>>

\* A directive d as it is written, with * where d.star says so, and its
\* arguments.  A width of 0 is not written.
Decimal(n) == IF n = 0 THEN <<>> ELSE Reverse(Digits(n, 10, FALSE))
LengthOf == [none |-> <<>>, l |-> <<"l">>, ll |-> <<"l", "l">>, h |-> <<"h">>,
             hh |-> <<"h", "h">>, t |-> <<"t">>, j |-> <<"j">>, z |-> <<"z">>]
Spelled(d) ==
  <<"%">> \o SetToSeq({c \in DOMAIN FlagOf : FlagOf[c] \in d.flags})
  \o (IF d.star THEN <<"*">> ELSE Decimal(d.width))
  \o (IF d.hasPrec THEN <<".">> \o (IF d.star THEN <<"*">> ELSE Decimal(d.prec)) ELSE <<>>)
  \o LengthOf[d.length] \o <<d.conv>>
Arguments(d) ==
  (IF d.star THEN <<d.width % 2^Bits>> ELSE <<>>)
  \o (IF d.star /\ d.hasPrec THEN <<d.prec % 2^Bits>> ELSE <<>>)
  \o (IF TakesArgument(d) THEN <<d.arg>> ELSE <<>>)

\* The parser's own characters, none of which is a specifier.
Syntax == DOMAIN FlagOf \cup DOMAIN DigitValue
          \cup {"*", ".", "l", "h", "t", "j", "z", "NUL"}
Word == 0 .. 2^Bits - 1
SignedWord == -(2^(Bits - 1)) .. 2^(Bits - 1) - 1

ASSUME PrintfAssumption ==
  /\ {CharBits, ShortBits, Bits} \subseteq Nat \ {0}
  /\ CharBits < ShortBits /\ ShortBits < Bits
  /\ 7 < 2^(Bits - 1) \* the 7 of a call, as int
  /\ BufSize \in Nat \ {0}
  /\ Capacity \in Nat /\ Counts \subseteq 0 .. Capacity
\* What TLAPS does not know of powers.
ASSUME PowersAssumption ==
  \A n \in {CharBits, ShortBits, Bits} :
    2^(n - 1) \in Nat \ {0} /\ 2^n = 2 * 2^(n - 1)
\* Directives as one can write them: as unsigned numbers, with fewer digits than the
\* buffer has places, or as *, with arguments of the types that they ask for.
ASSUME DirectivesAssumption ==
  \A d \in Directives :
    /\ d.flags \subseteq {FlagOf[c] : c \in DOMAIN FlagOf}
    /\ d.star \in BOOLEAN /\ d.hasPrec \in BOOLEAN
    /\ d.length \in DOMAIN LengthOf
    /\ d.conv \in STRING \ Syntax
    /\ d.hasPrec \/ d.prec = 0
    /\ IF d.star THEN d.width \in SignedWord /\ d.prec \in SignedWord
       ELSE \A n \in {d.width, d.prec} : n \in Word /\ Rounds(n, 10) < BufSize
    /\ d.conv \in IntegerConversions \cup {"p"} => d.arg \in Word
    /\ d.conv = "c" => d.arg \in STRING
    /\ d.conv = "s" => d.arg \in Seq(STRING \ {"NUL"})

\* A call: a character, a directive and a second one, %i of 7, which tells
\* whether the first took its arguments and no more.  printf_ and vprintf_ give
\* the characters to _putchar, fctprintf to a function, snprintf_ and vsnprintf_
\* to a buffer (sprintf_ to one with room enough) or, without one, to _out_null.
PrintfInit ==
  /\ directive \in Directives
  /\ format = <<"a">> \o Spelled(directive) \o <<"%", "i">>
  /\ at = 1
  /\ args = Arguments(directive) \o <<7>>
  /\ out \in {"_out_char", "_out_fct", "_out_buffer", "_out_null"}
  /\ IF out = "_out_buffer" THEN maxlen \in Counts ELSE maxlen = 0
  /\ idx = 0
  /\ ntoa = <<>>
  /\ said = <<>>
  /\ sent = <<>>
  /\ buffer = [n \in 0 .. Capacity |-> "?"]

PrintfNext == Literal \/ Directive \/ Terminate

PrintfSpec == PrintfInit /\ [][PrintfNext]_printfVars

-----------------------------------------------------------------------------
(* Reference: what C says of a directive                                   *)

Width(d) == Abs(d.width)
LeftJustified(d) == d.width < 0 \/ "left" \in d.flags
\* C knows no flag 0 next to the flag - or a precision.
ZeroFilled(d) == ~LeftJustified(d) /\ "zero" \in d.flags /\ ~d.hasPrec
Blank(n) == Repeat(" ", Max({n, 0}))
Zeros(n) == Repeat("0", Max({n, 0}))

CDigits(d) == LET v == Value(d)
              IN IF d.hasPrec /\ v = 0 THEN <<>> ELSE Reverse(Digits(Abs(v), Base(d), Upper(d)))

\* The sign, or the prefix of a hexadecimal or octal number that is not 0.
CPrefix(d) ==
  CASE Value(d) < 0 -> <<"-">>
    [] Value(d) >= 0 /\ IsSigned(d) ->
         IF "plus" \in d.flags THEN <<"+">> ELSE IF "space" \in d.flags THEN <<" ">> ELSE <<>>
    [] d.conv \in {"x", "X", "o"} /\ "hash" \in d.flags /\ Value(d) > 0 ->
         IF d.conv = "o" THEN <<"0">> ELSE <<"0", d.conv>>
    [] OTHER -> <<>>

\* The number, padded to the precision, with its sign or prefix, in its field.
CInteger(d) ==
  LET number == Zeros(d.prec - Len(CDigits(d))) \o CDigits(d)
      fill == Width(d) - Len(CPrefix(d)) - Len(number)
  IN CASE LeftJustified(d) -> CPrefix(d) \o number \o Blank(fill)
       [] ZeroFilled(d) -> CPrefix(d) \o Zeros(fill) \o number
       [] OTHER -> Blank(fill) \o CPrefix(d) \o number

\* The string, or as much of it as the precision allows, in its field.
CString(d) ==
  LET shown == CHOOSE s \in {SubSeq(d.arg, 1, n) : n \in 0 .. Len(d.arg)} :
                 IF d.hasPrec /\ d.prec < Len(d.arg) THEN Len(s) = d.prec ELSE s = d.arg
      spaces == Blank(Width(d) - Len(shown))
  IN IF LeftJustified(d) THEN shown \o spaces ELSE spaces \o shown

CText(d) == CASE d.conv = "s" -> CString(d)
              [] d.conv = "%" -> <<"%">>
              [] OTHER -> CInteger(d)

\* Where the number, with the zeros it is filled up with, is just as wide as its
\* field, # replaces digits by the prefix.
LosesDigits(d) ==
  LET n == Len(CDigits(d))
  IN /\ Len(CPrefix(d)) > 0 /\ "hash" \in d.flags /\ ~IsSigned(d)
     /\ IF ZeroFilled(d) THEN n > Width(d) - Len(CPrefix(d)) /\ n <= Width(d) ELSE n = Width(d)
     /\ ~d.hasPrec

\* Directives whose result C defines and for which the library does not do
\* otherwise: no precision together with -, or below 0, or with %#o; no char as
\* signed; no long long; no more characters than the conversion buffer has room
\* for; and no digits lost to the prefix.
Plain(d) ==
  /\ ~(d.hasPrec /\ d.prec < 0)
  /\ d.conv \in {"d", "i", "u", "x", "X", "o"} =>
       /\ ~(d.hasPrec /\ LeftJustified(d))
       /\ ~(d.hasPrec /\ d.conv = "o" /\ "hash" \in d.flags)
       /\ ~(d.length = "hh" /\ IsSigned(d)) /\ d.length \notin LongLong
       /\ Max({d.prec, IF ZeroFilled(d) THEN Width(d) ELSE 0, Len(CDigits(d))})
            + Len(CPrefix(d)) <= BufSize
       /\ ~LosesDigits(d)
  /\ d.conv = "%" => d.flags = {} /\ d.width = 0 /\ ~d.hasPrec /\ d.length = "none"

-----------------------------------------------------------------------------
(* Properties                                                              *)

\* Whatever flags, width and precision an integer is printed with, its
\* conversion stays inside its buffer.
BufferHolds == Len(ntoa) <= BufSize

\* Plain directives print a string or an integer as C says, wherever it goes, take
\* the arguments that are theirs and leave the next one to the next directive.
PrintsAsC ==
  at = Len(format) + 2 /\ Plain(directive)
    /\ directive.conv \in {"d", "i", "u", "x", "X", "o", "s", "%"} =>
    /\ said = <<"a">> \o CText(directive) \o <<"7">>
    /\ out \in {"_out_char", "_out_fct"} => sent = said

\* snprintf, as printf.h has it: what is returned is the length of the whole text,
\* whatever the room; nothing is written behind the buffer; a NUL ends what is in it;
\* and when the returned value is less than count, that is everything.
SnprintfKeepsItsPromise ==
  at = Len(format) + 2 /\ out = "_out_buffer" =>
    LET kept == Min({Len(said), maxlen - 1})
    IN /\ idx = Len(said)
       /\ \A n \in maxlen .. Capacity : buffer[n] = "?"
       /\ maxlen > 0 => /\ \A n \in 0 .. kept - 1 : buffer[n] = said[n + 1]
                        /\ buffer[kept] = "NUL"
=============================================================================
