------------------------------ MODULE Printfmt ------------------------------
(***************************************************************************)
(* Formatted output, libs/printfmt.c: vprintfmt reads a format character   *)
(* by character and gives what it prints to putch; cprintf's putch writes  *)
(* to the console, snprintf's to a buffer.  One step of the model handles  *)
(* one character outside an escape, or one flag, field or conversion.      *)
(*                                                                         *)
(* A number is passed in a register of LongBits bits, of which an int is   *)
(* the lower IntBits; a string is passed as its characters.                *)
(***************************************************************************)
EXTENDS Strings

CONSTANTS IntBits, LongBits,
          Formats,  \* the formats in use
          Words,    \* the registers passed, and
          Texts,    \* the strings passed
          ErrorString  \* the table error_string: a function on 0 .. MAXERROR

VARIABLES
  pc,   \* "idle", "text" outside an escape, "escape" inside; others in Monitor
  fmt,  \* the format, without its '\0'
  at,   \* the next character of it
  esc,  \* what the escape has set so far
  arg,  \* the argument that was taken last (for the properties)
  out   \* what has been given to putch

printVars == <<fmt, at, esc, arg, out>>

Percent == 37
Hash == 35
Star == 42
Dot == 46
LowerL == 108
Null == <<40, 110, 117, 108, 108, 41>>
ErrorText == <<101, 114, 114, 111, 114, Space>>

\* The letters c, d, e, o, p, s, u and x, and the percent sign.
Conversions == {99, 100, 101, 111, 112, 115, 117, LowerX, Percent}
Fresh == [width |-> -1, precision |-> -1, padc |-> Space, lflag |-> 0, altflag |-> FALSE]
NullText == <<-1>>  \* for a string that is NULL

Ch == IF at > Len(fmt) THEN NUL ELSE fmt[at]
In(state) == pc = state

-----------------------------------------------------------------------------
(* The arguments, and what is printed for them.                             *)

getuint(word, lflag) == IF lflag > 0 THEN word ELSE word % 2 ^ IntBits

getint(word, lflag) ==
  LET bits == IF lflag > 0 THEN LongBits ELSE IntBits
      low  == getuint(word, lflag)
  IN  IF low >= 2 ^ (bits - 1) THEN low - 2 ^ bits ELSE low

HexDigit(n) == IF n < 10 THEN 48 + n ELSE 87 + n

\* n copies of c.
Times(n, c) == [k \in 1 .. n |-> c]

\* The pads come before the first digit.  Fault: one too many.
PadsOneMore(width, digits) == Max({width - Len(digits) + 1, 0})
Pads(width, digits) == Max({width - Len(digits), 0})

\* The digits before the last are printed first, by recursion.
printnum(num, base, width, padc) ==
  LET digits[n \in Nat] == IF n < base THEN <<HexDigit(n)>>
                           ELSE Append(digits[n \div base], HexDigit(n % base))
  IN  Times(Pads(width, digits[num]), padc) \o digits[num]

\* %s: up to precision characters, padded on either side.
Shown(text) ==
  LET p    == IF text = NullText THEN Null ELSE text
      len  == IF esc.precision < 0 THEN Len(p) ELSE Min({Len(p), esc.precision})
      body == [k \in 1 .. len |->
                 IF esc.altflag /\ p[k] \notin 32 .. 126 THEN 63 ELSE p[k]]
      gap  == Max({esc.width - len, 0})
  IN  IF esc.padc = Minus THEN body \o Times(gap, Space)
      ELSE Times(gap, esc.padc) \o body

\* Bound: %e is not called with the smallest int, whose sign cannot be changed.
HasOpposite(word) == getint(word, 0) # -(2 ^ (IntBits - 1))

\* %e: an error by its number, the sign of which does not matter.
ErrorShown(err) ==
  LET e == IF err < 0 THEN -err ELSE err
  IN  IF e \in DOMAIN ErrorString /\ ErrorString[e] # NullText THEN ErrorString[e]
      ELSE ErrorText \o printnum(e, 10, -1, Space)

\* %d
Signed(word) ==
  LET n == getint(word, esc.lflag)
  IN  IF n < 0 THEN <<Minus>> \o printnum(-n, 10, esc.width, esc.padc)
      ELSE printnum(n, 10, esc.width, esc.padc)

NumberShown(conv, word) ==
  CASE conv = 100    -> Signed(word)
    [] conv = 117    -> printnum(getuint(word, esc.lflag), 10, esc.width, esc.padc)
    [] conv = 111    -> printnum(getuint(word, esc.lflag), 8, esc.width, esc.padc)
    [] conv = LowerX -> printnum(getuint(word, esc.lflag), 16, esc.width, esc.padc)
    [] conv = 112    -> <<Zero, LowerX>> \o printnum(word, 16, esc.width, esc.padc)
    [] conv = 101    -> ErrorShown(getint(word, 0))
    [] conv = 99     -> <<word % 256>>

-----------------------------------------------------------------------------
(* The steps of vprintfmt.                                                  *)

Literal ==
  /\ In("text") /\ Ch \notin {NUL, Percent}
  /\ out' = Append(out, Ch) /\ at' = at + 1
  /\ UNCHANGED <<pc, fmt, esc, arg>>

Escape ==
  /\ In("text") /\ Ch = Percent
  /\ pc' = "escape" /\ esc' = Fresh /\ at' = at + 1
  /\ UNCHANGED <<fmt, arg, out>>

\* A flag, or the dot before the precision.
Flag ==
  /\ In("escape")
  /\ \/ Ch \in {Minus, Zero} /\ esc' = [esc EXCEPT !.padc = Ch]
     \/ Ch = Hash /\ esc' = [esc EXCEPT !.altflag = TRUE]
     \/ Ch = LowerL /\ esc' = [esc EXCEPT !.lflag = @ + 1]
     \/ Ch = Dot /\ esc' = [esc EXCEPT !.width = Max({@, 0})]
  /\ at' = at + 1
  /\ UNCHANGED <<pc, fmt, arg, out>>

\* The label process_precision: the first number is the width.
process_precision(n) ==
  IF esc.width < 0 THEN [esc EXCEPT !.width = n, !.precision = -1]
  ELSE [esc EXCEPT !.precision = n]

\* Behind the digits of a field.  Fault: the loop stays on the first of them.
DigitsEndStays == at
DigitsEnd == Scan(at, LAMBDA i : i > Len(fmt) \/ fmt[i] \notin 48 .. 57)

Field ==
  /\ In("escape")
  /\ \/ /\ Ch \in 49 .. 57
        /\ LET digits == [k \in 0 .. DigitsEnd - at |->
                           IF at + k < DigitsEnd THEN fmt[at + k] ELSE NUL]
           IN  esc' = process_precision(strtol(digits, 10).val)
        /\ at' = DigitsEnd
     \/ /\ Ch = Star
        /\ \E word \in Words : esc' = process_precision(getint(word, 0))
        /\ at' = at + 1
  /\ UNCHANGED <<pc, fmt, arg, out>>

Convert ==
  /\ In("escape") /\ Ch \in Conversions
  /\ \/ /\ Ch \notin {115, Percent}
        /\ \E word \in {w \in Words : Ch = 101 => HasOpposite(w)} : arg' = <<word>> /\ out' = out \o NumberShown(Ch, word)
     \/ /\ Ch = 115
        /\ \E text \in Texts : arg' = text /\ out' = out \o Shown(text)
     \/ Ch = Percent /\ out' = Append(out, Percent) /\ UNCHANGED arg
  /\ pc' = "text" /\ at' = at + 1
  /\ UNCHANGED <<fmt, esc>>

\* Anything else: '%' is printed, and the format read again behind it.
LastPercent == Max({k \in 1 .. at - 1 : fmt[k] = Percent})
Again == LastPercent + 1

Unknown ==
  /\ In("escape")
  /\ Ch \notin Conversions \cup 48 .. 57 \cup {Minus, Hash, LowerL, Dot, Star}
  /\ out' = Append(out, Percent)
  /\ at' = Again /\ pc' = "text"
  /\ UNCHANGED <<fmt, esc, arg>>

Finished == In("text") /\ Ch = NUL

\* vcprintf: a call, and its return.
Call ==
  /\ In("idle") /\ pc' = "text"
  /\ fmt' \in Formats /\ at' = 1
  /\ out' = <<>> /\ arg' = <<>> /\ esc' = Fresh
Return ==
  /\ Finished /\ pc' = "idle"
  /\ fmt' = <<>> /\ at' = 1 /\ out' = <<>> /\ arg' = <<>> /\ esc' = Fresh

PrintInit == fmt = <<>> /\ at = 1 /\ out = <<>> /\ arg = <<>> /\ esc = Fresh
vprintfmt == Literal \/ Escape \/ Flag \/ Field \/ Convert \/ Unknown
Printing == Call \/ vprintfmt \/ Return

-----------------------------------------------------------------------------
(* vsnprintf, whose putch is sprintputch.  b.str is what lies in the buffer *)
(* before b.buf.                                                            *)

HasRoom(b, size) == Len(b.str) < size - 1
sprintputch(ch, b, size) ==
  [str |-> IF HasRoom(b, size) THEN Append(b.str, ch) ELSE b.str, cnt |-> b.cnt + 1]

E_INVAL == 3
NULL == 0

\* The buffer at str with its '\0', and the value returned, for what vprintfmt prints.
\* No buffer, and a buffer without room for the '\0', are refused.
vsnprintf(str, size, printed) ==
  LET b == FoldLeft(LAMBDA acc, ch : sprintputch(ch, acc, size),
                    [str |-> <<>>, cnt |-> 0], printed)
  IN  IF str = NULL \/ size = 0 THEN [buf |-> <<>>, ret |-> -E_INVAL]
      ELSE [buf |-> Append(b.str, NUL), ret |-> b.cnt]

-----------------------------------------------------------------------------
\* The format is one escape with a conversion at its end.
Lone ==
  /\ Finished /\ fmt # <<>> /\ fmt[1] = Percent /\ fmt[Len(fmt)] \in Conversions
  /\ \A k \in 2 .. Len(fmt) - 1 :
       fmt[k] \in 48 .. 57 \cup {Minus, Hash, LowerL, Dot, Star}
Conversion == fmt[Len(fmt)]
Numeric == Lone /\ Conversion \in {100, 117, 111, LowerX}
Base == CASE Conversion = 111 -> 8 [] Conversion = LowerX -> 16 [] OTHER -> 10
Value == IF Conversion = 100 THEN getint(arg[1], esc.lflag) ELSE getuint(arg[1], esc.lflag)

\* A number that was printed is read back by strtol, to its end: whatever its
\* size and base, padded with zeros or spaces.  Of a negative number padded with
\* spaces strtol finds only the sign, since printnum pads behind it.
NumbersReadBack ==
  Numeric /\ esc.padc # Minus /\ (Value < 0 => esc.padc = Zero \/ esc.width <= 1) =>
    strtol([k \in 0 .. Len(out) |-> IF k < Len(out) THEN out[k + 1] ELSE NUL], Base)
      = [val |-> Value, end |-> Len(out)]

\* The field of a number or a string is as wide as its escape says, and wider
\* only for what does not fit: the sign of a number is not counted, and of a
\* string not more than precision.
FieldsKeepWidth ==
  Numeric \/ (Lone /\ Conversion = 115) =>
    LET sign == IF Numeric /\ Value < 0 THEN 1 ELSE 0
    IN  /\ Len(out) >= esc.width
        /\ Numeric /\ Len(out) - sign > Max({esc.width, 1}) =>
             (IF Value < 0 THEN -Value ELSE Value) >= Base ^ (Len(out) - sign - 1)
        /\ Conversion = 115 /\ esc.precision >= 0 =>
             Len(out) <= Max({esc.width, esc.precision})

\* An escape that is not known is printed as it stands (printfmt.c:277), with
\* its flags and fields.
UnknownIsLiteral ==
  Finished /\ fmt # <<>> =>
    LET second == Scan(2, LAMBDA i : \/ i > Len(fmt)
                                     \/ fmt[i] \notin 48 .. 57 \cup {Minus, Hash, LowerL, Dot, Star})
    IN  fmt[1] = Percent /\ (second <= Len(fmt) => fmt[second] \notin Conversions)
          /\ (\A k \in 2 .. Len(fmt) : fmt[k] # Percent) => out = fmt

\* snprintf writes inside its buffer, ends what it writes with '\0', and returns
\* the length of all that was printed (printfmt.c:331); without a buffer it writes
\* nothing, and says so.
BufferHolds ==
  Finished => \A str \in {NULL, 1}, size \in 0 .. Len(out) + 2 :
    LET r == vsnprintf(str, size, out)
        kept == Min({Len(out), size - 1})
    IN  IF str # NULL /\ size > 0
        THEN r.ret = Len(out) /\ r.buf = Append(SubSeq(out, 1, kept), NUL)
        ELSE r.ret < 0 /\ r.buf = <<>>
=============================================================================
