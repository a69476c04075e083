------------------------------ MODULE Strings -------------------------------
(***************************************************************************)
(* The string and memory functions of libs/string.c.  A memory is a        *)
(* function from addresses, counted from 0, to bytes; a pointer is an      *)
(* address.  A string by itself, where it does not matter in which memory  *)
(* it lies, is a function from offsets, with its '\0' at the end.          *)
(*                                                                         *)
(* The functions that copy strings are for strings that do not overlap, as *)
(* their comments say.  Bytes are unsigned, as char is on RISC-V.          *)
(***************************************************************************)
EXTENDS Integers, Sequences, SequencesExt, FiniteSetsExt

NUL == 0
Tab == 9
Space == 32
Plus == 43
Minus == 45
Zero == 48
LowerX == 120

\* A loop that looks at one byte after the other: where it stops.
Scan(from, Stops(_)) ==
  LET at[i \in Nat] == IF Stops(i) THEN i ELSE at[i + 1] IN at[from]

strlen(m, s) == Scan(s, LAMBDA i : m[i] = NUL) - s
strnlen(m, s, len) == Scan(s, LAMBDA i : i - s = len \/ m[i] = NUL) - s

String(m, s) == [k \in 0 .. strlen(m, s) |-> m[s + k]]

\* A pointer to c in the string, and none or one of them.
strfind(m, s, c) == Scan(s, LAMBDA i : m[i] \in {NUL, c})
strchr(m, s, c) == {strfind(m, s, c)} \ {i \in DOMAIN m : m[i] = NUL}

-----------------------------------------------------------------------------
(* Comparing.                                                              *)

strcmp(x, y) ==
  LET k == Scan(0, LAMBDA i : x[i] = NUL \/ x[i] # y[i]) IN x[k] - y[k]
strncmp(x, y, n) ==
  LET k == Scan(0, LAMBDA i : i = n \/ x[i] = NUL \/ x[i] # y[i])
  IN  IF k = n THEN 0 ELSE x[k] - y[k]
memcmp(m, s, t, n) ==
  LET k == Scan(0, LAMBDA i : i = n \/ m[s + i] # m[t + i])
  IN  IF k = n THEN 0 ELSE m[s + k] - m[t + k]

-----------------------------------------------------------------------------
(* Copying, byte by byte: what is written is read again when the blocks    *)
(* overlap.                                                                *)

Copied(m, d, s, offsets) ==
  FoldLeft(LAMBDA mem, k : [mem EXCEPT ![d + k] = mem[s + k]], m, offsets)
Upwards(n) == [k \in 1 .. n |-> k - 1]
Downwards(n) == [k \in 1 .. n |-> n - k]

memset(m, s, c, n) == [i \in DOMAIN m |-> IF i \in s .. s + n - 1 THEN c ELSE m[i]]
memcpy(m, d, s, n) == Copied(m, d, s, Upwards(n))

\* Fault: the order is chosen the other way round.
memmoveSwapped(m, d, s, n) ==
  Copied(m, d, s, IF s < d /\ s + n > d THEN Upwards(n) ELSE Downwards(n))
memmove(m, d, s, n) ==
  Copied(m, d, s, IF s < d /\ s + n > d THEN Downwards(n) ELSE Upwards(n))

strcpy(m, d, s) == memcpy(m, d, s, strlen(m, s) + 1)

\* At the end of src the pointer stays on its '\0'.
strncpy(m, d, s, len) ==
  LET n == strnlen(m, s, len) IN memset(memcpy(m, d, s, n), d + n, NUL, len - n)

-----------------------------------------------------------------------------
\* The value of a digit; 36 for what is not one.
Digit(c) == CASE c \in 48 .. 57  -> c - 48
              [] c \in 97 .. 122 -> c - 87
              [] c \in 65 .. 90  -> c - 55
              [] OTHER           -> 36

\* The number that a string begins with, and the offset behind it.
strtol(x, base) ==
  LET sign   == Scan(0, LAMBDA i : x[i] \notin {Space, Tab})
      first  == IF x[sign] \in {Plus, Minus} THEN sign + 1 ELSE sign
      hex    == base \in {0, 16} /\ x[first] = Zero /\ x[first + 1] = LowerX
      octal  == base = 0 /\ ~hex /\ x[first] = Zero
      radix  == IF hex THEN 16 ELSE IF octal THEN 8 ELSE IF base = 0 THEN 10 ELSE base
      digits == first + (IF hex THEN 2 ELSE IF octal THEN 1 ELSE 0)
      end    == Scan(digits, LAMBDA i : Digit(x[i]) >= radix)
      val    == FoldLeft(LAMBDA v, k : v * radix + Digit(x[k]), 0,
                         [k \in 1 .. end - digits |-> digits + k - 1])
  IN  [val |-> IF x[sign] = Minus THEN -val ELSE val, end |-> end]
=============================================================================
