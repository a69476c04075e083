------------------------------ MODULE Monitor -------------------------------
(***************************************************************************)
(* The console of the kernel and its monitor: kern/libs/readline.c,        *)
(* kern/libs/stdio.c, kern/driver/console.c and kern/debug/kmonitor.c, on  *)
(* the library functions of Strings and Printfmt.                          *)
(*                                                                         *)
(* kmonitor reads a line into the buffer of readline, splits it into words *)
(* in place, and looks the first one up; its commands only print.  Between *)
(* lines any other code may print, with any format.  The firmware reads a  *)
(* key for the kernel, or says -1 when none is waiting.                    *)
(***************************************************************************)
EXTENDS Printfmt

CONSTANTS BUFSIZE,  \* bytes in readline's buffer
          MAXARGS,  \* words that runcmd has room for
          Keys,     \* what the firmware may answer when a key is asked for
          Commands  \* the names of the monitor's commands, each with its '\0'

ASSUME MonitorAssumption ==
  /\ {BUFSIZE, MAXARGS} \subseteq Nat \ {0} /\ Keys \subseteq -1 .. 255
  /\ IntBits \in Nat \ {0} /\ LongBits \in Nat /\ LongBits >= IntBits

VARIABLES
  buf,     \* readline's buffer
  i,       \* how many characters of the line it holds
  screen,  \* the line as the terminal shows it
  argv,    \* the words of the last line, as pointers into buf
  func     \* the command found for it: none or one

lineVars == <<buf, i, screen, argv, func>>
vars == <<pc, printVars, lineVars>>

Backspace == 8
Newline == 10
Return13 == 13
Byte == 0 .. 255
WHITESPACE == {Space, Tab, Newline, Return13}

-----------------------------------------------------------------------------
(* readline                                                                *)

\* cputchar, and what a terminal does with the character.
cputchar(c) ==
  screen' = IF c = Backspace THEN Front(screen)
            ELSE IF c \in {Newline, Return13} THEN screen ELSE Append(screen, c)

\* Fault: the next line begins where the last one ended.
readlineGoesOn ==
  /\ In("idle") /\ pc' = "reading"
  /\ i' = i /\ screen' = <<>> /\ argv' = <<>> /\ func' = {}
  /\ UNCHANGED <<buf, printVars>>
readline ==
  /\ In("idle") /\ pc' = "reading"
  /\ i' = 0 /\ screen' = <<>> /\ argv' = <<>> /\ func' = {}
  /\ UNCHANGED <<buf, printVars>>

\* The last byte is kept for the '\0'.
Room == i < BUFSIZE - 1
Keeps(c) == c >= Space /\ Room
Erases(c) == c = Backspace /\ i > 0
Ends(c) == c \in {Newline, Return13}

Key(c) ==
  \/ /\ Keeps(c)
     /\ buf' = [buf EXCEPT ![i] = c] /\ i' = i + 1
     /\ cputchar(c) /\ UNCHANGED pc
  \/ /\ Erases(c)
     /\ i' = i - 1
     /\ cputchar(c) /\ UNCHANGED <<buf, pc>>
  \/ /\ Ends(c)
     /\ buf' = [buf EXCEPT ![i] = NUL] /\ pc' = "line"
     /\ cputchar(c) /\ UNCHANGED i

\* Other keys are dropped, and getchar asks again after a 0.
GetKey ==
  /\ In("reading")
  /\ \E c \in Keys : c >= 0 /\ Key(c)
  /\ UNCHANGED <<argv, func, printVars>>

\* No key was waiting: readline returns NULL, and the monitor reads from the
\* beginning.
NoKey ==
  /\ In("reading") /\ -1 \in Keys
  /\ pc' = "idle"
  /\ UNCHANGED <<lineVars, printVars>>

-----------------------------------------------------------------------------
(* runcmd                                                                  *)

\* strchr(WHITESPACE, c) finds c.
IsWhite(c) == c \in WHITESPACE
CutWords(m) == [a \in DOMAIN m |-> IF a < strlen(m, 0) /\ IsWhite(m[a]) THEN NUL ELSE m[a]]

\* The loop of parse: where the words begin in the line, all of them.  At the last
\* for which argv has room it says that there are too many, and goes on.
parse(m) ==
  LET words[a \in Nat] ==
        LET word == Scan(a, LAMBDA k : m[k] = NUL \/ ~IsWhite(m[k]))
            end  == Scan(word, LAMBDA k : m[k] = NUL \/ IsWhite(m[k]))
        IN  IF m[word] = NUL THEN <<>> ELSE <<word>> \o words[end]
  IN  words[0]

Called(word) == {name \in Commands : strcmp(name, word) = 0}

\* The pointers to further words lie behind argv, on what the frame of runcmd keeps
\* there: a saved register or a return address, that the kernel goes astray with, or
\* nothing that is used again.
runcmd ==
  /\ In("line")
  /\ argv' = parse(buf)
  /\ buf' = CutWords(buf)
  /\ func' = IF argv' = <<>> THEN {} ELSE Called(String(buf', argv'[1]))
  /\ pc' \in IF Len(argv') <= MAXARGS THEN {"run"} ELSE {"run", "astray"}
  /\ UNCHANGED <<i, screen, printVars>>
Astray == In("astray") /\ UNCHANGED vars

\* A command prints and returns 0, so the monitor asks for the next line.
NextLine ==
  /\ In("run") /\ pc' = "idle"
  /\ UNCHANGED <<lineVars, printVars>>

-----------------------------------------------------------------------------
Init ==
  /\ pc = "idle" /\ PrintInit
  /\ buf = [a \in 0 .. BUFSIZE - 1 |-> NUL] /\ i = 0
  /\ screen = <<>> /\ argv = <<>> /\ func = {}

\* Bound: prints are followed before the first key only; the monitor's state and
\* theirs have nothing in common.
BeforeFirstKey == screen = <<>> /\ \A a \in DOMAIN buf : buf[a] = NUL

Next == \/ BeforeFirstKey /\ Printing /\ UNCHANGED lineVars
        \/ readline \/ GetKey \/ NoKey \/ runcmd \/ NextLine \/ Astray

Spec == Init /\ [][Next]_vars

\* vprintfmt is a loop of the kernel.
FairSpec == Spec /\ WF_vars(vprintfmt /\ UNCHANGED lineVars) /\ WF_vars(Return /\ UNCHANGED lineVars)

-----------------------------------------------------------------------------
\* The types of the variables.
TypeOK ==
  /\ pc \in {"idle", "text", "escape", "reading", "line", "run", "astray"}
  /\ at \in Nat \ {0} /\ fmt \in Seq(Byte) /\ out \in Seq(Byte)
  /\ esc.width \in Int /\ esc.precision \in Int
  /\ buf \in [0 .. BUFSIZE - 1 -> Byte] /\ i \in 0 .. BUFSIZE - 1
  /\ screen \in Seq(Byte) /\ argv \in Seq(0 .. BUFSIZE - 1) /\ func \subseteq Commands

\* What the terminal shows is what is in the buffer, after any mixture of keys,
\* backspaces and keys that found the buffer full.
EchoIsLine ==
  In("reading") \/ In("line") =>
    /\ screen = [k \in 1 .. i |-> buf[k - 1]]
    /\ In("line") => buf[i] = NUL

\* The words of the line on the screen are the strings that argv points to, in
\* order.
WordAt(a) ==
  /\ ~IsWhite(screen[a + 1]) /\ (a > 0 => IsWhite(screen[a]))
WordsOfLine ==
  In("run") =>
    /\ ToSet(argv) = {a \in 0 .. i - 1 : WordAt(a)}
    /\ \A j, k \in DOMAIN argv : j < k => argv[j] < argv[k]
    /\ \A k \in DOMAIN argv :
         LET word == String(buf, argv[k])
             n    == Cardinality(DOMAIN word) - 1
         IN  /\ \A o \in 0 .. n - 1 : word[o] = screen[argv[k] + o + 1] /\ ~IsWhite(word[o])
             /\ argv[k] + n < i => IsWhite(screen[argv[k] + n + 1])

\* The kernel goes astray at a line of more words than argv has room for only.
ArgvHolds == In("astray") => Cardinality({a \in 0 .. i - 1 : WordAt(a)}) > MAXARGS

\* A command is called by its whole name.
CalledByName ==
  In("run") => func = {name \in Commands : argv # <<>> /\ name = String(buf, argv[1])}

\* From the keys to the command: readline, parse and runcmd share one buffer.
LineAsTyped == TypeOK /\ EchoIsLine /\ WordsOfLine /\ ArgvHolds /\ CalledByName

\* What is printed is what was passed, in the form its escape asks for (vprintfmt,
\* vsnprintf).
PrintedAsPassed == NumbersReadBack /\ FieldsKeepWidth /\ UnknownIsLiteral /\ BufferHolds

-----------------------------------------------------------------------------
(* The functions of Strings on whatever the buffer holds.                  *)

Blocks == {b \in (0 .. BUFSIZE) \X (0 .. BUFSIZE) \X (0 .. BUFSIZE) :
             b[1] + b[3] <= BUFSIZE /\ b[2] + b[3] <= BUFSIZE}
Replaced(d, n, Byte0(_)) ==
  [a \in DOMAIN buf |-> IF a \in d .. d + n - 1 THEN Byte0(a - d) ELSE buf[a]]

\* memmove copies a block as it was before the call, overlapping or not
\* (string.c:271), memcpy one that does not overlap, and neither touches
\* anything else.
MovesBlocks ==
  In("line") => \A b \in Blocks :
    LET moved == Replaced(b[1], b[3], LAMBDA k : buf[b[2] + k])
    IN  /\ memmove(buf, b[1], b[2], b[3]) = moved
        /\ b[1] + b[3] <= b[2] \/ b[2] + b[3] <= b[1] => memcpy(buf, b[1], b[2], b[3]) = moved

\* strcmp orders strings: it says 0 for equal ones only, changes its sign with
\* the order of its arguments, and is transitive; strncmp does the same with
\* what the first n bytes leave of the strings; memcmp agrees with it where
\* there is no '\0'.
Tails == {String(buf, s) : s \in {a \in DOMAIN buf : \E e \in DOMAIN buf : e >= a /\ buf[e] = NUL}}
Cut(x, n) == IF n \in DOMAIN x THEN [k \in 0 .. n |-> IF k = n THEN NUL ELSE x[k]] ELSE x
ComparesStrings ==
  In("line") =>
    /\ \A x, y \in Tails :
         /\ strcmp(x, y) = 0 <=> x = y
         /\ strcmp(x, y) < 0 <=> strcmp(y, x) > 0
         /\ \A z \in Tails : strcmp(x, y) <= 0 /\ strcmp(y, z) <= 0 => strcmp(x, z) <= 0
         /\ \A n \in 0 .. BUFSIZE : strncmp(x, y, n) = strcmp(Cut(x, n), Cut(y, n))
    /\ \A b \in Blocks :
         (\A k \in 0 .. b[3] - 1 : buf[b[1] + k] # NUL) =>
           memcmp(buf, b[1], b[2], b[3]) =
             strncmp([k \in 0 .. b[3] |-> IF k < b[3] THEN buf[b[1] + k] ELSE NUL],
                     [k \in 0 .. b[3] |-> IF k < b[3] THEN buf[b[2] + k] ELSE NUL], b[3])

\* strncpy writes exactly len bytes, '\0' behind the string; strcpy the string
\* with its '\0'.
CopiesStrings ==
  In("line") => \A s, d \in DOMAIN buf, len \in 0 .. BUFSIZE :
    s <= i /\ d > i /\ d + len <= BUFSIZE =>
      LET n == strlen(buf, s)
      IN  /\ strncpy(buf, d, s, len) = Replaced(d, len, LAMBDA k : IF k < n THEN buf[s + k] ELSE NUL)
          /\ n < len => strcpy(buf, d, s) = Replaced(d, n + 1, LAMBDA k : buf[s + k])
          /\ strnlen(buf, s, len) = Min({n, len})

\* string.c on any contents of the buffer, and any blocks of it.
StringsAsDefined == MovesBlocks /\ ComparesStrings /\ CopiesStrings

\* Whatever its format, a call of vprintfmt comes to the end of it: reading an
\* unknown escape again does not lead back to it.
PrintReturns == In("text") ~> In("idle")
=============================================================================
