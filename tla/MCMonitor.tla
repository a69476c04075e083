----------------------------- MODULE MCMonitor ------------------------------
(***************************************************************************)
(* The instance of Monitor for TLC.                                        *)
(***************************************************************************)
EXTENDS Monitor

\* Every escape with up to three flags, digits, dots or stars, every conversion,
\* letters that are none, and text around it.
FlagChars == {Minus, Zero, 50, Star, Dot, LowerL, Hash}
SmallFormats ==
  LET body(n) == {f \in [1 .. n -> FlagChars] :
                    /\ Cardinality({k \in 1 .. n : f[k] = 50}) <= 1
                    /\ Cardinality({k \in 1 .. n : f[k] = Zero}) <= 1}
      ends == {<<c>> : c \in Conversions} \cup {<<>>, <<113>>}
  IN  {<<Percent>> \o f \o e : f \in UNION {body(n) : n \in 0 .. 3}, e \in ends}
        \cup {<<97, Percent>> \o f \o <<113, 97>> : f \in UNION {body(n) : n \in 0 .. 1}}

\* With ints of 4 bits and longs of 6: zero, the largest and the smallest.
SmallWords == {0, 5, 7, 8, 31, 32, 63}
SmallTexts == {<<-1>>, <<>>, <<97, 98, 99>>, <<1>>}
SmallErrors == 0 :> <<-1>> @@ 1 :> <<117>> @@ 2 :> <<98>>

SmallKeys == {-1, 8, 10, 32, 48, 97}
SmallCommands == {0 :> 97 @@ 1 :> NUL, 0 :> 97 @@ 1 :> Zero @@ 2 :> NUL}
=============================================================================
