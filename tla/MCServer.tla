------------------------------ MODULE MCServer ------------------------------
(***************************************************************************)
(* Words of five bits, a kilo of four and slots of three bytes: sizes that *)
(* are zero, smaller than a slot, beyond the word with and without their   *)
(* suffix, and beyond the largest number of keys.                          *)
(***************************************************************************)
EXTENDS Server

Sizes ==
  {s \in [neg : BOOLEAN, digits : BOOLEAN, mag : {0, 1, 2, 7, 17, 31, 32},
          suffix : {0, 1, 2, 3}, rest : BOOLEAN] :
     /\ ~s.digits => s.mag = 0 /\ ~s.neg
     /\ s.rest => s.suffix = 1}

NoArg == [neg |-> FALSE, digits |-> FALSE, mag |-> 0, suffix |-> 0, rest |-> FALSE]
Flag(o) == [opt |-> o, arg |-> NoArg]
Capacity(a) == [opt |-> "c", arg |-> a]

MCOptions ==
  {<<>>, <<Flag("s")>>, <<Flag("h")>>, <<Flag("s"), Flag("V")>>, <<Flag("?"), Flag("s")>>}
    \union {<<Flag("s"), Capacity(a)>> : a \in Sizes}
    \union {<<Capacity(a), Flag("s"), Capacity([a EXCEPT !.mag = 7, !.neg = FALSE])>> : a \in Sizes}
=============================================================================
