-------------------------------- MODULE Values ------------------------------
(***************************************************************************)
(* The values of a statement (value.h).  Text is a sequence of symbols.    *)
(* Floating-point numbers are left out.                                    *)
(***************************************************************************)
EXTENDS Integers, Sequences

CONSTANT HalfRange   \* a stored integer lies in -HalfRange .. HalfRange - 1

ASSUME HalfRangeAssumption == HalfRange \in Nat \ {0}

IntVal(n) == <<"int", n>>
TextVal(s) == <<"text", s>>
BoolVal(b) == <<"bool", b>>
NullVal == <<"null">>

\* What a row can keep, and what a statement can compute with.
Storable == ({"int"} \X Int) \union ({"text"} \X Seq(STRING)) \union {NullVal}
Datum == Storable \union ({"bool"} \X BOOLEAN)

IsInt(v) == v[1] = "int"
IsText(v) == v[1] = "text"
IsTrue(v) == v = BoolVal(TRUE)

\* What an integer becomes when only its low bits are kept.
Truncate(n) == ((n + HalfRange) % (2 * HalfRange)) - HalfRange

\* A value as a row keeps it: integers truncated, booleans as integers.
Stored(v) ==
  CASE IsInt(v) -> IntVal(Truncate(v[2]))
    [] v[1] = "bool" -> IntVal(IF v[2] THEN 1 ELSE 0)
    [] OTHER -> v
=============================================================================
