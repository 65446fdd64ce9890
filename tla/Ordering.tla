------------------------------- MODULE Ordering ------------------------------
(***************************************************************************)
(* The keys that records are filed under (ordering.c): a primary key is    *)
(* converted into an unsigned word, and words are compared.  Integer keys  *)
(* only; text and floating-point keys are left out.                        *)
(***************************************************************************)
EXTENDS Integers

CONSTANT SignBit   \* SIGN_BIT, half the number of values a word has

ASSUME SignBitAssumption == SignBit \in Nat \ {0}

\* The integers a word can hold, and the word that holds n.
Signed == (0 - SignBit) .. (SignBit - 1)
AsUnsigned(n) == n % (2 * SignBit)

\* The word with its sign bit flipped.
pkToOk(pk) ==
  LET whole == AsUnsigned(pk)
  IN  IF whole < SignBit THEN whole + SignBit ELSE whole - SignBit

compareOrderingKeys(a, b) == IF a < b THEN -1 ELSE IF a = b THEN 0 ELSE 1
=============================================================================
