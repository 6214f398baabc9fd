------------------------------ MODULE PrimeGroup ------------------------------
(***************************************************************************)
(* What the signing protocols use of secp256k1: a group of prime order q   *)
(* in which a point is its discrete logarithm.  0 is infinity, 1 the       *)
(* generator, and P and q - P have the same x and opposite parities.       *)
(***************************************************************************)
EXTENDS Integers, Functions

CONSTANT q  \* group order, an odd prime

ASSUME OrderAssumption == q \in Nat /\ q > 2 /\ q % 2 = 1

Scalars == 0 .. (q - 1)

Plus(x, y) == (x + y) % q
Times(x, y) == (x * y) % q
Neg(x) == (q - x) % q
SignedBy(negated, x) == IF negated THEN Neg(x) ELSE x
EvenY(P) == P \in 1 .. ((q - 1) \div 2)
OddY(P) == P # 0 /\ ~EvenY(P)
SumOf(f) == FoldFunction(Plus, 0, f)
ProductOf(f) == FoldFunction(Times, 1, f)
Reciprocal(x) == CHOOSE y \in Scalars : Times(x, y) = 1
===============================================================================
