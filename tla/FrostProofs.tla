------------------------------ MODULE FrostProofs ------------------------------
(***************************************************************************)
(* FROST's key generation and signing, for every number of participants,   *)
(* threshold and prime order: whoever finishes the key generation holds a  *)
(* share of the one key, partial signatures are accepted just when they    *)
(* are right, and accepted ones make a BIP-340 signature.                  *)
(*                                                                         *)
(* The argument has these parts.                                           *)
(*   - The remainders mod q are a ring, and a field since q is prime.      *)
(*   - SumOf and ProductOf are folds over a finite set in an order that    *)
(*     CHOOSE fixes; by induction over its subsets (SubsetInduction) any   *)
(*     order gives the same, so sums can be taken apart and exchanged.     *)
(*   - Lagrange's coefficients.  Taking one participant out of a set turns *)
(*     the coefficients of the others into those of the smaller set        *)
(*     (OneMore, Peel).  Hence the coefficients sum up to 1, the k-th      *)
(*     powers of more than k participants interpolate to 0 for k > 0, and  *)
(*     a polynomial whose degree is below the size of a quorum             *)
(*     interpolates to its constant term (PolyInterpolates).               *)
(*   - The invariant Sound: a package holds what everybody should have     *)
(*     dealt, and partial and aggregate signatures are what the packages,  *)
(*     lists and nonces make them.  The properties follow from it.         *)
(*   - The invariant IInv of the nonces, which needs none of the above.    *)
(***************************************************************************)
EXTENDS Frost, TLAPS, FiniteSetTheorems, WellFoundedInduction, NaturalsInduction

USE OrderAssumption
-----------------------------------------------------------------------------
(* The scalars: remainders mod q.                                           *)

\* Division by q: the remainder is a scalar.
LEMMA ModRange ==
  ASSUME NEW x \in Int
  PROVE  x % q \in Scalars /\ x \div q \in Int /\ x = q * (x \div q) + (x % q)
  BY DEF Scalars

\* Quotient and remainder are unique.
LEMMA ModUnique ==
  ASSUME NEW x \in Int, NEW k \in Int, NEW r \in Scalars, x = q * k + r
  PROVE  x % q = r
<1> DEFINE n == x \div q
           m == x % q
<1>1. n \in Int /\ m \in Int /\ 0 <= m /\ m < q /\ x = q * n + m
  BY ModRange DEF Scalars
<1>2. r \in Int /\ 0 <= r /\ r < q
  BY DEF Scalars
<1> HIDE DEF n, m
<1>3. q * (n - k) = r - m
  BY <1>1, <1>2
<1>4. CASE n - k >= 1
  <2>1. q * (n - k) >= q
    BY <1>1, <1>4
  <2> QED BY <1>1, <1>2, <1>3, <2>1
<1>5. CASE n - k <= -1
  <2>1. q * (n - k) <= -q
    BY <1>1, <1>5
  <2> QED BY <1>1, <1>2, <1>3, <2>1
<1>6. CASE n = k
  BY <1>1, <1>6, <1>3, <1>2 DEF m
<1> QED BY <1>1, <1>4, <1>5, <1>6

\* Every integer has a quotient and a remainder.
LEMMA Division ==
  ASSUME NEW x \in Int
  PROVE  \E k \in Int, r \in Scalars : x = q * k + r /\ x % q = r
  BY ModRange

\* A summand can be reduced first.
LEMMA ModPlus ==
  ASSUME NEW x \in Int, NEW y \in Int
  PROVE  ((x % q) + y) % q = (x + y) % q
<1>1. PICK k \in Int, m \in Scalars : x = q * k + m /\ x % q = m
  BY Division
<1>2. m \in Int /\ m + y \in Int
  BY DEF Scalars
<1>3. PICK l \in Int, r \in Scalars : m + y = q * l + r /\ (m + y) % q = r
  BY <1>2, Division
<1>4. r \in Int
  BY DEF Scalars
<1>5. x + y = q * (k + l) + r
  <2>1. q * (k + l) = q * k + q * l
    OBVIOUS
  <2>2. q * k \in Int /\ q * l \in Int
    OBVIOUS
  <2> QED BY <1>1, <1>2, <1>3, <1>4, <2>1, <2>2
<1>6. (x + y) % q = r
  <2>1. x + y \in Int /\ k + l \in Int
    OBVIOUS
  <2> QED BY <1>5, <2>1, ModUnique, Zenon
<1> QED BY <1>1, <1>3, <1>6

\* A factor can be reduced first.
LEMMA ModTimes ==
  ASSUME NEW x \in Int, NEW y \in Int
  PROVE  ((x % q) * y) % q = (x * y) % q
<1>1. PICK k \in Int, m \in Scalars : x = q * k + m /\ x % q = m
  BY Division
<1>2. m \in Int /\ m * y \in Int
  BY DEF Scalars
<1>3. PICK l \in Int, r \in Scalars : m * y = q * l + r /\ (m * y) % q = r
  BY <1>2, Division
<1>4. r \in Int
  BY DEF Scalars
<1>5. x * y = q * (k * y + l) + r
  <2>1. x * y = (q * k) * y + m * y
    <3>1. q * k \in Int
      OBVIOUS
    <3>2. ASSUME NEW u \in Int, NEW v \in Int
          PROVE  (u + v) * y = u * y + v * y
      OBVIOUS
    <3> QED BY <1>1, <1>2, <3>1, <3>2
  <2>2. (q * k) * y = q * (k * y)
    OBVIOUS
  <2>3. q * (k * y + l) = q * (k * y) + q * l
    OBVIOUS
  <2>4. q * (k * y) \in Int /\ q * l \in Int
    OBVIOUS
  <2> QED BY <1>3, <1>4, <2>1, <2>2, <2>3, <2>4
<1>6. (x * y) % q = r
  <2>1. x * y \in Int /\ k * y + l \in Int
    OBVIOUS
  <2> QED BY <1>5, <2>1, ModUnique, Zenon
<1> QED BY <1>1, <1>3, <1>6

\* Scalars are integers.
LEMMA ScalarsInt == Scalars \subseteq Int
  BY DEF Scalars

\* A scalar is its own remainder.
LEMMA ModSmall ==
  ASSUME NEW x \in Scalars
  PROVE  x % q = x
<1>1. x \in Int /\ x = q * 0 + x
  BY DEF Scalars
<1> QED BY <1>1, ModUnique

\* The operators give scalars.
LEMMA Closed ==
  ASSUME NEW x \in Int, NEW y \in Int
  PROVE  Plus(x, y) \in Scalars /\ Times(x, y) \in Scalars /\ Neg(x) \in Scalars
  BY ModRange DEF Plus, Times, Neg

\* Plus, Times and Neg of remainders are the remainders of sum, product, negative.
LEMMA PlusMod ==
  ASSUME NEW x \in Int, NEW y \in Int
  PROVE  /\ Plus(x % q, y % q) = (x + y) % q
         /\ Times(x % q, y % q) = (x * y) % q
         /\ Neg(x % q) = (-x) % q
<1>1. x % q \in Int /\ y % q \in Int
  BY ModRange, ScalarsInt
<1>2. Plus(x % q, y % q) = (x + (y % q)) % q
  BY <1>1, ModPlus DEF Plus
<1>3. ((y % q) + x) % q = (y + x) % q
  BY ModPlus
<1>4. Times(x % q, y % q) = (x * (y % q)) % q
  BY <1>1, ModTimes DEF Times
<1>5. ((y % q) * x) % q = (y * x) % q
  BY ModTimes
<1>6. Neg(x % q) = (-x) % q
  <2>1. PICK k \in Int, m \in Scalars : x = q * k + m /\ x % q = m
    BY Division
  <2>2. m \in Int /\ q - m \in Int
    BY DEF Scalars
  <2>3. PICK l \in Int, r \in Scalars : q - m = q * l + r /\ (q - m) % q = r
    BY <2>2, Division
  <2>4. r \in Int
    BY DEF Scalars
  <2>5. -x = q * (l - k - 1) + r
    <3>1. q * (l - k - 1) = q * l - q * k - q
      OBVIOUS
    <3>2. q * l \in Int /\ q * k \in Int
      OBVIOUS
    <3> QED BY <2>1, <2>2, <2>3, <2>4, <3>1, <3>2
  <2>6. (-x) % q = r
    BY <2>5, ModUnique
  <2> QED BY <2>1, <2>3, <2>6 DEF Neg
<1> QED BY <1>2, <1>3, <1>4, <1>5, <1>6, ScalarsInt

\* The ring of scalars, law by law: the sum commutes,
LEMMA PlusComm ==
  ASSUME NEW x \in Scalars, NEW y \in Scalars
  PROVE  Plus(x, y) = Plus(y, x) /\ Plus(x, y) \in Scalars
<1>1. x \in Int /\ y \in Int
  BY ScalarsInt
<1> QED BY <1>1, Closed DEF Plus

\* associates,
LEMMA PlusAssoc ==
  ASSUME NEW x \in Scalars, NEW y \in Scalars, NEW z \in Scalars
  PROVE  Plus(Plus(x, y), z) = Plus(x, Plus(y, z))
<1>1. x \in Int /\ y \in Int /\ z \in Int /\ x + y \in Int /\ y + z \in Int
  BY ScalarsInt
<1>2. (y + z) % q \in Int
  BY <1>1, ModRange, ScalarsInt
<1>3. (((x + y) % q) + z) % q = ((x + y) + z) % q
  BY <1>1, ModPlus, Zenon
<1>4. (((y + z) % q) + x) % q = ((y + z) + x) % q
  BY <1>1, ModPlus, Zenon
<1>5. x + ((y + z) % q) = ((y + z) % q) + x /\ (y + z) + x = (x + y) + z
  BY <1>1, <1>2
<1>6. Plus(x, Plus(y, z)) = (((y + z) % q) + x) % q
  BY <1>5, Zenon DEF Plus
<1>7. Plus(Plus(x, y), z) = (((x + y) % q) + z) % q
  BY Zenon DEF Plus
<1> QED BY <1>3, <1>4, <1>5, <1>6, <1>7

\* and has 0 as its neutral element;
LEMMA PlusZero ==
  ASSUME NEW x \in Scalars
  PROVE  Plus(x, 0) = x /\ Plus(0, x) = x /\ 0 \in Scalars
<1>1. x \in Int /\ x + 0 = x /\ 0 + x = x
  BY ScalarsInt
<1> QED BY <1>1, ModSmall DEF Plus, Scalars

\* the product commutes,
LEMMA TimesComm ==
  ASSUME NEW x \in Scalars, NEW y \in Scalars
  PROVE  Times(x, y) = Times(y, x) /\ Times(x, y) \in Scalars
<1>1. x \in Int /\ y \in Int
  BY ScalarsInt
<1>2. x * y = y * x
  BY <1>1
<1> QED BY <1>1, <1>2, Closed DEF Times

\* associates,
LEMMA TimesAssoc ==
  ASSUME NEW x \in Scalars, NEW y \in Scalars, NEW z \in Scalars
  PROVE  Times(Times(x, y), z) = Times(x, Times(y, z))
<1>1. x \in Int /\ y \in Int /\ z \in Int /\ x * y \in Int /\ y * z \in Int
  BY ScalarsInt
<1>2. (y * z) % q \in Int
  BY <1>1, ModRange, ScalarsInt
<1>3. (((x * y) % q) * z) % q = ((x * y) * z) % q
  BY <1>1, ModTimes, Zenon
<1>4. (((y * z) % q) * x) % q = ((y * z) * x) % q
  BY <1>1, ModTimes, Zenon
<1>5. x * ((y * z) % q) = ((y * z) % q) * x /\ (y * z) * x = (x * y) * z
  BY <1>1, <1>2
<1>6. Times(x, Times(y, z)) = (((y * z) % q) * x) % q
  BY <1>5, Zenon DEF Times
<1>7. Times(Times(x, y), z) = (((x * y) % q) * z) % q
  BY Zenon DEF Times
<1> QED BY <1>3, <1>4, <1>5, <1>6, <1>7

\* and has 1 as its neutral element;
LEMMA TimesOne ==
  ASSUME NEW x \in Scalars
  PROVE  Times(x, 1) = x /\ Times(1, x) = x /\ Times(x, 0) = 0 /\ 1 \in Scalars
<1>1. x \in Int /\ x * 1 = x /\ 1 * x = x /\ x * 0 = 0
  BY ScalarsInt
<1>2. 0 % q = 0
  BY ModSmall DEF Scalars
<1> QED BY <1>1, <1>2, ModSmall DEF Times, Scalars

\* it distributes over the sum;
LEMMA Distribute ==
  ASSUME NEW x \in Scalars, NEW y \in Scalars, NEW z \in Scalars
  PROVE  Times(x, Plus(y, z)) = Plus(Times(x, y), Times(x, z))
<1>1. x \in Int /\ y \in Int /\ z \in Int /\ y + z \in Int /\ x * y \in Int /\ x * z \in Int
  BY ScalarsInt
<1>2. (y + z) % q \in Int
  BY <1>1, ModRange, ScalarsInt
<1>3. (((y + z) % q) * x) % q = ((y + z) * x) % q
  BY <1>1, ModTimes, Zenon
<1>4. x * ((y + z) % q) = ((y + z) % q) * x
  BY <1>2, <1>1
<1>5. (y + z) * x = x * y + x * z
  BY <1>1
<1>6. Plus((x * y) % q, (x * z) % q) = (x * y + x * z) % q
  BY <1>1, PlusMod, Zenon
<1>7. Times(x, Plus(y, z)) = (((y + z) % q) * x) % q
  BY <1>4, Zenon DEF Times, Plus
<1>8. Plus(Times(x, y), Times(x, z)) = Plus((x * y) % q, (x * z) % q)
  BY Zenon DEF Times
<1> QED BY <1>3, <1>5, <1>6, <1>7, <1>8

\* Neg is the remainder of the negative,
LEMMA NegMod ==
  ASSUME NEW x \in Scalars
  PROVE  Neg(x) = (-x) % q /\ Neg(x) \in Scalars
<1>1. x \in Int /\ x % q = x
  BY ScalarsInt, ModSmall
<1>2. Neg(x % q) = (-x) % q
  BY <1>1, PlusMod, Zenon
<1> QED BY <1>1, <1>2, Closed

\* which cancels.
LEMMA PlusNeg ==
  ASSUME NEW x \in Scalars
  PROVE  Plus(x, Neg(x)) = 0
<1>1. x \in Int /\ x % q = x /\ -x \in Int /\ x + (-x) = 0
  BY ScalarsInt, ModSmall
<1>2. Plus(x % q, (-x) % q) = (x + (-x)) % q
  BY <1>1, PlusMod, Zenon
<1>3. 0 % q = 0
  BY ModSmall DEF Scalars
<1> QED BY <1>1, <1>2, <1>3, NegMod

\* What cancels a scalar is its negative.
LEMMA NegUnique ==
  ASSUME NEW x \in Scalars, NEW y \in Scalars, Plus(x, y) = 0
  PROVE  y = Neg(x)
<1>1. Neg(x) \in Scalars
  BY NegMod
<1>2. Plus(Neg(x), Plus(x, y)) = Plus(Plus(Neg(x), x), y)
  BY <1>1, PlusAssoc
<1>3. Plus(Neg(x), x) = 0
  BY <1>1, PlusNeg, PlusComm
<1> QED BY <1>1, <1>2, <1>3, PlusZero

\* The negative of a sum,
LEMMA NegPlus ==
  ASSUME NEW x \in Scalars, NEW y \in Scalars
  PROVE  Neg(Plus(x, y)) = Plus(Neg(x), Neg(y))
<1>1. x \in Int /\ y \in Int /\ x % q = x /\ y % q = y /\ x + y \in Int
  BY ScalarsInt, ModSmall
<1>2. Neg((x + y) % q) = (-(x + y)) % q
  BY <1>1, PlusMod, Zenon
<1>3. -x \in Int /\ -y \in Int /\ -(x + y) = (-x) + (-y)
  BY <1>1
<1>4. Plus((-x) % q, (-y) % q) = ((-x) + (-y)) % q
  BY <1>3, PlusMod, Zenon
<1>5. Neg(x) = (-x) % q /\ Neg(y) = (-y) % q
  BY NegMod
<1>6. Plus(x, y) = (x + y) % q
  BY DEF Plus
<1> QED BY <1>2, <1>3, <1>4, <1>5, <1>6

\* and of a product.
LEMMA NegTimes ==
  ASSUME NEW x \in Scalars, NEW y \in Scalars
  PROVE  Times(x, Neg(y)) = Neg(Times(x, y)) /\ Times(Neg(x), y) = Neg(Times(x, y))
<1>1. ASSUME NEW a \in Scalars, NEW b \in Scalars
      PROVE  Times(a, Neg(b)) = Neg(Times(a, b))
  <2>1. Neg(b) \in Scalars /\ Times(a, b) \in Scalars /\ Times(a, Neg(b)) \in Scalars
    BY NegMod, TimesComm
  <2>2. Plus(Times(a, b), Times(a, Neg(b))) = Times(a, Plus(b, Neg(b)))
    BY <2>1, Distribute
  <2>3. Times(a, 0) = 0
    BY TimesOne
  <2> QED BY <2>1, <2>2, <2>3, PlusNeg, NegUnique
<1>2. Neg(x) \in Scalars /\ Neg(y) \in Scalars
  BY NegMod
<1> QED BY <1>1, <1>2, TimesComm

\* A summand can be cancelled.
LEMMA Cancel ==
  ASSUME NEW x \in Scalars, NEW y \in Scalars, NEW z \in Scalars, Plus(x, z) = Plus(y, z)
  PROVE  x = y
<1>1. x \in Int /\ y \in Int /\ z \in Int /\ x + z \in Int /\ y + z \in Int
  BY ScalarsInt
<1>2. PICK k \in Int, m \in Scalars : x + z = q * k + m /\ (x + z) % q = m
  BY <1>1, Division
<1>3. PICK l \in Int, r \in Scalars : y + z = q * l + r /\ (y + z) % q = r
  BY <1>1, Division
<1>4. m = r
  BY <1>2, <1>3 DEF Plus
<1>5. x = q * (k - l) + y
  <2>1. q * (k - l) = q * k - q * l /\ q * k \in Int /\ q * l \in Int /\ m \in Int
    BY ScalarsInt
  <2> QED BY <1>1, <1>2, <1>3, <1>4, <2>1
<1>6. k - l \in Int
  OBVIOUS
<1>7. x % q = y
  BY <1>1, <1>5, <1>6, ModUnique
<1> QED BY <1>7, ModSmall

\* The point that is kept of a point and its negative.
LEMMA EvenTwin ==
  ASSUME NEW x \in Scalars, x # 0
  PROVE  EvenY(SignedBy(OddY(x), x))
<1> DEFINE h == (q - 1) \div 2
<1>1. h \in Int /\ q = 2 * h + 1 /\ h >= 1
  OBVIOUS
<1> HIDE DEF h
<1>2. \A y : EvenY(y) <=> y \in 1 .. h
  BY DEF EvenY, h
<1>3. x \in Int /\ 0 < x /\ x < q
  BY DEF Scalars
<1>4. CASE EvenY(x)
  BY <1>4 DEF SignedBy, OddY
<1>5. CASE ~EvenY(x)
  <2>1. x > h
    BY <1>5, <1>2, <1>3, <1>1
  <2>2. q - x \in Scalars
    BY <1>3 DEF Scalars
  <2>3. Neg(x) = q - x
    BY <2>2, ModSmall DEF Neg
  <2>4. SignedBy(OddY(x), x) = q - x
    BY <1>5, <2>3 DEF SignedBy, OddY
  <2> QED BY <2>1, <2>4, <1>2, <1>3, <1>1
<1> QED BY <1>4, <1>5

\* A scalar that is not zero has a reciprocal: the least remainder that a
\* multiple of it leaves divides q, which is prime.
LEMMA Reciprocals ==
  ASSUME NEW x \in Scalars, x # 0
  PROVE  Reciprocal(x) \in Scalars /\ Times(x, Reciprocal(x)) = 1
<1> DEFINE T == {t \in Nat : t # 0 /\ \E y \in Int : (x * y) % q = t}
<1>1. x \in Int /\ 0 < x /\ x < q /\ x \in Nat
  BY DEF Scalars
<1>2. x \in T
  <2>1. x * 1 = x /\ 1 \in Int
    BY <1>1
  <2>2. (x * 1) % q = x
    BY <2>1, ModSmall
  <2> QED BY <1>1, <2>1, <2>2
<1>3. PICK m \in T : \A t \in T : ~(t < m)
  <2>1. T \subseteq Nat /\ T # {}
    BY <1>2
  <2> HIDE DEF T
  <2>2. \E m \in T : \A t \in T : ~(<<t, m>> \in OpToRel(<, Nat))
    BY <2>1, NatLessThanWellFounded, WFMin
  <2> QED BY <2>1, <2>2 DEF OpToRel
<1>4. PICK y \in Int : (x * y) % q = m
  OBVIOUS
<1>5. m \in Scalars /\ m \in Nat /\ m # 0
  <2>1. x * y \in Int
    BY <1>1
  <2> QED BY <1>4, <2>1, ModRange
<1>6. PICK k \in Int : x * y = q * k + m
  <2>1. x * y \in Int
    BY <1>1
  <2> QED BY <1>4, <2>1, Division
<1> DEFINE c == q \div m
           r == q % m
<1>7. c \in Int /\ r \in Int /\ 0 <= r /\ r < m /\ q = m * c + r
  BY <1>5
<1> HIDE DEF T, c, r
<1>8. x * (-(y * c)) = q * (-(k * c + 1)) + (r + 0)
  <2>1. x * (-(y * c)) = -((x * y) * c)
    BY <1>1, <1>7
  <2>2. (x * y) * c = (q * k) * c + m * c
    <3>1. ASSUME NEW u \in Int, NEW v \in Int PROVE (u + v) * c = u * c + v * c
      BY <1>7
    <3>2. q * k \in Int /\ m \in Int
      BY <1>5
    <3> QED BY <1>6, <3>1, <3>2
  <2>3. (q * k) * c = q * (k * c)
    BY <1>7
  <2>4. k * c \in Int /\ q * (k * c) \in Int /\ m * c \in Int
    BY <1>5, <1>7
  <2>5. q * (-(k * c + 1)) = -(q * (k * c)) - q
    BY <2>4
  <2> QED BY <1>7, <2>1, <2>2, <2>3, <2>4, <2>5
<1>9. r = 0
  <2> SUFFICES ASSUME r # 0 PROVE FALSE
    OBVIOUS
  <2>1. -(y * c) \in Int /\ -(k * c + 1) \in Int /\ x * (-(y * c)) \in Int
    BY <1>1, <1>7
  <2>2. r \in Scalars /\ r + 0 = r
    BY <1>5, <1>7 DEF Scalars
  <2>3. (x * (-(y * c))) % q = r
    BY <1>8, <2>1, <2>2, ModUnique
  <2>4. r \in T
    BY <1>7, <2>1, <2>3 DEF T
  <2> QED BY <1>3, <1>7, <2>4
<1>10. m = 1
  BY <1>5, <1>9, PrimeAssumption DEF r, Scalars
<1>11. Times(x, y % q) = 1
  <2>1. y % q \in Int
    BY ModRange, ScalarsInt
  <2>2. ((y % q) * x) % q = (y * x) % q
    BY <1>1, ModTimes, Zenon
  <2>3. y * x = x * y
    BY <1>1
  <2>4. x * (y % q) = (y % q) * x
    BY <1>1, <2>1
  <2> QED BY <1>4, <1>10, <2>4, <2>2, <2>3 DEF Times
<1>12. y % q \in Scalars
  BY ModRange
<1> QED BY <1>11, <1>12 DEF Reciprocal

\* Scalars that are not zero have a product that is not zero.
LEMMA NonZero ==
  ASSUME NEW x \in Scalars, NEW y \in Scalars, x # 0, y # 0
  PROVE  Times(x, y) \in Scalars /\ Times(x, y) # 0
<1>1. x \in Int /\ y \in Int /\ x * y \in Int
  BY ScalarsInt
<1>2. Times(x, y) \in Scalars
  BY <1>1, Closed
<1>3. ASSUME Times(x, y) = 0 PROVE FALSE
  <2>1. PICK z \in Scalars : Times(y, z) = 1
    BY Reciprocals
  <2>2. z \in Int /\ y * z \in Int
    BY <1>1, ScalarsInt
  <2>3. ((x * y) % q) * z = 0
    BY <1>3, <2>2 DEF Times
  <2>4. (((x * y) % q) * z) % q = ((x * y) * z) % q
    BY <1>1, <2>2, ModTimes, Zenon
  <2>5. (((y * z) % q) * x) % q = ((y * z) * x) % q
    BY <1>1, <2>2, ModTimes, Zenon
  <2>6. (y * z) * x = (x * y) * z
    BY <1>1, <2>2
  <2>7. ((y * z) % q) * x = x
    BY <1>1, <2>1 DEF Times
  <2>8. x % q = 0 % q
    BY <2>3, <2>4, <2>5, <2>6, <2>7
  <2>9. 0 \in Scalars
    BY DEF Scalars
  <2> QED BY <2>8, <2>9, ModSmall
<1> QED BY <1>2, <1>3

-----------------------------------------------------------------------------
(* Sums and products as folds.                                              *)

\* The two operations that are folded, and their neutral elements.
Combine(op, x, y) == IF op = "times" THEN Times(x, y) ELSE Plus(x, y)
Unit(op) == IF op = "times" THEN 1 ELSE 0

\* fold gives the sum or the product of f over every subset of S.
IsFold(fold, op, f, S) ==
    fold = [s \in SUBSET S |->
              IF s = {} THEN Unit(op)
              ELSE Combine(op, f[CHOOSE x \in s : TRUE], fold[s \ {CHOOSE x \in s : TRUE}])]

Fold(op, f, S) == CHOOSE fold : IsFold(fold, op, f, S)

\* SumOf, by its definition,
LEMMA SumAsFold ==
  ASSUME NEW f
  PROVE  SumOf(f) = Fold("plus", f, DOMAIN f)[DOMAIN f]
  BY DEF SumOf, FoldFunction, FoldFunctionOnSet, MapThenFoldSet, Fold, IsFold, Combine, Unit

\* and ProductOf are folds.
LEMMA ProductAsFold ==
  ASSUME NEW f
  PROVE  ProductOf(f) = Fold("times", f, DOMAIN f)[DOMAIN f]
  BY DEF ProductOf, FoldFunction, FoldFunctionOnSet, MapThenFoldSet, Fold, IsFold, Combine, Unit

\* Induction on the finite sets: what is in Good as soon as its strict subsets
\* are, is in Good.
LEMMA SubsetInduction ==
  ASSUME NEW S, IsFiniteSet(S), NEW Good,
         \A s \in SUBSET S : (\A t \in SUBSET s : t # s => t \in Good) => s \in Good
  PROVE  \A s \in SUBSET S : s \in Good
<1> DEFINE Bad == {s \in SUBSET S : s \notin Good}
<1>1. SUFFICES ASSUME Bad # {} PROVE FALSE
  OBVIOUS
<1>2. IsWellFoundedOn(StrictSubsetOrdering(S), SUBSET S)
  BY FS_StrictSubsetOrderingWellFounded, FS_FiniteSubsetsOfFinite
<1>3. Bad \subseteq SUBSET S
  OBVIOUS
<1> HIDE DEF Bad
<1>4. PICK s \in Bad : \A t \in Bad : ~(<<t, s>> \in StrictSubsetOrdering(S))
  <2>1. \E s \in Bad : \A t \in Bad : ~(<<t, s>> \in StrictSubsetOrdering(S))
    BY <1>1, <1>2, <1>3, WFMin
  <2> QED BY <2>1
<1>5. s \in SUBSET S
  BY <1>3
<1>6. \A t \in SUBSET s : t # s => t \in Good
  BY <1>4, <1>5 DEF Bad, StrictSubsetOrdering
<1> QED BY <1>4, <1>5, <1>6 DEF Bad

\* f and g agree where both sets do.
Agree(f, g, S, T) == \A x \in S : x \in T => f[x] = g[x]

\* The folds over two sets agree on their common subsets.
LEMMA FoldsUnique ==
  ASSUME NEW op, NEW f, NEW g, NEW S, NEW T, IsFiniteSet(S), NEW a, NEW b,
         IsFold(a, op, f, S), IsFold(b, op, g, T), Agree(f, g, S, T)
  PROVE  \A s \in SUBSET S : s \subseteq T => a[s] = b[s]
<1> DEFINE Good == {s \in SUBSET S : s \subseteq T => a[s] = b[s]}
<1>1. ASSUME NEW s \in SUBSET S, \A t \in SUBSET s : t # s => t \in Good
      PROVE  s \in Good
  <2> SUFFICES ASSUME s \subseteq T PROVE a[s] = b[s]
    OBVIOUS
  <2>1. CASE s = {}
    BY <2>1 DEF IsFold
  <2>2. CASE s # {}
    <3> DEFINE p == CHOOSE x \in s : TRUE
    <3>1. p \in s
      BY <2>2
    <3>2. a[s] = Combine(op, f[p], a[s \ {p}])
      BY <2>2 DEF IsFold
    <3>3. b[s] = Combine(op, g[p], b[s \ {p}])
      BY <2>2 DEF IsFold
    <3> HIDE DEF p
    <3>4. s \ {p} \in Good /\ s \ {p} \subseteq T /\ f[p] = g[p]
      BY <3>1, <1>1 DEF Agree
    <3> QED BY <3>2, <3>3, <3>4
  <2> QED BY <2>1, <2>2
<1> HIDE DEF Good
<1>2. \A s \in SUBSET S : s \in Good
  BY <1>1, SubsetInduction, Zenon
<1> QED BY <1>2 DEF Good

\* The folds over a finite set exist.
LEMMA FoldsExist ==
  ASSUME NEW op, NEW f, NEW S, IsFiniteSet(S)
  PROVE  IsFold(Fold(op, f, S), op, f, S)
<1> DEFINE Good == {s \in SUBSET S : \E a : IsFold(a, op, f, s)}
<1>1. ASSUME NEW s \in SUBSET S, \A t \in SUBSET s : t # s => t \in Good
      PROVE  s \in Good
  <2> DEFINE At(t) == Fold(op, f, t)[t]
             a == [t \in SUBSET s |->
                     IF t = {} THEN Unit(op)
                     ELSE Combine(op, f[CHOOSE x \in t : TRUE], At(t \ {CHOOSE x \in t : TRUE}))]
  <2>1. \A t \in SUBSET s : t # s => IsFold(Fold(op, f, t), op, f, t)
    BY <1>1 DEF Fold
  <2>2. \A u \in SUBSET s : u # s => a[u] = At(u)
    <3> SUFFICES ASSUME NEW u \in SUBSET s, u # s PROVE a[u] = At(u)
      OBVIOUS
    <3>1. IsFold(Fold(op, f, u), op, f, u)
      BY <2>1
    <3>2. CASE u = {}
      BY <3>1, <3>2 DEF IsFold
    <3>3. CASE u # {}
      <4> DEFINE p == CHOOSE x \in u : TRUE
                 v == u \ {p}
      <4>1. p \in u
        BY <3>3
      <4>2. a[u] = Combine(op, f[p], At(v))
        BY <3>3
      <4>3. Fold(op, f, u)[u] = Combine(op, f[p], Fold(op, f, u)[v])
        BY <3>3, <3>1 DEF IsFold
      <4> HIDE DEF p
      <4>4. v \in SUBSET s /\ v # s /\ v \in SUBSET u /\ v \subseteq v
        BY <4>1
      <4> HIDE DEF v
      <4>5. IsFold(Fold(op, f, v), op, f, v)
        BY <4>4, <2>1
      <4>6. IsFiniteSet(u)
        BY FS_Subset
      <4>7. Fold(op, f, u)[v] = Fold(op, f, v)[v]
        <5>1. \A w \in SUBSET u : w \subseteq v => Fold(op, f, u)[w] = Fold(op, f, v)[w]
          BY <3>1, <4>5, <4>6, FoldsUnique DEF Agree
        <5> QED BY <4>4, <5>1
      <4> QED BY <4>2, <4>3, <4>7
    <3> QED BY <3>2, <3>3
  <2>3. a = [t \in SUBSET s |->
               IF t = {} THEN Unit(op)
               ELSE Combine(op, f[CHOOSE x \in t : TRUE], a[t \ {CHOOSE x \in t : TRUE}])]
    <3>1. \A t \in SUBSET s : t # {} =>
             At(t \ {CHOOSE x \in t : TRUE}) = a[t \ {CHOOSE x \in t : TRUE}]
      <4> SUFFICES ASSUME NEW t \in SUBSET s, t # {}
                   PROVE  At(t \ {CHOOSE x \in t : TRUE}) = a[t \ {CHOOSE x \in t : TRUE}]
        OBVIOUS
      <4> DEFINE p == CHOOSE x \in t : TRUE
      <4>1. p \in t
        OBVIOUS
      <4> HIDE DEF p, At, a
      <4>2. t \ {p} \in SUBSET s /\ t \ {p} # s
        BY <4>1
      <4>3. At(t \ {p}) = a[t \ {p}]
        BY <4>2, <2>2
      <4> QED BY <4>3 DEF p
    <3> DEFINE c == [t \in SUBSET s |->
               IF t = {} THEN Unit(op)
               ELSE Combine(op, f[CHOOSE x \in t : TRUE], a[t \ {CHOOSE x \in t : TRUE}])]
    <3>2. \A t \in SUBSET s : a[t] = c[t]
      <4> SUFFICES ASSUME NEW t \in SUBSET s PROVE a[t] = c[t]
        OBVIOUS
      <4> DEFINE v == t \ {CHOOSE x \in t : TRUE}
      <4>1. CASE t = {}
        BY <4>1
      <4>2. CASE t # {}
        <5>1. a[t] = Combine(op, f[CHOOSE x \in t : TRUE], At(v))
          BY <4>2
        <5>2. c[t] = Combine(op, f[CHOOSE x \in t : TRUE], a[v])
          BY <4>2
        <5> HIDE DEF a, c, At
        <5>3. At(v) = a[v]
          BY <3>1, <4>2
        <5> QED BY <5>1, <5>2, <5>3
      <4> QED BY <4>1, <4>2
    <3>3. a = [t \in SUBSET s |-> a[t]] /\ c = [t \in SUBSET s |-> c[t]]
      OBVIOUS
    <3> HIDE DEF a, c
    <3>4. a = c
      BY <3>2, <3>3
    <3> QED BY <3>4 DEF c
  <2> HIDE DEF a
  <2> QED BY <2>3 DEF IsFold
<1> HIDE DEF Good
<1>2. \A s \in SUBSET S : s \in Good
  BY <1>1, SubsetInduction, Zenon
<1>3. \E a : IsFold(a, op, f, S)
  BY <1>2 DEF Good
<1> QED BY <1>3, Zenon DEF Fold

\* What is closed under the operation and holds its neutral element and the
\* values of f holds their fold.
LEMMA FoldClosed ==
  ASSUME NEW S, IsFiniteSet(S), NEW op, NEW Values, NEW f \in [S -> Values],
         Unit(op) \in Values,
         \A x, y \in Values : Combine(op, x, y) \in Values
  PROVE  Fold(op, f, S)[S] \in Values
<1> DEFINE Good == {s \in SUBSET S : Fold(op, f, S)[s] \in Values}
<1>0. IsFold(Fold(op, f, S), op, f, S)
  BY FoldsExist
<1>1. ASSUME NEW s \in SUBSET S, \A t \in SUBSET s : t # s => t \in Good
      PROVE  s \in Good
  <2>1. CASE s = {}
    BY <1>0, <2>1 DEF IsFold
  <2>2. CASE s # {}
    <3>1. PICK p \in s : Fold(op, f, S)[s] = Combine(op, f[p], Fold(op, f, S)[s \ {p}])
      <4>1. (CHOOSE x \in s : TRUE) \in s
        BY <2>2
      <4>2. Fold(op, f, S)[s] = Combine(op, f[CHOOSE x \in s : TRUE],
                                     Fold(op, f, S)[s \ {CHOOSE x \in s : TRUE}])
        BY <1>0, <2>2 DEF IsFold
      <4> QED BY <4>1, <4>2
    <3>2. s \ {p} \in Good
      BY <1>1
    <3> QED BY <3>1, <3>2
  <2> QED BY <2>1, <2>2
<1> HIDE DEF Good
<1>2. \A s \in SUBSET S : s \in Good
  BY <1>1, SubsetInduction, Zenon
<1> QED BY <1>2 DEF Good

\* The sum of scalars is a scalar;
LEMMA SumType ==
  ASSUME NEW S, IsFiniteSet(S), NEW f \in [S -> Scalars]
  PROVE  SumOf(f) \in Scalars
<1>1. \A x, y \in Scalars : Combine("plus", x, y) \in Scalars
  BY ScalarsInt, Closed DEF Combine
<1>2. Unit("plus") \in Scalars
  BY DEF Unit, Scalars
<1>3. Fold("plus", f, S)[S] \in Scalars
  BY <1>1, <1>2, FoldClosed
<1> QED BY <1>3, SumAsFold

\* the product of scalars that are not zero is not zero.
LEMMA ProductType ==
  ASSUME NEW S, IsFiniteSet(S), NEW f \in [S -> Scalars \ {0}]
  PROVE  ProductOf(f) \in Scalars \ {0}
<1> DEFINE V == Scalars \ {0}
<1>1. \A x, y \in V : Combine("times", x, y) \in V
  BY NonZero DEF Combine
<1>2. Unit("times") \in V
  BY DEF Unit, Scalars
<1> HIDE DEF V
<1>3. Fold("times", f, S)[S] \in V
  BY <1>1, <1>2, FoldClosed DEF V
<1> QED BY <1>3, ProductAsFold DEF V
-----------------------------------------------------------------------------
(* Sums and products over the subsets of a finite set.                      *)

Sum(f, s) == SumOf([i \in s |-> f[i]])
Product(f, s) == ProductOf([i \in s |-> f[i]])

\* Any element can be taken first.
LEMMA FoldAnyFirst ==
  ASSUME NEW S, IsFiniteSet(S), NEW op, NEW f \in [S -> Scalars]
  PROVE  \A s \in SUBSET S : /\ Fold(op, f, S)[s] \in Scalars
                             /\ \A a \in s : Fold(op, f, S)[s]
                                    = Combine(op, f[a], Fold(op, f, S)[s \ {a}])
<1> DEFINE F(s) == Fold(op, f, S)[s]
           Good == {s \in SUBSET S :
                      F(s) \in Scalars /\ \A a \in s : F(s) = Combine(op, f[a], F(s \ {a}))}
<1>1. IsFold(Fold(op, f, S), op, f, S)
  BY FoldsExist
<1>2. ASSUME NEW x \in Scalars, NEW y \in Scalars, NEW z \in Scalars
      PROVE  /\ Combine(op, x, y) \in Scalars
             /\ Combine(op, x, Combine(op, y, z)) = Combine(op, y, Combine(op, x, z))
  <2>1. CASE op = "times"
    <3>1. /\ Times(x, Times(y, z)) = Times(Times(x, y), z)
          /\ Times(y, Times(x, z)) = Times(Times(y, x), z)
      BY TimesAssoc
    <3> QED BY <2>1, <3>1, TimesComm DEF Combine
  <2>2. CASE op # "times"
    <3>1. Plus(x, Plus(y, z)) = Plus(Plus(x, y), z) /\ Plus(y, Plus(x, z)) = Plus(Plus(y, x), z)
      BY PlusAssoc
    <3> QED BY <2>2, <3>1, PlusComm DEF Combine
  <2> QED BY <2>1, <2>2
<1>3. ASSUME NEW s \in SUBSET S, \A t \in SUBSET s : t # s => t \in Good
      PROVE  s \in Good
  <2>1. CASE s = {}
    <3>1. F(s) = Unit(op)
      BY <1>1, <2>1 DEF IsFold
    <3>2. Unit(op) \in Scalars
      BY DEF Unit, Scalars
    <3> QED BY <2>1, <3>1, <3>2
  <2>2. CASE s # {}
    <3>1. PICK p \in s : F(s) = Combine(op, f[p], F(s \ {p}))
      <4>1. (CHOOSE x \in s : TRUE) \in s
        BY <2>2
      <4>2. F(s) = Combine(op, f[CHOOSE x \in s : TRUE], F(s \ {CHOOSE x \in s : TRUE}))
        BY <1>1, <2>2 DEF IsFold
      <4> QED BY <4>1, <4>2
    <3>2. \A a \in s : s \ {a} \in Good /\ f[a] \in Scalars
      BY <1>3
    <3> HIDE DEF F
    <3>3. F(s) \in Scalars
      BY <3>1, <3>2, <1>2
    <3>4. ASSUME NEW a \in s PROVE F(s) = Combine(op, f[a], F(s \ {a}))
      <4>1. CASE a = p
        BY <3>1, <4>1
      <4>2. CASE a # p
        <5>1. s \ {p} \in Good /\ s \ {a} \in Good
          BY <3>2
        <5>2. a \in s \ {p} /\ p \in s \ {a}
          BY <4>2
        <5>3. /\ (s \ {p}) \ {a} = (s \ {a}) \ {p}
              /\ (s \ {p}) \ {a} \in SUBSET s
              /\ (s \ {p}) \ {a} # s
          OBVIOUS
        <5> DEFINE r == (s \ {p}) \ {a}
        <5>4. F(r) \in Scalars
          BY <5>3, <1>3
        <5>5. F(s \ {p}) = Combine(op, f[a], F(r))
          BY <5>1, <5>2
        <5>6. F(s \ {a}) = Combine(op, f[p], F(r))
          BY <5>1, <5>2, <5>3
        <5>7. f[a] \in Scalars /\ f[p] \in Scalars
          BY <3>2
        <5> HIDE DEF r, Good
        <5>8. Combine(op, f[p], Combine(op, f[a], F(r)))
                 = Combine(op, f[a], Combine(op, f[p], F(r)))
          BY <5>4, <5>7, <1>2
        <5> QED BY <3>1, <5>5, <5>6, <5>8
      <4> QED BY <4>1, <4>2
    <3> QED BY <3>3, <3>4
  <2> QED BY <2>1, <2>2
<1> HIDE DEF Good
<1>4. \A s \in SUBSET S : s \in Good
  BY <1>3, SubsetInduction, Zenon
<1> QED BY <1>4 DEF Good

\* A fold over a subset does not depend on the rest of the set.
LEMMA FoldRestricted ==
  ASSUME NEW S, IsFiniteSet(S), NEW op, NEW f, NEW s \in SUBSET S
  PROVE  Fold(op, [i \in s |-> f[i]], s)[s] = Fold(op, f, S)[s]
<1> DEFINE g == [i \in s |-> f[i]]
<1>1. IsFiniteSet(s)
  BY FS_Subset
<1>2. IsFold(Fold(op, g, s), op, g, s) /\ IsFold(Fold(op, f, S), op, f, S)
  BY <1>1, FoldsExist
<1>3. Agree(g, f, s, S)
  BY DEF Agree
<1> HIDE DEF g
<1>4. \A t \in SUBSET s : t \subseteq S => Fold(op, g, s)[t] = Fold(op, f, S)[t]
  <2>1. ASSUME NEW a, NEW b, NEW T, IsFiniteSet(T), NEW e,
               IsFold(a, op, e, T), IsFold(b, op, f, S), Agree(e, f, T, S)
        PROVE  \A t \in SUBSET T : t \subseteq S => a[t] = b[t]
    BY <2>1, FoldsUnique
  <2> QED BY <1>1, <1>2, <1>3, <2>1
<1>5. s \in SUBSET s /\ s \subseteq S
  OBVIOUS
<1>6. Fold(op, g, s)[s] = Fold(op, f, S)[s]
  BY <1>4, <1>5
<1> QED BY <1>6 DEF g

\* The sum over a set, from the sum over all of it but one.
LEMMA SumStep ==
  ASSUME NEW S, IsFiniteSet(S), NEW f \in [S -> Scalars], NEW s \in SUBSET S
  PROVE  /\ Sum(f, s) \in Scalars
         /\ \A a \in s : Sum(f, s) = Plus(f[a], Sum(f, s \ {a}))
<1>1. \A t \in SUBSET S : Sum(f, t) = Fold("plus", f, S)[t]
  <2> SUFFICES ASSUME NEW t \in SUBSET S PROVE Sum(f, t) = Fold("plus", f, S)[t]
    OBVIOUS
  <2> DEFINE g == [i \in t |-> f[i]]
  <2>1. SumOf(g) = Fold("plus", g, t)[t]
    <3>1. DOMAIN g = t
      OBVIOUS
    <3> HIDE DEF g
    <3> QED BY <3>1, SumAsFold
  <2>2. Fold("plus", g, t)[t] = Fold("plus", f, S)[t]
    BY FoldRestricted
  <2> QED BY <2>1, <2>2 DEF Sum
<1>2. \A t \in SUBSET S : /\ Fold("plus", f, S)[t] \in Scalars
                          /\ \A a \in t : Fold("plus", f, S)[t]
                                = Combine("plus", f[a], Fold("plus", f, S)[t \ {a}])
  BY FoldAnyFirst
<1>3. \A x, y : Combine("plus", x, y) = Plus(x, y)
  BY DEF Combine
<1>4. Sum(f, s) = Fold("plus", f, S)[s] /\ Sum(f, s) \in Scalars
  BY <1>1, <1>2
<1>5. ASSUME NEW a \in s
      PROVE  Sum(f, s) = Plus(f[a], Sum(f, s \ {a}))
  <2>1. Sum(f, s \ {a}) = Fold("plus", f, S)[s \ {a}]
    BY <1>1
  <2>2. Fold("plus", f, S)[s] = Combine("plus", f[a], Fold("plus", f, S)[s \ {a}])
    BY <1>2
  <2> QED BY <1>3, <1>4, <2>1, <2>2
<1> QED BY <1>4, <1>5

\* The same for products.
LEMMA ProductStep ==
  ASSUME NEW S, IsFiniteSet(S), NEW f \in [S -> Scalars], NEW s \in SUBSET S
  PROVE  /\ Product(f, s) \in Scalars
         /\ \A a \in s : Product(f, s) = Times(f[a], Product(f, s \ {a}))
<1>1. \A t \in SUBSET S : Product(f, t) = Fold("times", f, S)[t]
  <2> SUFFICES ASSUME NEW t \in SUBSET S PROVE Product(f, t) = Fold("times", f, S)[t]
    OBVIOUS
  <2> DEFINE g == [i \in t |-> f[i]]
  <2>1. ProductOf(g) = Fold("times", g, t)[t]
    <3>1. DOMAIN g = t
      OBVIOUS
    <3> HIDE DEF g
    <3> QED BY <3>1, ProductAsFold
  <2>2. Fold("times", g, t)[t] = Fold("times", f, S)[t]
    BY FoldRestricted
  <2> QED BY <2>1, <2>2 DEF Product
<1>2. \A t \in SUBSET S : /\ Fold("times", f, S)[t] \in Scalars
                          /\ \A a \in t : Fold("times", f, S)[t]
                                = Combine("times", f[a], Fold("times", f, S)[t \ {a}])
  BY FoldAnyFirst
<1>3. \A x, y : Combine("times", x, y) = Times(x, y)
  BY DEF Combine
<1>4. \A a \in s : s \ {a} \in SUBSET S
  OBVIOUS
<1>5. ASSUME NEW a \in s PROVE Product(f, s) = Times(f[a], Product(f, s \ {a}))
  <2>1. Fold("times", f, S)[s] = Combine("times", f[a], Fold("times", f, S)[s \ {a}])
    BY <1>2
  <2>2. Product(f, s) = Fold("times", f, S)[s]
    BY <1>1
  <2>3. Product(f, s \ {a}) = Fold("times", f, S)[s \ {a}]
    BY <1>1, <1>4
  <2> QED BY <1>3, <2>1, <2>2, <2>3
<1>6. Product(f, s) \in Scalars
  BY <1>1, <1>2
<1> QED BY <1>5, <1>6

\* Nothing sums up to 0, and multiplies to 1.
LEMMA Empty == \A f : Sum(f, {}) = 0 /\ Product(f, {}) = 1
<1> SUFFICES ASSUME NEW f PROVE Sum(f, {}) = 0 /\ Product(f, {}) = 1
  OBVIOUS
<1> DEFINE g == [i \in {} |-> f[i]]
<1>1. DOMAIN g = {}
  OBVIOUS
<1>2. IsFiniteSet({})
  BY FS_EmptySet
<1> HIDE DEF g
<1>3. IsFold(Fold("plus", g, {}), "plus", g, {}) /\ IsFold(Fold("times", g, {}), "times", g, {})
  BY <1>2, FoldsExist
<1>4. Fold("plus", g, {})[{}] = 0 /\ Fold("times", g, {})[{}] = 1
  BY <1>3 DEF IsFold, Unit
<1>5. SumOf(g) = 0 /\ ProductOf(g) = 1
  BY <1>1, <1>4, SumAsFold, ProductAsFold
<1> QED BY <1>5 DEF Sum, Product, g

\* Two sums of two scalars can be taken crosswise.
LEMMA Crosswise ==
  ASSUME NEW a \in Scalars, NEW b \in Scalars, NEW c \in Scalars, NEW e \in Scalars
  PROVE  Plus(Plus(a, b), Plus(c, e)) = Plus(Plus(a, c), Plus(b, e))
<1>1. Plus(c, e) \in Scalars /\ Plus(b, e) \in Scalars
  BY PlusComm
<1>2. Plus(Plus(a, b), Plus(c, e)) = Plus(a, Plus(b, Plus(c, e)))
  BY <1>1, PlusAssoc
<1>3. Plus(Plus(a, c), Plus(b, e)) = Plus(a, Plus(c, Plus(b, e)))
  BY <1>1, PlusAssoc
<1>4. Plus(b, Plus(c, e)) = Plus(Plus(b, c), e) /\ Plus(c, Plus(b, e)) = Plus(Plus(c, b), e)
  BY PlusAssoc
<1>5. Plus(b, c) = Plus(c, b)
  BY PlusComm
<1> QED BY <1>2, <1>3, <1>4, <1>5

\* h is f + g on S,
IsSum(h, S, f, g) ==
    /\ h \in [S -> Scalars] /\ f \in [S -> Scalars] /\ g \in [S -> Scalars]
    /\ \A i \in S : h[i] = Plus(f[i], g[i])

\* and h is a * f on S.
IsMultiple(h, S, a, f) ==
    /\ h \in [S -> Scalars] /\ f \in [S -> Scalars] /\ a \in Scalars
    /\ \A i \in S : h[i] = Times(a, f[i])

\* The sum of a sum of functions.
LEMMA SumPlus ==
  ASSUME NEW S, IsFiniteSet(S), NEW f, NEW g, NEW h, IsSum(h, S, f, g)
  PROVE  \A s \in SUBSET S : Sum(h, s) = Plus(Sum(f, s), Sum(g, s))
<1> DEFINE Good == {s \in SUBSET S : Sum(h, s) = Plus(Sum(f, s), Sum(g, s))}
<1>0. /\ h \in [S -> Scalars] /\ f \in [S -> Scalars] /\ g \in [S -> Scalars]
      /\ \A i \in S : h[i] = Plus(f[i], g[i])
  BY DEF IsSum
<1>1. ASSUME NEW s \in SUBSET S, \A t \in SUBSET s : t # s => t \in Good
      PROVE  s \in Good
  <2>1. CASE s = {}
    BY <2>1, Empty, PlusZero DEF Scalars
  <2>2. CASE s # {}
    <3>1. PICK a \in s : TRUE
      BY <2>2
    <3>2. s \ {a} \in Good /\ s \ {a} \in SUBSET S
      BY <1>1
    <3>3. /\ Sum(f, s) = Plus(f[a], Sum(f, s \ {a}))
          /\ Sum(g, s) = Plus(g[a], Sum(g, s \ {a}))
          /\ Sum(h, s) = Plus(h[a], Sum(h, s \ {a}))
      BY <1>0, SumStep
    <3>4. Sum(f, s \ {a}) \in Scalars /\ Sum(g, s \ {a}) \in Scalars
      BY <1>0, <3>2, SumStep
    <3>5. Sum(h, s \ {a}) = Plus(Sum(f, s \ {a}), Sum(g, s \ {a}))
      BY <3>2
    <3>6. h[a] = Plus(f[a], g[a]) /\ f[a] \in Scalars /\ g[a] \in Scalars
      BY <1>0
    <3> HIDE DEF Good
    <3>7. Sum(h, s) = Plus(Sum(f, s), Sum(g, s))
      BY <3>3, <3>4, <3>5, <3>6, Crosswise
    <3> QED BY <3>7 DEF Good
  <2> QED BY <2>1, <2>2
<1> HIDE DEF Good
<1>2. \A s \in SUBSET S : s \in Good
  BY <1>1, SubsetInduction, Zenon
<1> QED BY <1>2 DEF Good

\* The sum of a multiple of a function.
LEMMA SumTimes ==
  ASSUME NEW S, IsFiniteSet(S), NEW f, NEW c, NEW h, IsMultiple(h, S, c, f)
  PROVE  \A s \in SUBSET S : Sum(h, s) = Times(c, Sum(f, s))
<1> DEFINE Good == {s \in SUBSET S : Sum(h, s) = Times(c, Sum(f, s))}
<1>0. /\ h \in [S -> Scalars] /\ f \in [S -> Scalars] /\ c \in Scalars
      /\ \A i \in S : h[i] = Times(c, f[i])
  BY DEF IsMultiple
<1>1. ASSUME NEW s \in SUBSET S, \A t \in SUBSET s : t # s => t \in Good
      PROVE  s \in Good
  <2>1. CASE s = {}
    BY <1>0, <2>1, Empty, TimesOne
  <2>2. CASE s # {}
    <3>1. PICK a \in s : TRUE
      BY <2>2
    <3>2. s \ {a} \in Good /\ s \ {a} \in SUBSET S
      BY <1>1
    <3>3. /\ Sum(f, s) = Plus(f[a], Sum(f, s \ {a}))
          /\ Sum(h, s) = Plus(h[a], Sum(h, s \ {a}))
      BY <1>0, SumStep
    <3>4. Sum(f, s \ {a}) \in Scalars
      BY <1>0, <3>2, SumStep
    <3>5. Sum(h, s \ {a}) = Times(c, Sum(f, s \ {a}))
      BY <3>2
    <3>6. h[a] = Times(c, f[a]) /\ f[a] \in Scalars
      BY <1>0
    <3> HIDE DEF Good
    <3>7. Sum(h, s) = Times(c, Sum(f, s))
      BY <1>0, <3>3, <3>4, <3>5, <3>6, Distribute
    <3> QED BY <3>7 DEF Good
  <2> QED BY <2>1, <2>2
<1> HIDE DEF Good
<1>2. \A s \in SUBSET S : s \in Good
  BY <1>1, SubsetInduction, Zenon
<1> QED BY <1>2 DEF Good

\* The table m of scalars, by rows S and columns T, and its sums over a row and
\* over the rows s of a column.
Table(m, S, T) == \A i \in S : \A k \in T : m[i][k] \in Scalars
RowSums(m, S, T) == [i \in S |-> Sum([k \in T |-> m[i][k]], T)]
ColumnSums(m, S, T, s) == [k \in T |-> Sum([i \in S |-> m[i][k]], s)]

\* A table has one sum, by rows or by columns.
LEMMA SumSwap ==
  ASSUME NEW S, IsFiniteSet(S), NEW T, IsFiniteSet(T), NEW m, Table(m, S, T)
  PROVE  \A s \in SUBSET S : Sum(RowSums(m, S, T), s) = Sum(ColumnSums(m, S, T, s), T)
<1> DEFINE Row(i) == [k \in T |-> m[i][k]]
           Column(k) == [i \in S |-> m[i][k]]
           rows == [i \in S |-> Sum(Row(i), T)]
           columns(s) == [k \in T |-> Sum(Column(k), s)]
           Good == {s \in SUBSET S : Sum(rows, s) = Sum(columns(s), T)}
<1>0. /\ \A i \in S : Row(i) \in [T -> Scalars]
      /\ \A k \in T : Column(k) \in [S -> Scalars]
      /\ T \in SUBSET T
  BY DEF Table
<1>1. rows \in [S -> Scalars] /\ \A s \in SUBSET S : columns(s) \in [T -> Scalars]
  <2>1. \A i \in S : Sum(Row(i), T) \in Scalars
    BY <1>0, SumStep
  <2>2. \A s \in SUBSET S : \A k \in T : Sum(Column(k), s) \in Scalars
    BY <1>0, SumStep
  <2> QED BY <2>1, <2>2
<1>2. ASSUME NEW s \in SUBSET S, \A t \in SUBSET s : t # s => t \in Good
      PROVE  s \in Good
  <2>1. CASE s = {}
    <3>1. \A k \in T : columns(s)[k] = Times(0, columns(s)[k])
      <4>1. \A k \in T : columns(s)[k] = 0
        BY <2>1, Empty
      <4> QED BY <4>1, TimesOne DEF Scalars
    <3>2. IsMultiple(columns(s), T, 0, columns(s))
      BY <1>1, <3>1 DEF IsMultiple, Scalars
    <3>3. Sum(columns(s), T) \in Scalars
      BY <1>0, <1>1, SumStep
    <3> HIDE DEF columns, rows
    <3>4. Sum(columns(s), T) = Times(0, Sum(columns(s), T))
      BY <1>0, <3>2, SumTimes
    <3>5. Times(0, Sum(columns(s), T)) = 0
      <4>1. 0 \in Scalars
        BY DEF Scalars
      <4>2. Times(0, Sum(columns(s), T)) = Times(Sum(columns(s), T), 0)
        BY <3>3, <4>1, TimesComm
      <4> QED BY <3>3, <4>2, TimesOne
    <3> QED BY <2>1, <3>4, <3>5, Empty
  <2>2. CASE s # {}
    <3>1. PICK a \in s : TRUE
      BY <2>2
    <3> DEFINE r == s \ {a}
    <3>2. r \in Good /\ r \in SUBSET S /\ a \in S
      BY <1>2
    <3> HIDE DEF r
    <3>3. \A k \in T : Sum(Column(k), s) = Plus(m[a][k], Sum(Column(k), r))
      <4> SUFFICES ASSUME NEW k \in T PROVE Sum(Column(k), s) = Plus(m[a][k], Sum(Column(k), r))
        OBVIOUS
      <4>1. Column(k) \in [S -> Scalars] /\ Column(k)[a] = m[a][k]
        BY <1>0, <3>2
      <4> HIDE DEF Column
      <4>2. Sum(Column(k), s) = Plus(Column(k)[a], Sum(Column(k), s \ {a}))
        BY <4>1, SumStep
      <4> QED BY <4>1, <4>2 DEF r
    <3>4. IsSum(columns(s), T, Row(a), columns(r))
      <4>1. \A k \in T : columns(s)[k] = Plus(Row(a)[k], columns(r)[k])
        BY <3>3
      <4> QED BY <1>0, <1>1, <3>2, <4>1 DEF IsSum
    <3>5. rows[a] = Sum(Row(a), T)
      BY <3>2
    <3> HIDE DEF columns, rows, Row
    <3>6. Sum(columns(s), T) = Plus(Sum(Row(a), T), Sum(columns(r), T))
      BY <1>0, <3>4, SumPlus
    <3>7. Sum(rows, s) = Plus(rows[a], Sum(rows, r))
      <4>1. Sum(rows, s) = Plus(rows[a], Sum(rows, s \ {a}))
        BY <1>1, SumStep
      <4> QED BY <4>1 DEF r
    <3> QED BY <3>2, <3>5, <3>6, <3>7
  <2> QED BY <2>1, <2>2
<1> HIDE DEF Good
<1>3. \A s \in SUBSET S : s \in Good
  BY <1>2, SubsetInduction, Zenon
<1> QED BY <1>3 DEF Good, RowSums, ColumnSums
-----------------------------------------------------------------------------
(* Polynomials.                                                             *)

\* Induction up to n.
LEMMA UpTo ==
  ASSUME NEW n \in Nat, NEW Good, 0 \in Good,
         \A m \in 0 .. (n - 1) : m \in Good => m + 1 \in Good
  PROVE  \A m \in 0 .. n : m \in Good
<1> DEFINE Bad == {m \in 0 .. n : m \notin Good}
<1>1. SUFFICES ASSUME Bad # {} PROVE FALSE
  OBVIOUS
<1>2. Bad \subseteq Nat
  OBVIOUS
<1> HIDE DEF Bad
<1>3. PICK m \in Bad : \A l \in Bad : ~(l < m)
  <2>1. \E m \in Bad : \A l \in Bad : ~(<<l, m>> \in OpToRel(<, Nat))
    BY <1>1, <1>2, NatLessThanWellFounded, WFMin
  <2> QED BY <2>1, <1>2 DEF OpToRel
<1>4. m \in 0 .. n /\ m \notin Good /\ m # 0
  BY DEF Bad
<1>5. m - 1 \in 0 .. (n - 1) /\ m - 1 \notin Bad /\ m - 1 \in 0 .. n /\ (m - 1) + 1 = m
  BY <1>2, <1>3, <1>4
<1>6. m - 1 \in Good
  BY <1>5 DEF Bad
<1> QED BY <1>4, <1>5, <1>6

\* h follows Horner's rule from the degree n on.
Horner(h, f, x, n) ==
    \A j \in n .. Threshold :
        h[j] = IF j = Threshold THEN 0 ELSE Plus(Times(h[j + 1], x), f[j])

\* Horner's rule has a result for every polynomial.
LEMMA HornerExists ==
  ASSUME NEW f, NEW x
  PROVE  \E h : h = [j \in 0 .. Threshold |-> h[j]] /\ Horner(h, f, x, 0)
<1>1. Threshold \in Nat
  BY QuorumAssumption
<1> DEFINE Good == {m \in 0 .. Threshold : \E h : Horner(h, f, x, Threshold - m)}
<1>2. 0 \in Good
  <2> DEFINE h == [j \in 0 .. Threshold |-> 0]
  <2>1. Horner(h, f, x, Threshold - 0)
    BY <1>1 DEF Horner
  <2> QED BY <1>1, <2>1
<1>3. ASSUME NEW m \in 0 .. (Threshold - 1), m \in Good
      PROVE  m + 1 \in Good
  <2>1. PICK h : Horner(h, f, x, Threshold - m)
    BY <1>3
  <2> DEFINE n == Threshold - (m + 1)
             g == [j \in n .. Threshold |->
                     IF j = n THEN Plus(Times(h[n + 1], x), f[n]) ELSE h[j]]
  <2>2. n \in 0 .. (Threshold - 1) /\ Threshold - m = n + 1 /\ m + 1 \in 0 .. Threshold
    BY <1>1
  <2> HIDE DEF n
  <2>3. ASSUME NEW j \in n .. Threshold
        PROVE  g[j] = IF j = Threshold THEN 0 ELSE Plus(Times(g[j + 1], x), f[j])
    <3>1. CASE j = n
      <4>1. g[n] = Plus(Times(h[n + 1], x), f[n]) /\ g[n + 1] = h[n + 1] /\ n # Threshold
        BY <2>2, <1>1
      <4> QED BY <4>1, <3>1
    <3>2. CASE j # n
      <4>1. j \in (n + 1) .. Threshold /\ g[j] = h[j]
        BY <3>2, <2>2, <1>1
      <4>2. h[j] = IF j = Threshold THEN 0 ELSE Plus(Times(h[j + 1], x), f[j])
        BY <4>1, <2>1, <2>2 DEF Horner
      <4>3. j # Threshold => g[j + 1] = h[j + 1]
        BY <4>1, <2>2, <1>1
      <4> HIDE DEF g
      <4> QED BY <4>1, <4>2, <4>3
    <3> QED BY <3>1, <3>2
  <2> HIDE DEF g
  <2>4. Horner(g, f, x, n)
    BY <2>3 DEF Horner
  <2> QED BY <2>2, <2>4 DEF n
<1> HIDE DEF Good
<1>4. Threshold \in Good
  BY <1>1, <1>2, <1>3, UpTo
<1>5. PICK h : Horner(h, f, x, Threshold - Threshold)
  BY <1>4 DEF Good
<1> DEFINE g == [j \in 0 .. Threshold |-> h[j]]
<1>6. \A j \in 0 .. Threshold : g[j] = h[j] /\ (j # Threshold => g[j + 1] = h[j + 1])
  BY <1>1
<1>7. Threshold - Threshold = 0 /\ g = [j \in 0 .. Threshold |-> g[j]]
  BY <1>1
<1> HIDE DEF g
<1>8. Horner(g, f, x, 0)
  BY <1>5, <1>6, <1>7 DEF Horner
<1> QED BY <1>7, <1>8

\* A polynomial over the scalars has scalars for values.
LEMMA PolyEvalType ==
  ASSUME NEW f \in [Degrees -> Scalars], NEW x \in Int
  PROVE  PolyEval(f, x) \in Scalars
<1>1. Threshold \in Nat
  BY QuorumAssumption
<1> DEFINE h == CHOOSE h : h = [j \in 0 .. Threshold |->
                                   IF j = Threshold THEN 0 ELSE Plus(Times(h[j + 1], x), f[j])]
<1>2. PolyEval(f, x) = h[0]
  BY DEF PolyEval
<1>3. \E g : g = [j \in 0 .. Threshold |->
                    IF j = Threshold THEN 0 ELSE Plus(Times(g[j + 1], x), f[j])]
  <2>1. PICK g : g = [j \in 0 .. Threshold |-> g[j]] /\ Horner(g, f, x, 0)
    BY HornerExists
  <2>2. g = [j \in 0 .. Threshold |->
               IF j = Threshold THEN 0 ELSE Plus(Times(g[j + 1], x), f[j])]
    <3>1. [j \in 0 .. Threshold |-> g[j]]
             = [j \in 0 .. Threshold |->
                  IF j = Threshold THEN 0 ELSE Plus(Times(g[j + 1], x), f[j])]
      BY <2>1 DEF Horner
    <3> QED BY <2>1, <3>1
  <2> QED BY <2>2
<1>4. h = [j \in 0 .. Threshold |->
             IF j = Threshold THEN 0 ELSE Plus(Times(h[j + 1], x), f[j])]
  BY <1>3
<1> HIDE DEF h
<1> DEFINE Good == {m \in 0 .. Threshold : h[Threshold - m] \in Scalars}
<1>5. 0 \in Good
  BY <1>1, <1>4 DEF Scalars
<1>6. ASSUME NEW m \in 0 .. (Threshold - 1), m \in Good
      PROVE  m + 1 \in Good
  <2> DEFINE n == Threshold - (m + 1)
  <2>1. n \in Degrees /\ n \in 0 .. Threshold /\ n # Threshold /\ Threshold - m = n + 1
        /\ m + 1 \in 0 .. Threshold
    BY <1>1 DEF Degrees
  <2>2. h[n + 1] \in Scalars
    BY <2>1, <1>6
  <2> HIDE DEF n
  <2>3. h[n] = Plus(Times(h[n + 1], x), f[n])
    BY <1>4, <2>1
  <2>4. f[n] \in Int /\ Times(h[n + 1], x) \in Int
    BY <2>1, <2>2, ScalarsInt, Closed
  <2>5. h[n] \in Scalars
    BY <2>3, <2>4, Closed
  <2> QED BY <2>1, <2>5 DEF n
<1> HIDE DEF Good
<1>7. Threshold \in Good
  BY <1>1, <1>5, <1>6, UpTo
<1> QED BY <1>1, <1>2, <1>7 DEF Good
\* The participants are finitely many, and so are the degrees.
LEMMA Finite == IsFiniteSet(Participants) /\ IsFiniteSet(Degrees)
<1>1. IsFiniteSet(1 .. N) /\ IsFiniteSet(0 .. (Threshold - 1))
  BY QuorumAssumption, FS_Interval
<1> QED BY <1>1 DEF Participants, Degrees

\* Polynomials have scalars for coefficients, and a constant term.
LEMMA PolyType ==
  /\ \A f \in Polys : f \in [Degrees -> Scalars]
  /\ 0 \in Degrees /\ Participants \subseteq Int
<1>1. \A f \in Polys : f \in [Degrees -> 1 .. (q - 1)]
  BY PolysAssumption
<1>2. 1 .. (q - 1) \subseteq Scalars
  BY DEF Scalars
<1>3. \A f \in Polys : f \in [Degrees -> Scalars]
  BY <1>1, <1>2
<1> QED BY <1>3, QuorumAssumption DEF Degrees, Participants

-----------------------------------------------------------------------------
(* Lagrange's coefficients.                                                 *)

\* A factor that is not zero can be cancelled.
LEMMA CancelFactor ==
  ASSUME NEW x \in Scalars, x # 0, NEW y \in Scalars, NEW z \in Scalars, Times(x, y) = Times(x, z)
  PROVE  y = z
<1> DEFINE r == Reciprocal(x)
<1>1. r \in Scalars /\ Times(x, r) = 1 /\ Times(r, x) = 1
  BY Reciprocals, TimesComm
<1> HIDE DEF r
<1>2. Times(r, Times(x, y)) = Times(Times(r, x), y) /\ Times(r, Times(x, z)) = Times(Times(r, x), z)
  BY <1>1, TimesAssoc
<1> QED BY <1>1, <1>2, TimesOne

Minus(x, y) == Plus(x, Neg(y))

\* A difference is zero for equals only.
LEMMA MinusType ==
  ASSUME NEW x \in Scalars, NEW y \in Scalars
  PROVE  Minus(x, y) \in Scalars /\ (Minus(x, y) = 0 => x = y) /\ Minus(x, x) = 0
<1>1. Neg(y) \in Scalars /\ Minus(x, y) \in Scalars /\ Minus(x, x) = 0
  BY NegMod, PlusComm, PlusNeg DEF Minus
<1>2. ASSUME Minus(x, y) = 0 PROVE x = y
  <2>1. Plus(x, Neg(y)) = Plus(y, Neg(y))
    BY <1>2, PlusNeg DEF Minus
  <2> QED BY <1>1, <2>1, Cancel
<1> QED BY <1>1, <1>2

\* A product distributes over a difference.
LEMMA TimesMinus ==
  ASSUME NEW x \in Scalars, NEW y \in Scalars, NEW z \in Scalars
  PROVE  Times(x, Minus(y, z)) = Minus(Times(x, y), Times(x, z))
<1>1. Neg(z) \in Scalars /\ Times(x, Neg(z)) = Neg(Times(x, z))
  BY NegMod, NegTimes
<1> QED BY <1>1, Distribute DEF Minus

\* Participants are scalars other than zero.
LEMMA ParticipantType == Participants \subseteq Scalars \ {0}
  BY QuorumAssumption DEF Participants, Scalars

\* The factors of a coefficient.
Others(i) == [j \in Participants |-> j]
Gaps(i) == [j \in Participants |-> Minus(j, i)]

\* The numerator and the denominator of i's coefficient among S; the latter is
\* not zero.
LEMMA Fractions ==
  ASSUME NEW i \in Participants, NEW S \in SUBSET Participants
  PROVE  /\ Lagrange(i, S)
              = Times(Product(Others(i), S \ {i}), Reciprocal(Product(Gaps(i), S \ {i})))
         /\ Others(i) \in [Participants -> Scalars]
         /\ Gaps(i) \in [Participants -> Scalars]
         /\ Product(Others(i), S \ {i}) \in Scalars
         /\ Product(Gaps(i), S \ {i}) \in Scalars \ {0}
         /\ Lagrange(i, S) \in Scalars
<1> DEFINE T == S \ {i}
<1>1. IsFiniteSet(T) /\ IsFiniteSet(Participants) /\ T \in SUBSET Participants
  BY Finite, FS_Subset
<1>2. Others(i) \in [Participants -> Scalars]
  BY ParticipantType DEF Others
<1>3. Gaps(i) \in [Participants -> Scalars]
  BY ParticipantType, MinusType DEF Gaps
<1>4. [j \in T |-> Gaps(i)[j]] \in [T -> Scalars \ {0}]
  BY <1>1, ParticipantType, MinusType DEF Gaps
<1>5. Product(Gaps(i), T) \in Scalars \ {0}
  BY <1>1, <1>4, ProductType DEF Product
<1>6. Product(Others(i), T) \in Scalars
  BY <1>1, <1>2, ProductStep
<1>7. Lagrange(i, S) = Times(Product(Others(i), T), Reciprocal(Product(Gaps(i), T)))
  <2>1. [j \in T |-> j] = [j \in T |-> Others(i)[j]]
    BY <1>1 DEF Others
  <2>2. [j \in T |-> Plus(j, Neg(i))] = [j \in T |-> Gaps(i)[j]]
    BY <1>1 DEF Gaps, Minus
  <2> QED BY <2>1, <2>2 DEF Lagrange, Product
<1>8. Lagrange(i, S) \in Scalars
  <2>1. Reciprocal(Product(Gaps(i), T)) \in Scalars
    BY <1>5, Reciprocals
  <2> QED BY <1>6, <1>7, <2>1, TimesComm
<1> QED BY <1>2, <1>3, <1>5, <1>6, <1>7, <1>8

\* What one more participant does to the coefficient of another.
LEMMA OneMore ==
  ASSUME NEW S \in SUBSET Participants, NEW a \in S, NEW i \in S, i # a
  PROVE  Times(Minus(a, i), Lagrange(i, S)) = Times(a, Lagrange(i, S \ {a}))
<1> DEFINE T == S \ {i}
           r == S \ {a}
           U == r \ {i}
           g == Minus(a, i)
           D == Product(Gaps(i), U)
           P == Product(Others(i), U)
           E == Product(Gaps(i), T)
<1>1. /\ T \in SUBSET Participants
      /\ a \in T
      /\ T \ {a} = U
      /\ i \in Participants
      /\ a \in Participants
      /\ r \in SUBSET Participants
  OBVIOUS
<1>2. IsFiniteSet(Participants)
  BY Finite
<1>3. Others(i) \in [Participants -> Scalars] /\ Gaps(i) \in [Participants -> Scalars]
  BY <1>1, Fractions
<1>4. Others(i)[a] = a /\ Gaps(i)[a] = g
  BY <1>1 DEF Others, Gaps
<1>5. Product(Others(i), T) = Times(a, P) /\ E = Times(g, D)
  BY <1>1, <1>2, <1>3, <1>4, ProductStep
<1>6. /\ Lagrange(i, S) = Times(Product(Others(i), T), Reciprocal(E))
      /\ E \in Scalars \ {0}
  BY <1>1, Fractions
<1>7. /\ Lagrange(i, r) = Times(P, Reciprocal(D))
      /\ P \in Scalars /\ D \in Scalars \ {0}
  BY <1>1, Fractions
<1>8. a \in Scalars /\ g \in Scalars
  BY <1>1, ParticipantType, MinusType
<1> HIDE DEF T, U, g, D, P, E
<1>9. /\ Reciprocal(E) \in Scalars /\ Times(E, Reciprocal(E)) = 1
      /\ Reciprocal(D) \in Scalars /\ Times(D, Reciprocal(D)) = 1
  BY <1>6, <1>7, Reciprocals
<1>10. Times(g, Reciprocal(E)) = Reciprocal(D)
  <2>1. Times(D, Times(g, Reciprocal(E))) = Times(Times(D, g), Reciprocal(E))
    BY <1>7, <1>8, <1>9, TimesAssoc
  <2>2. Times(D, g) = E
    BY <1>5, <1>7, <1>8, TimesComm
  <2>3. Times(g, Reciprocal(E)) \in Scalars
    BY <1>8, <1>9, TimesComm
  <2> QED BY <1>7, <1>9, <2>1, <2>2, <2>3, CancelFactor
<1>11. Times(g, Times(Times(a, P), Reciprocal(E))) = Times(Times(a, P), Times(g, Reciprocal(E)))
  <2>1. Times(a, P) \in Scalars
    BY <1>7, <1>8, TimesComm
  <2>2. /\ Times(g, Times(Times(a, P), Reciprocal(E))) = Times(Times(g, Times(a, P)), Reciprocal(E))
        /\ Times(Times(a, P), Times(g, Reciprocal(E))) = Times(Times(Times(a, P), g), Reciprocal(E))
    BY <1>8, <1>9, <2>1, TimesAssoc
  <2> QED BY <1>8, <2>1, <2>2, TimesComm
<1>12. Times(Times(a, P), Reciprocal(D)) = Times(a, Times(P, Reciprocal(D)))
  BY <1>7, <1>8, <1>9, TimesAssoc
<1> QED BY <1>5, <1>6, <1>7, <1>10, <1>11, <1>12 DEF g

\* The value of g at the participants, weighted with the coefficients of S.
Weighted(g, S) == [i \in Participants |-> Times(Lagrange(i, S), g[i])]
Interpolated(g, S) == Sum(Weighted(g, S), S)

\* Weighted values are scalars.
LEMMA WeightedType ==
  ASSUME NEW g \in [Participants -> Scalars], NEW S \in SUBSET Participants
  PROVE  Weighted(g, S) \in [Participants -> Scalars] /\ Interpolated(g, S) \in Scalars
<1>1. \A i \in Participants : Times(Lagrange(i, S), g[i]) \in Scalars
  BY Fractions, TimesComm
<1>2. Weighted(g, S) \in [Participants -> Scalars]
  BY <1>1 DEF Weighted
<1> QED BY <1>2, Finite, SumStep DEF Interpolated

\* With a taken out of S: a * g - (x * g), interpolated, is a times g
\* interpolated by the others.
LEMMA Peel ==
  ASSUME NEW g \in [Participants -> Scalars], NEW h \in [Participants -> Scalars],
         \A i \in Participants : h[i] = Times(i, g[i]),
         NEW S \in SUBSET Participants, NEW a \in S
  PROVE  Interpolated(h, S) = Times(a, Minus(Interpolated(g, S), Interpolated(g, S \ {a})))
<1> DEFINE r == S \ {a}
           W == Weighted(g, S)
           V == Weighted(h, S)
           A == [i \in Participants |-> Times(a, W[i])]
           B == [i \in Participants |-> Neg(V[i])]
           C == [i \in Participants |-> Plus(A[i], B[i])]
           X == Weighted(g, r)
           Y == [i \in Participants |-> Times(a, X[i])]
<1>0. a \in Participants /\ r \in SUBSET Participants /\ IsFiniteSet(Participants)
      /\ a \in Scalars /\ Participants \subseteq Scalars
  BY Finite, ParticipantType
<1>1. /\ W \in [Participants -> Scalars]
      /\ V \in [Participants -> Scalars]
      /\ X \in [Participants -> Scalars]
  BY <1>0, WeightedType
<1>2. /\ A \in [Participants -> Scalars]
      /\ B \in [Participants -> Scalars]
      /\ Y \in [Participants -> Scalars]
  BY <1>0, <1>1, TimesComm, NegMod
<1>3. C \in [Participants -> Scalars]
  BY <1>2, PlusComm
<1>4. \A i \in Participants : C[i] = Times(Minus(a, i), W[i])
  <2> SUFFICES ASSUME NEW i \in Participants
               PROVE  Plus(Times(a, W[i]), Neg(V[i])) = Times(Minus(a, i), W[i])
    OBVIOUS
  <2> DEFINE w == Lagrange(i, S)
  <2>1. /\ w \in Scalars
        /\ i \in Scalars
        /\ g[i] \in Scalars
        /\ W[i] = Times(w, g[i])
        /\ V[i] = Times(w, Times(i, g[i]))
        /\ W[i] \in Scalars
    BY <1>0, <1>1, Fractions DEF Weighted
  <2> HIDE DEF w, W, V
  <2>2. V[i] = Times(i, W[i])
    <3>1. /\ Times(w, Times(i, g[i])) = Times(Times(w, i), g[i])
          /\ Times(i, Times(w, g[i])) = Times(Times(i, w), g[i])
      BY <2>1, TimesAssoc
    <3> QED BY <2>1, <3>1, TimesComm
  <2>3. Times(W[i], Minus(a, i)) = Minus(Times(W[i], a), Times(W[i], i))
    BY <1>0, <2>1, TimesMinus
  <2>4. Times(W[i], Minus(a, i)) = Times(Minus(a, i), W[i])
    BY <1>0, <2>1, TimesComm, MinusType
  <2>5. Times(W[i], a) = Times(a, W[i]) /\ Times(W[i], i) = Times(i, W[i])
    BY <1>0, <2>1, TimesComm
  <2> QED BY <2>2, <2>3, <2>4, <2>5 DEF Minus
<1>5. C[a] = 0
  <2>1. Minus(a, a) = 0 /\ W[a] \in Scalars /\ 0 \in Scalars
    BY <1>0, <1>1, MinusType, PlusZero
  <2>2. Times(0, W[a]) = 0
    BY <2>1, TimesComm, TimesOne
  <2> QED BY <1>0, <1>4, <2>1, <2>2
<1>6. \A i \in r : C[i] = Y[i]
  <2> SUFFICES ASSUME NEW i \in r PROVE Times(Minus(a, i), W[i]) = Times(a, X[i])
    BY <1>4
  <2> DEFINE w == Lagrange(i, S)
             v == Lagrange(i, r)
  <2>1. i \in Participants /\ i \in S /\ i # a
    OBVIOUS
  <2>2. /\ w \in Scalars /\ v \in Scalars /\ g[i] \in Scalars /\ Minus(a, i) \in Scalars
        /\ W[i] = Times(w, g[i]) /\ X[i] = Times(v, g[i])
    BY <1>0, <2>1, Fractions, MinusType DEF Weighted
  <2>3. Times(Minus(a, i), w) = Times(a, v)
    BY <2>1, OneMore
  <2> HIDE DEF w, v, W, X, r
  <2>4. /\ Times(Minus(a, i), Times(w, g[i])) = Times(Times(Minus(a, i), w), g[i])
        /\ Times(a, Times(v, g[i])) = Times(Times(a, v), g[i])
    BY <1>0, <2>2, TimesAssoc
  <2> QED BY <2>2, <2>3, <2>4
<1> HIDE DEF W, V, X
<1>7. Sum(C, S) = Plus(Sum(A, S), Sum(B, S))
  <2>1. IsSum(C, Participants, A, B)
    BY <1>2, <1>3 DEF IsSum
  <2> HIDE DEF A, B, C
  <2> QED BY <1>0, <2>1, SumPlus
<1>8. Sum(A, S) = Times(a, Sum(W, S)) /\ Sum(Y, r) = Times(a, Sum(X, r))
  <2>1. IsMultiple(A, Participants, a, W) /\ IsMultiple(Y, Participants, a, X)
    BY <1>0, <1>1, <1>2 DEF IsMultiple
  <2> HIDE DEF A, Y, r
  <2> QED BY <1>0, <2>1, SumTimes
<1>9. Plus(Sum(B, S), Sum(V, S)) = 0
  <2> DEFINE Z == [i \in Participants |-> Plus(B[i], V[i])]
  <2>1. \A i \in Participants : Z[i] = 0
    BY <1>1, <1>2, NegMod, PlusComm, PlusNeg
  <2>2. Z \in [Participants -> Scalars] /\ \A i \in Participants : Z[i] = Times(0, Z[i])
    BY <2>1, TimesOne DEF Scalars
  <2>3. IsSum(Z, Participants, B, V) /\ IsMultiple(Z, Participants, 0, Z)
    BY <1>1, <1>2, <2>2, PlusZero DEF IsSum, IsMultiple, Scalars
  <2> HIDE DEF B, Z
  <2>4. /\ Sum(Z, S) = Plus(Sum(B, S), Sum(V, S))
        /\ Sum(Z, S) = Times(0, Sum(Z, S))
        /\ Sum(Z, S) \in Scalars
    BY <1>0, <2>2, <2>3, SumPlus, SumTimes, SumStep
  <2>5. Times(0, Sum(Z, S)) = 0
    BY <2>4, TimesComm, TimesOne, PlusZero
  <2> QED BY <2>4, <2>5
<1>10. Sum(C, S) = Sum(Y, r)
  <2>1. Sum(C, S) = Plus(C[a], Sum(C, r)) /\ Sum(C, r) \in Scalars
    <3> HIDE DEF C
    <3> QED BY <1>0, <1>3, SumStep
  <2>2. Sum(C, r) = Sum(Y, r)
    <3>1. [i \in r |-> C[i]] = [i \in r |-> Y[i]]
      BY <1>6
    <3> QED BY <3>1 DEF Sum
  <2> HIDE DEF C
  <2> QED BY <1>5, <2>1, <2>2, PlusZero
<1> DEFINE u == Sum(W, S)
           v == Sum(X, r)
           z == Sum(V, S)
           b == Sum(B, S)
<1>11. u \in Scalars /\ v \in Scalars /\ z \in Scalars /\ b \in Scalars
  <2> HIDE DEF B, r
  <2> QED BY <1>0, <1>1, <1>2, SumStep
<1>12. Plus(Times(a, u), b) = Times(a, v) /\ Plus(b, z) = 0
  BY <1>7, <1>8, <1>9, <1>10
<1>13. Interpolated(h, S) = z /\ Interpolated(g, S) = u /\ Interpolated(g, r) = v
  BY DEF Interpolated, W, V, X
<1> HIDE DEF u, v, z, b, A, B, C, Y
<1>14. z = Times(a, Minus(u, v))
  <2>1. Times(a, Minus(u, v)) = Minus(Times(a, u), Times(a, v))
    BY <1>0, <1>11, TimesMinus
  <2> DEFINE x == Times(a, u)
             y == Times(a, v)
  <2>2. x \in Scalars /\ y \in Scalars /\ Neg(y) \in Scalars /\ Plus(x, b) = y
    BY <1>0, <1>11, <1>12, TimesComm, NegMod
  <2> HIDE DEF x, y
  <2>3. b = Neg(z) /\ z = Neg(b)
    BY <1>11, <1>12, NegUnique, PlusComm
  <2>4. Neg(y) = Plus(Neg(x), Neg(b))
    BY <1>11, <2>2, NegPlus
  <2>5. Plus(x, Plus(Neg(x), z)) = Plus(Plus(x, Neg(x)), z) /\ Plus(x, Neg(x)) = 0
    BY <1>11, <2>2, PlusAssoc, PlusNeg, NegMod
  <2>6. Minus(x, y) = z
    BY <1>11, <2>3, <2>4, <2>5, PlusZero DEF Minus
  <2> QED BY <2>1, <2>6 DEF x, y
<1> QED BY <1>13, <1>14 DEF r
\* The powers of x are what the loop makes of them.
LEMMA PowersType ==
  ASSUME NEW x \in Scalars
  PROVE  /\ Powers(x) \in [Degrees -> Scalars]
         /\ Powers(x)[0] = 1
         /\ \A k \in Degrees : k + 1 \in Degrees => Powers(x)[k + 1] = Times(Powers(x)[k], x)
<1>1. Threshold \in Nat /\ Threshold - 1 \in Nat /\ 0 \in Degrees /\ 1 \in Scalars
  BY QuorumAssumption DEF Degrees, Scalars
<1> DEFINE Rule(p, k) == p[k] = IF k = 0 THEN 1 ELSE Times(p[k - 1], x)
           p == CHOOSE p : p = [k \in Degrees |-> IF k = 0 THEN 1 ELSE Times(p[k - 1], x)]
           Good == {m \in Degrees : \E r : \A k \in 0 .. m : Rule(r, k)}
<1>2. 0 \in Good
  <2>1. \A k \in 0 .. 0 : Rule([j \in Degrees |-> 1], k)
    BY <1>1
  <2> QED BY <1>1, <2>1
<1>3. ASSUME NEW m \in 0 .. ((Threshold - 1) - 1), m \in Good PROVE m + 1 \in Good
  <2>1. PICK r : \A k \in 0 .. m : Rule(r, k)
    BY <1>3
  <2> DEFINE t == [k \in 0 .. (m + 1) |-> IF k = m + 1 THEN Times(r[m], x) ELSE r[k]]
  <2>2. ASSUME NEW k \in 0 .. (m + 1) PROVE Rule(t, k)
    <3>1. CASE k = m + 1
      BY <3>1
    <3>2. CASE k # m + 1
      <4>1. k \in 0 .. m /\ t[k] = r[k] /\ (k # 0 => t[k - 1] = r[k - 1])
        BY <3>2
      <4> HIDE DEF t
      <4> QED BY <2>1, <4>1
    <3> QED BY <3>1, <3>2
  <2>3. m + 1 \in Degrees
    BY <1>1 DEF Degrees
  <2> HIDE DEF t, Rule
  <2> QED BY <2>2, <2>3
<1> HIDE DEF Good
<1>4. Threshold - 1 \in Good
  BY <1>1, <1>2, <1>3, UpTo
<1>5. PICK r : \A k \in 0 .. (Threshold - 1) : Rule(r, k)
  <2> HIDE DEF Rule
  <2> QED BY <1>4 DEF Good
<1>6. p = [k \in Degrees |-> IF k = 0 THEN 1 ELSE Times(p[k - 1], x)]
  <2> DEFINE t == [k \in Degrees |-> r[k]]
  <2>1. \A k \in Degrees : t[k] = IF k = 0 THEN 1 ELSE Times(t[k - 1], x)
    <3>1. \A k \in Degrees : t[k] = r[k] /\ (k # 0 => t[k - 1] = r[k - 1])
      BY <1>1 DEF Degrees
    <3> HIDE DEF t
    <3> QED BY <1>5, <3>1 DEF Degrees
  <2>2. t = [k \in Degrees |-> t[k]]
    OBVIOUS
  <2> HIDE DEF t
  <2>3. [k \in Degrees |-> t[k]] = [k \in Degrees |-> IF k = 0 THEN 1 ELSE Times(t[k - 1], x)]
    BY <2>1
  <2>4. t = [k \in Degrees |-> IF k = 0 THEN 1 ELSE Times(t[k - 1], x)]
    BY <2>2, <2>3
  <2> QED BY <2>4
<1>7. Powers(x) = p
  BY DEF Powers
<1> HIDE DEF p
<1>8. DOMAIN p = Degrees /\ p[0] = 1
  BY <1>1, <1>6
<1>9. \A k \in Degrees : k + 1 \in Degrees => p[k + 1] = Times(p[k], x)
  <2> SUFFICES ASSUME NEW k \in Degrees, k + 1 \in Degrees PROVE p[k + 1] = Times(p[k], x)
    OBVIOUS
  <2>1. k + 1 # 0 /\ (k + 1) - 1 = k
    BY DEF Degrees
  <2> QED BY <1>6, <2>1
<1> DEFINE Typed == {m \in Degrees : p[m] \in Scalars}
<1>10. 0 \in Typed
  BY <1>1, <1>8
<1>11. ASSUME NEW m \in 0 .. ((Threshold - 1) - 1), m \in Typed PROVE m + 1 \in Typed
  <2>1. m \in Degrees /\ m + 1 \in Degrees
    BY <1>1 DEF Degrees
  <2>2. p[m + 1] = Times(p[m], x) /\ p[m] \in Scalars
    BY <1>9, <1>11, <2>1
  <2> QED BY <2>1, <2>2, TimesComm
<1> HIDE DEF Typed
<1>12. \A m \in 0 .. (Threshold - 1) : m \in Typed
  BY <1>1, <1>10, <1>11, UpTo
<1>13. p \in [Degrees -> Scalars]
  <2>1. \A m \in Degrees : p[m] \in Scalars
    BY <1>12 DEF Typed, Degrees
  <2>2. p = [k \in Degrees |-> p[k]]
    BY <1>6
  <2> QED BY <2>1, <2>2
<1> QED BY <1>7, <1>8, <1>9, <1>13

\* The k-th powers of the participants, and what interpolating them at 0 gives.
PowersOf(k) == [i \in Participants |-> Powers(i)[k]]
AtZero(k) == IF k = 0 THEN 1 ELSE 0

\* Powers are scalars, each the last one times the participant.
LEMMA PowersOfType ==
  ASSUME NEW k \in Degrees
  PROVE  /\ PowersOf(k) \in [Participants -> Scalars]
         /\ k = 0 => \A i \in Participants : PowersOf(k)[i] = 1
         /\ k + 1 \in Degrees =>
               \A i \in Participants : PowersOf(k + 1)[i] = Times(i, PowersOf(k)[i])
<1>1. \A i \in Participants : i \in Scalars
  BY ParticipantType
<1>2. \A i \in Participants : Powers(i) \in [Degrees -> Scalars] /\ Powers(i)[0] = 1
  BY <1>1, PowersType
<1>3. ASSUME k + 1 \in Degrees, NEW i \in Participants
      PROVE  PowersOf(k + 1)[i] = Times(i, PowersOf(k)[i])
  <2>1. Powers(i)[k + 1] = Times(Powers(i)[k], i) /\ Powers(i)[k] \in Scalars
    BY <1>1, <1>2, <1>3, PowersType
  <2> QED BY <1>1, <2>1, TimesComm DEF PowersOf
<1> QED BY <1>2, <1>3 DEF PowersOf

\* One participant's coefficient is 1.
LEMMA Alone ==
  ASSUME NEW a \in Participants, NEW g \in [Participants -> Scalars]
  PROVE  Interpolated(g, {a}) = g[a]
<1>1. {a} \ {a} = {} /\ {a} \in SUBSET Participants /\ IsFiniteSet(Participants)
  BY Finite
<1>2. Lagrange(a, {a}) = Times(1, Reciprocal(1))
  BY <1>1, Fractions, Empty
<1>3. 1 \in Scalars /\ Times(1, Reciprocal(1)) = 1
  <2>1. 1 \in Scalars /\ 1 # 0
    BY DEF Scalars
  <2> QED BY <2>1, Reciprocals
<1>4. Weighted(g, {a})[a] = g[a]
  BY <1>2, <1>3, TimesOne DEF Weighted
<1>5. Weighted(g, {a}) \in [Participants -> Scalars]
  BY <1>1, WeightedType
<1>6. Sum(Weighted(g, {a}), {a}) = Plus(Weighted(g, {a})[a], Sum(Weighted(g, {a}), {a} \ {a}))
  BY <1>1, <1>5, SumStep
<1> QED BY <1>1, <1>4, <1>6, Empty, PlusZero DEF Interpolated

\* The coefficients of any participants sum up to 1.
LEMMA CoefficientsSum ==
  \A S \in SUBSET Participants : S # {} => Interpolated(PowersOf(0), S) = 1
<1> DEFINE g == PowersOf(0)
           h == [i \in Participants |-> Times(i, g[i])]
           Good == {s \in SUBSET Participants : s # {} => Interpolated(g, s) = 1}
<1>1. g \in [Participants -> Scalars] /\ \A i \in Participants : g[i] = 1
  BY PolyType, PowersOfType
<1> HIDE DEF g
<1>2. h \in [Participants -> Scalars] /\ \A i \in Participants : h[i] = Times(i, g[i])
  BY <1>1, ParticipantType, TimesComm
<1> HIDE DEF h
<1>3. IsFiniteSet(Participants) /\ 1 \in Scalars /\ 0 \in Scalars
  BY Finite DEF Scalars
<1>4. ASSUME NEW s \in SUBSET Participants, \A t \in SUBSET s : t # s => t \in Good
      PROVE  s \in Good
  <2> SUFFICES ASSUME s # {} PROVE Interpolated(g, s) = 1
    OBVIOUS
  <2>1. PICK a \in s : TRUE
    OBVIOUS
  <2>2. CASE s = {a}
    BY <1>1, <2>2, Alone
  <2>3. CASE s # {a}
    <3>1. PICK b \in s : b # a
      BY <2>3
    <3> DEFINE u == Interpolated(g, s)
               z == Interpolated(h, s)
    <3>2. u \in Scalars /\ z \in Scalars /\ a \in Scalars /\ b \in Scalars
      BY <1>1, <1>2, WeightedType, ParticipantType
    <3>3. ASSUME NEW c \in s, s \ {c} # {} PROVE z = Minus(Times(c, u), c)
      <4>1. Interpolated(g, s \ {c}) = 1
        BY <1>4, <3>3
      <4>2. z = Times(c, Minus(u, 1))
        BY <1>1, <1>2, <4>1, Peel
      <4>3. c \in Scalars /\ Times(c, 1) = c
        BY ParticipantType, TimesOne
      <4> HIDE DEF u, z
      <4> QED BY <1>3, <3>2, <4>2, <4>3, TimesMinus
    <3>4. z = Minus(Times(a, u), a) /\ z = Minus(Times(b, u), b)
      BY <3>1, <3>3
    <3> HIDE DEF u, z
    <3>5. Times(Minus(a, b), u) = Minus(a, b)
      <4> DEFINE x == Times(a, u)
                 y == Times(b, u)
      <4>1. /\ x \in Scalars /\ y \in Scalars /\ Neg(a) \in Scalars /\ Neg(b) \in Scalars
            /\ Neg(y) \in Scalars
        BY <3>2, TimesComm, NegMod
      <4>2. Minus(x, y) = Times(u, Minus(a, b))
        BY <3>2, TimesComm, TimesMinus
      <4>3. Plus(x, Neg(a)) = Plus(y, Neg(b))
        BY <3>4 DEF Minus
      <4> HIDE DEF x, y
      <4>4. Minus(x, y) = Minus(a, b)
        <5>1. Plus(Plus(x, Neg(a)), Plus(a, Neg(y))) = Plus(Plus(x, Neg(y)), Plus(a, Neg(a)))
          <6>1. Plus(Plus(x, Neg(a)), Plus(Neg(y), a)) = Plus(Plus(x, Neg(y)), Plus(Neg(a), a))
            BY <3>2, <4>1, Crosswise
          <6> QED BY <3>2, <4>1, <6>1, PlusComm
        <5>2. Plus(Plus(y, Neg(b)), Plus(Neg(y), a)) = Plus(Plus(y, Neg(y)), Plus(Neg(b), a))
          BY <3>2, <4>1, Crosswise
        <5>3. Plus(a, Neg(a)) = 0 /\ Plus(y, Neg(y)) = 0
          BY <3>2, <4>1, PlusNeg
        <5>4. Plus(x, Neg(y)) \in Scalars /\ Plus(Neg(b), a) \in Scalars
          BY <3>2, <4>1, PlusComm
        <5>5. Plus(Neg(y), a) = Plus(a, Neg(y)) /\ Plus(Neg(b), a) = Plus(a, Neg(b))
          BY <3>2, <4>1, PlusComm
        <5> QED BY <4>3, <5>1, <5>2, <5>3, <5>4, <5>5, PlusZero DEF Minus
      <4>5. Times(u, Minus(a, b)) = Times(Minus(a, b), u)
        BY <3>2, TimesComm, MinusType
      <4> QED BY <4>2, <4>4, <4>5
    <3>6. Minus(a, b) \in Scalars /\ Minus(a, b) # 0
      BY <3>1, <3>2, MinusType
    <3>7. Times(Minus(a, b), 1) = Minus(a, b)
      BY <3>6, TimesOne
    <3>8. u = 1
      BY <1>3, <3>2, <3>5, <3>6, <3>7, CancelFactor
    <3> QED BY <3>8 DEF u
  <2> QED BY <2>2, <2>3
<1> HIDE DEF Good
<1>5. \A s \in SUBSET Participants : s \in Good
  BY <1>3, <1>4, SubsetInduction, Zenon
<1> QED BY <1>5 DEF Good, g

\* More than k participants interpolate the k-th power to what it is at 0.
LEMMA PowersInterpolate ==
  \A k \in Degrees, S \in SUBSET Participants :
      Cardinality(S) > k => Interpolated(PowersOf(k), S) = AtZero(k)
<1> DEFINE Good == {k \in Degrees : \A S \in SUBSET Participants :
                      Cardinality(S) > k => Interpolated(PowersOf(k), S) = AtZero(k)}
<1>1. Threshold - 1 \in Nat /\ 0 \in Degrees
  BY QuorumAssumption DEF Degrees
<1>2. 0 \in Good
  <2> SUFFICES ASSUME NEW S \in SUBSET Participants, Cardinality(S) > 0
               PROVE  Interpolated(PowersOf(0), S) = AtZero(0)
    BY <1>1
  <2>1. S # {}
    BY FS_EmptySet
  <2> QED BY <2>1, CoefficientsSum DEF AtZero
<1>3. ASSUME NEW k \in 0 .. ((Threshold - 1) - 1), k \in Good PROVE k + 1 \in Good
  <2>1. k \in Degrees /\ k + 1 \in Degrees /\ k + 1 # 0
    BY <1>1 DEF Degrees
  <2> SUFFICES ASSUME NEW S \in SUBSET Participants, Cardinality(S) > k + 1
               PROVE  Interpolated(PowersOf(k + 1), S) = 0
    BY <2>1 DEF AtZero
  <2>2. IsFiniteSet(S) /\ Cardinality(S) \in Nat /\ k \in Nat
    BY Finite, FS_Subset, FS_CardinalityType
  <2>3. S # {}
    BY <2>2, FS_EmptySet
  <2>4. PICK a \in S : TRUE
    BY <2>3
  <2>5. Cardinality(S \ {a}) = Cardinality(S) - 1
    BY <2>2, FS_RemoveElement
  <2>6. Interpolated(PowersOf(k), S) = AtZero(k) /\ Interpolated(PowersOf(k), S \ {a}) = AtZero(k)
    BY <1>3, <2>2, <2>5
  <2>7. AtZero(k) \in Scalars
    BY DEF AtZero, Scalars
  <2>8. /\ PowersOf(k) \in [Participants -> Scalars]
        /\ PowersOf(k + 1) \in [Participants -> Scalars]
        /\ \A i \in Participants : PowersOf(k + 1)[i] = Times(i, PowersOf(k)[i])
    BY <2>1, PowersOfType
  <2>9. Interpolated(PowersOf(k + 1), S) = Times(a, Minus(AtZero(k), AtZero(k)))
    BY <2>6, <2>8, Peel
  <2>10. Minus(AtZero(k), AtZero(k)) = 0 /\ a \in Scalars
    BY <2>7, MinusType, ParticipantType
  <2> QED BY <2>9, <2>10, TimesOne
<1> HIDE DEF Good
<1>4. \A k \in 0 .. (Threshold - 1) : k \in Good
  BY <1>1, <1>2, <1>3, UpTo
<1> QED BY <1>4 DEF Good, Degrees

\* Zeros sum up to zero.
LEMMA SumZeros ==
  ASSUME NEW S, IsFiniteSet(S), NEW f \in [S -> Scalars], NEW s \in SUBSET S, \A i \in s : f[i] = 0
  PROVE  Sum(f, s) = 0
<1> DEFINE g == [i \in S |-> 0]
<1>1. g \in [S -> Scalars] /\ \A i \in S : g[i] = Times(0, g[i])
  BY TimesOne DEF Scalars
<1>2. IsMultiple(g, S, 0, g)
  BY <1>1 DEF IsMultiple, Scalars
<1>3. [i \in s |-> f[i]] = [i \in s |-> g[i]]
  OBVIOUS
<1> HIDE DEF g
<1>4. Sum(g, s) = Times(0, Sum(g, s)) /\ Sum(g, s) \in Scalars
  BY <1>1, <1>2, SumTimes, SumStep
<1>5. Times(0, Sum(g, s)) = 0
  BY <1>4, TimesComm, TimesOne, PlusZero
<1> QED BY <1>3, <1>4, <1>5 DEF Sum

\* Interpolation goes through a sum.
LEMMA InterpolateSum ==
  ASSUME NEW T, IsFiniteSet(T), NEW m, \A i \in Participants : m[i] \in [T -> Scalars],
         NEW S \in SUBSET Participants
  PROVE  Interpolated([i \in Participants |-> Sum(m[i], T)], S)
            = Sum([t \in T |-> Interpolated([i \in Participants |-> m[i][t]], S)], T)
<1> DEFINE w(i) == Lagrange(i, S)
           n == [i \in Participants |-> [t \in T |-> Times(w(i), m[i][t])]]
           Row(i) == [t \in T |-> n[i][t]]
           Column(t) == [i \in Participants |-> n[i][t]]
           rows == [i \in Participants |-> Sum(Row(i), T)]
           columns == [t \in T |-> Sum(Column(t), S)]
           sums == [i \in Participants |-> Sum(m[i], T)]
<1>1. IsFiniteSet(Participants) /\ T \in SUBSET T
  BY Finite
<1>2. \A i \in Participants : w(i) \in Scalars
  BY Fractions
<1>3. \A i \in Participants : \A t \in T :
        /\ m[i][t] \in Scalars
        /\ n[i][t] = Times(w(i), m[i][t])
        /\ n[i][t] \in Scalars
  BY <1>2, TimesComm
<1> HIDE DEF w, n
<1>4. Sum(rows, S) = Sum(columns, T)
  <2>1. Table(n, Participants, T)
    BY <1>3 DEF Table
  <2>2. Sum(RowSums(n, Participants, T), S) = Sum(ColumnSums(n, Participants, T, S), T)
    BY <1>1, <2>1, SumSwap
  <2> QED BY <2>2 DEF RowSums, ColumnSums
<1>5. Weighted(sums, S) = rows
  <2> SUFFICES ASSUME NEW i \in Participants PROVE Times(w(i), Sum(m[i], T)) = Sum(Row(i), T)
    BY DEF Weighted, w
  <2>1. IsMultiple(Row(i), T, w(i), m[i])
    BY <1>2, <1>3 DEF IsMultiple
  <2> HIDE DEF Row
  <2> QED BY <1>1, <2>1, SumTimes
<1>6. \A t \in T : columns[t] = Interpolated([i \in Participants |-> m[i][t]], S)
  <2> SUFFICES ASSUME NEW t \in T
               PROVE  Column(t) = Weighted([i \in Participants |-> m[i][t]], S)
    BY DEF Interpolated
  <2> QED BY <1>3 DEF Weighted, w
<1>7. columns = [t \in T |-> Interpolated([i \in Participants |-> m[i][t]], S)]
  BY <1>6
<1>8. Interpolated(sums, S) = Sum(rows, S)
  BY <1>5 DEF Interpolated
<1> HIDE DEF rows, columns
<1> QED BY <1>4, <1>7, <1>8

\* The value of a polynomial, from its coefficients and the powers.
Terms(f, i) == [k \in Degrees |-> Times(f[k], Powers(i)[k])]
Value(f, i) == SumOf(Terms(f, i))

\* The terms of a value are scalars, and so is the value.
LEMMA ValueType ==
  ASSUME NEW f \in [Degrees -> Scalars], NEW i \in Participants
  PROVE  /\ Terms(f, i) \in [Degrees -> Scalars]
         /\ Value(f, i) \in Scalars
         /\ Value(f, i) = Sum(Terms(f, i), Degrees)
<1>1. i \in Scalars
  BY ParticipantType
<1>2. \A k \in Degrees : Times(f[k], Powers(i)[k]) \in Scalars
  BY <1>1, PowersType, TimesComm
<1>3. Terms(f, i) \in [Degrees -> Scalars]
  BY <1>2 DEF Terms
<1>4. Terms(f, i) = [k \in Degrees |-> Terms(f, i)[k]]
  BY DEF Terms
<1> QED BY <1>3, <1>4, Finite, SumType DEF Value, Sum

\* As many participants as the threshold says interpolate a polynomial to its
\* constant term.
LEMMA PolyInterpolates ==
  ASSUME NEW f \in [Degrees -> Scalars], NEW S \in SUBSET Participants, Cardinality(S) >= Threshold
  PROVE  Interpolated([i \in Participants |-> Value(f, i)], S) = f[0]
<1> DEFINE m == [i \in Participants |-> Terms(f, i)]
           At(k) == Interpolated([i \in Participants |-> m[i][k]], S)
           ats == [k \in Degrees |-> At(k)]
<1>1. /\ \A i \in Participants : m[i] \in [Degrees -> Scalars] /\ Value(f, i) = Sum(m[i], Degrees)
      /\ IsFiniteSet(Degrees) /\ IsFiniteSet(Participants)
      /\ 0 \in Degrees /\ Degrees \in SUBSET Degrees
  BY ValueType, Finite, PolyType
<1>2. \A k \in Degrees : At(k) = Times(f[k], AtZero(k))
  <2> SUFFICES ASSUME NEW k \in Degrees PROVE At(k) = Times(f[k], AtZero(k))
    OBVIOUS
  <2> DEFINE g == [i \in Participants |-> m[i][k]]
             W == Weighted(PowersOf(k), S)
             V == Weighted(g, S)
  <2>1. PowersOf(k) \in [Participants -> Scalars] /\ g \in [Participants -> Scalars]
    BY <1>1, PowersOfType
  <2>2. W \in [Participants -> Scalars] /\ V \in [Participants -> Scalars]
    BY <2>1, WeightedType
  <2>3. ASSUME NEW i \in Participants PROVE V[i] = Times(f[k], W[i])
    <3> DEFINE w == Lagrange(i, S)
               x == PowersOf(k)[i]
    <3>1. g[i] = Times(f[k], x)
      BY DEF Terms, PowersOf
    <3>2. V[i] = Times(w, g[i]) /\ W[i] = Times(w, x)
      BY DEF Weighted
    <3>3. w \in Scalars /\ x \in Scalars /\ f[k] \in Scalars
      BY <2>1, Fractions
    <3> HIDE DEF w, x, g, V, W, m
    <3>4. /\ Times(w, Times(f[k], x)) = Times(Times(w, f[k]), x)
          /\ Times(f[k], Times(w, x)) = Times(Times(f[k], w), x)
      BY <3>3, TimesAssoc
    <3> QED BY <3>1, <3>2, <3>3, <3>4, TimesComm
  <2>4. IsMultiple(V, Participants, f[k], W)
    BY <2>2, <2>3 DEF IsMultiple
  <2> HIDE DEF V, W
  <2>5. Sum(V, S) = Times(f[k], Sum(W, S))
    BY <1>1, <2>4, SumTimes
  <2>6. Sum(W, S) = AtZero(k)
    <3>1. Cardinality(S) > k
      <4>1. Cardinality(S) \in Nat
        BY <1>1, FS_Subset, FS_CardinalityType
      <4> QED BY <4>1, QuorumAssumption DEF Degrees
    <3> QED BY <3>1, PowersInterpolate DEF Interpolated, W
  <2> QED BY <2>5, <2>6 DEF Interpolated, V
<1>3. Interpolated([i \in Participants |-> Sum(m[i], Degrees)], S) = Sum(ats, Degrees)
  <2> HIDE DEF m
  <2> QED BY <1>1, InterpolateSum
<1>4. [i \in Participants |-> Value(f, i)] = [i \in Participants |-> Sum(m[i], Degrees)]
  BY <1>1
<1> HIDE DEF m, At
<1>5. ats \in [Degrees -> Scalars] /\ ats[0] = f[0] /\ \A k \in Degrees \ {0} : ats[k] = 0
  <2>1. \A k \in Degrees :
        /\ Times(f[k], AtZero(k)) \in Scalars
        /\ (k # 0 => Times(f[k], AtZero(k)) = 0)
        /\ (k = 0 => Times(f[k], AtZero(k)) = f[k])
    <3>1. \A k : AtZero(k) \in Scalars /\ (k # 0 => AtZero(k) = 0) /\ (k = 0 => AtZero(k) = 1)
      BY DEF AtZero, Scalars
    <3> QED BY <3>1, TimesOne, TimesComm
  <2> QED BY <1>1, <1>2, <2>1
<1> HIDE DEF ats
<1>6. Sum(ats, Degrees) = Plus(ats[0], Sum(ats, Degrees \ {0}))
  BY <1>1, <1>5, SumStep
<1>7. Sum(ats, Degrees \ {0}) = 0
  <2>1. Degrees \ {0} \in SUBSET Degrees
    OBVIOUS
  <2> QED BY <1>1, <1>5, <2>1, SumZeros
<1> QED BY <1>1, <1>3, <1>4, <1>5, <1>6, <1>7, PlusZero

\* A sign goes through a sum.
LEMMA SumSigned ==
  ASSUME NEW S, IsFiniteSet(S), NEW f \in [S -> Scalars], NEW b \in BOOLEAN
  PROVE  Sum([i \in S |-> SignedBy(b, f[i])], S) = SignedBy(b, Sum(f, S))
<1> DEFINE h == [i \in S |-> SignedBy(b, f[i])]
           c == Neg(1)
<1>1. /\ c \in Scalars
      /\ S \in SUBSET S
      /\ \A x \in Scalars : Times(c, x) = Neg(x) /\ Neg(x) \in Scalars
  <2>1. 1 \in Scalars
    BY DEF Scalars
  <2>2. \A x \in Scalars : Times(Neg(1), x) = Neg(Times(1, x)) /\ Times(1, x) = x
    BY <2>1, NegTimes, TimesOne
  <2> QED BY <2>1, <2>2, NegMod
<1> HIDE DEF c
<1>2. CASE b
  <2>1. IsMultiple(h, S, c, f)
    BY <1>1, <1>2 DEF IsMultiple, SignedBy
  <2> HIDE DEF h
  <2>2. Sum(h, S) = Times(c, Sum(f, S)) /\ Sum(f, S) \in Scalars
    BY <1>1, <2>1, SumTimes, SumStep
  <2>3. Sum(h, S) = Neg(Sum(f, S))
    BY <1>1, <2>2
  <2> QED BY <1>2, <2>3 DEF SignedBy, h
<1>3. CASE ~b
  <2>1. [i \in S |-> h[i]] = [i \in S |-> f[i]]
    BY <1>3 DEF SignedBy
  <2>2. Sum(h, S) = Sum(f, S)
    BY <2>1 DEF Sum
  <2> QED BY <1>3, <2>2 DEF SignedBy
<1> QED BY <1>2, <1>3

\* p names every element of S at one place of D.
Enumerates(p, D, S) ==
    /\ DOMAIN p = D /\ S = {p[n] : n \in D}
    /\ \A m, n \in D : p[m] = p[n] => m = n

\* A sum can be taken over the places.
LEMMA SumReindexed ==
  ASSUME NEW D, IsFiniteSet(D), NEW S, IsFiniteSet(S), NEW p, Enumerates(p, D, S),
         NEW f \in [S -> Scalars]
  PROVE  Sum([n \in D |-> f[p[n]]], D) = Sum(f, S)
<1> DEFINE h == [n \in D |-> f[p[n]]]
           image(d) == {p[n] : n \in d}
           Good == {d \in SUBSET D : Sum(h, d) = Sum(f, image(d))}
<1>1. h \in [D -> Scalars] /\ \A n \in D : h[n] = f[p[n]] /\ p[n] \in S
  BY DEF Enumerates
<1>2. ASSUME NEW d \in SUBSET D, \A t \in SUBSET d : t # d => t \in Good
      PROVE  d \in Good
  <2>1. CASE d = {}
    <3>1. image(d) = {}
      BY <2>1
    <3> QED BY <2>1, <3>1, Empty
  <2>2. CASE d # {}
    <3>1. PICK a \in d : TRUE
      BY <2>2
    <3> DEFINE r == d \ {a}
    <3>2. r \in Good /\ r \in SUBSET D /\ a \in D
      BY <1>2
    <3>3. image(r) = image(d) \ {p[a]} /\ p[a] \in image(d) /\ image(d) \in SUBSET S
      BY <1>1, <3>2 DEF Enumerates
    <3> HIDE DEF image, h
    <3>4. Sum(h, d) = Plus(h[a], Sum(h, r))
      BY <1>1, SumStep
    <3> HIDE DEF r
    <3>5. Sum(f, image(d)) = Plus(f[p[a]], Sum(f, image(r)))
      BY <3>3, SumStep
    <3> QED BY <1>1, <3>2, <3>4, <3>5
  <2> QED BY <2>1, <2>2
<1> HIDE DEF Good
<1>3. \A d \in SUBSET D : d \in Good
  BY <1>2, SubsetInduction, Zenon
<1>4. D \in SUBSET D /\ image(D) = S
  BY DEF Enumerates
<1> HIDE DEF h, image
<1>5. Sum(h, D) = Sum(f, image(D))
  BY <1>3, <1>4 DEF Good
<1> QED BY <1>4, <1>5 DEF h

\* The places are as many as the elements.
LEMMA EnumeratesAll ==
  ASSUME NEW D, IsFiniteSet(D), NEW S, NEW p, Enumerates(p, D, S)
  PROVE  IsFiniteSet(S) /\ Cardinality(S) = Cardinality(D)
<1> DEFINE b == [n \in D |-> p[n]]
<1>1. b \in Bijection(D, S)
  BY DEF Enumerates, Bijection, Injection, Surjection, IsInjective
<1>2. ExistsBijection(D, S)
  BY <1>1 DEF ExistsBijection
<1> QED BY <1>2, FS_Bijection
-----------------------------------------------------------------------------
(* The invariant.                                                           *)

\* Nonces and the commitments to them.
Made == [h : Scalars, b : Scalars, number : Nat]

\* Lists under signature.
Session ==
    {s \in [ids : Seq(Participants), commits : Seq(Made),
            rho : [Participants -> Scalars], e : Scalars] :
        DOMAIN s.commits = DOMAIN s.ids}

\* What i dealt to j, by its commitments, if it dealt right.
Due(i, j) == Value(poly[i], j)

\* Whoever has a package has the sum of what everybody should have dealt to it,
\* and the sum of the constant terms for the key.
Packaged(j) ==
    /\ \A i \in Participants : poly[i] # NoPoly
    /\ pkg[j].share = SumOf([i \in Participants |-> Due(i, j)])
    /\ pkg[j].vshare = pkg[j].share
    /\ pkg[j].key = SumOf([i \in Participants |-> poly[i][0]])

Keys ==
    /\ poly \in [Participants -> Polys \cup {NoPoly}]
    /\ share \in [Participants -> [Participants -> Scalars]]
    /\ pkg \in [Participants ->
                   [share : Scalars, vshare : Scalars, key : 1 .. (q - 1)] \cup {NoPkg}]
    /\ \A j \in Participants : pkg[j] # NoPkg => Packaged(j)

Rounds ==
    /\ made \in Nat
    /\ nonce \in [Participants -> Made]
    /\ commit \in [Participants -> Made]
    /\ \A i \in Participants : nonce[i] \in {Erased, commit[i]}
    /\ sessions \in Seq(Session)

\* A partial signature is what its signer made of the list, its package and
\* the nonce that it used.
Signed ==
    \A p \in partials :
        LET s == sessions[p.session] IN
        /\ p.session \in DOMAIN sessions
        /\ p.signer \in Participants /\ pkg[p.signer] # NoPkg
        /\ p.used \in Made
        /\ Unique(s.ids) /\ Quorum(s.ids) /\ p.signer \in Range(s.ids)
        /\ p.z = Partial(s, p.signer, p.used, pkg[p.signer])
        /\ p.z # 0

\* A signature is the sum of what was given, under a list of signers who may
\* sign it.
Finished ==
    \A g \in sigs :
        LET s == sessions[g.session]
            R == GroupCommitment(s)
        IN  /\ g.session \in DOMAIN sessions
            /\ Unique(s.ids) /\ Quorum(s.ids)
            /\ \A n \in DOMAIN s.ids : pkg[s.ids[n]] # NoPkg
            /\ g.zs \in [DOMAIN s.ids -> Scalars]
            /\ g.s = SumOf(g.zs) /\ g.s # 0
            /\ g.R = SignedBy(OddY(R), R) /\ R # 0

Sound == Keys /\ Rounds /\ Signed /\ Finished
-----------------------------------------------------------------------------
(* Every step keeps it.                                                     *)

\* Turning a scalar leaves it one.
LEMMA SignedType ==
  ASSUME NEW x \in Scalars, NEW b
  PROVE  SignedBy(b, x) \in Scalars
  BY ScalarsInt, Closed DEF SignedBy

\* What a nonce and a share put into a partial signature are scalars.
LEMMA TermTypes ==
  ASSUME NEW s \in Session, NEW i \in Participants
  PROVE  /\ \A k \in Made : NonceTerm(s, i, k) \in Scalars
         /\ \A x \in Scalars : \A key : ShareTerm(s, i, x, key) \in Scalars
<1>1. s.rho[i] \in Scalars /\ s.e \in Scalars /\ s.ids \in Seq(Participants)
  BY DEF Session
<1>2. ASSUME NEW k \in Made PROVE NonceTerm(s, i, k) \in Scalars
  <2>1. k.h \in Scalars /\ k.b \in Scalars
    BY DEF Made
  <2>2. Times(s.rho[i], k.b) \in Int
    BY <1>1, <2>1, ScalarsInt, Closed
  <2>3. Plus(k.h, Times(s.rho[i], k.b)) \in Scalars
    BY <2>1, <2>2, ScalarsInt, Closed
  <2> QED BY <2>3, SignedType DEF NonceTerm
<1>3. ASSUME NEW x \in Scalars, NEW key PROVE ShareTerm(s, i, x, key) \in Scalars
  <2>1. Range(s.ids) \in SUBSET Participants
    BY <1>1 DEF Range
  <2>2. Lagrange(i, Range(s.ids)) \in Int
    BY <2>1, Fractions, ScalarsInt
  <2>3. SignedBy(OddY(key), x) \in Int
    BY SignedType, ScalarsInt
  <2>4. Times(Lagrange(i, Range(s.ids)), SignedBy(OddY(key), x)) \in Int
    BY <2>2, <2>3, Closed, ScalarsInt
  <2> QED BY <1>1, <2>4, Closed, ScalarsInt DEF ShareTerm
<1> QED BY <1>2, <1>3

\* The group commitment to a list is a scalar.
LEMMA CommitmentType ==
  ASSUME NEW s \in Session
  PROVE  /\ IsFiniteSet(DOMAIN s.ids)
         /\ GroupCommitment(s) \in Scalars
<1>1. /\ s.ids \in Seq(Participants) /\ s.commits \in Seq(Made)
      /\ DOMAIN s.commits = DOMAIN s.ids
      /\ s.rho \in [Participants -> Scalars]
  BY DEF Session
<1>2. IsFiniteSet(DOMAIN s.ids)
  <2>1. DOMAIN s.ids = 1 .. Len(s.ids) /\ Len(s.ids) \in Nat
    BY <1>1
  <2>2. IsFiniteSet(1 .. Len(s.ids))
    BY <2>1, FS_Interval
  <2> QED BY <2>1, <2>2
<1> DEFINE t == [n \in DOMAIN s.ids |->
                      Plus(s.commits[n].h, Times(s.rho[s.ids[n]], s.commits[n].b))]
<1>3. t \in [DOMAIN s.ids -> Scalars]
  <2> SUFFICES ASSUME NEW n \in DOMAIN s.ids
               PROVE  Plus(s.commits[n].h, Times(s.rho[s.ids[n]], s.commits[n].b)) \in Scalars
    OBVIOUS
  <2>1. s.commits[n] \in Made /\ s.ids[n] \in Participants
    BY <1>1
  <2>2. s.commits[n].h \in Int /\ s.commits[n].b \in Int /\ s.rho[s.ids[n]] \in Int
    BY <1>1, <2>1, ScalarsInt DEF Made
  <2>3. Times(s.rho[s.ids[n]], s.commits[n].b) \in Int
    BY <2>2, Closed, ScalarsInt
  <2> QED BY <2>2, <2>3, Closed
<1>4. GroupCommitment(s) = SumOf(t)
  BY DEF GroupCommitment
<1> HIDE DEF t
<1> QED BY <1>2, <1>3, <1>4, SumType

\* Nothing that was signed changes with packages and lists that are added.
LEMMA Kept ==
  ASSUME Signed, Finished,
         \A j \in Participants : pkg[j] # NoPkg => pkg'[j] = pkg[j],
         \A k \in DOMAIN sessions : k \in DOMAIN sessions' /\ sessions'[k] = sessions[k],
         \A k \in DOMAIN sessions : \A n \in DOMAIN sessions[k].ids :
             sessions[k].ids[n] \in Participants
  PROVE  /\ UNCHANGED partials => Signed'
         /\ UNCHANGED sigs => Finished'
<1>1. ASSUME UNCHANGED partials PROVE Signed'
  BY <1>1 DEF Signed
<1>2. ASSUME UNCHANGED sigs PROVE Finished'
  BY <1>2 DEF Finished
<1> QED BY <1>1, <1>2

\* The lists name participants.
LEMMA Listed ==
  ASSUME Rounds
  PROVE  /\ \A k \in DOMAIN sessions : sessions[k] \in Session
         /\ \A k \in DOMAIN sessions : \A n \in DOMAIN sessions[k].ids :
                sessions[k].ids[n] \in Participants
<1>1. \A k \in DOMAIN sessions : sessions[k] \in Session
  BY DEF Rounds
<1>2. \A s \in Session : s.ids \in Seq(Participants)
  BY DEF Session
<1> QED BY <1>1, <1>2

\* At first nothing is there.
LEMMA InitSound == Init => Sound
<1> SUFFICES ASSUME Init PROVE Sound
  OBVIOUS
<1>1. 0 \in Scalars /\ Erased \in Made
  BY DEF Scalars, Erased, Made
<1>2. Keys
  BY <1>1 DEF Init, Keys
<1>3. Rounds
  BY <1>1 DEF Init, Rounds
<1> QED BY <1>2, <1>3 DEF Init, Sound, Signed, Finished

\* Who deals has not dealt yet, so nobody has a package.
LEMMA KeygenBeginSound ==
  ASSUME Sound, NEW i \in Participants, NEW f \in Polys, KeygenBegin(i, f)
  PROVE  Sound'
<1>1. /\ poly[i] = NoPoly /\ poly' = [poly EXCEPT ![i] = f]
      /\ share' = [share EXCEPT ![i] = [j \in Participants |-> PolyEval(f, j)]]
      /\ UNCHANGED <<pkg, nonce, commit, sessions, partials, sigs, made>>
  BY DEF KeygenBegin
<1>2. \A j \in Participants : PolyEval(f, j) \in Scalars
  BY PolyType, PolyEvalType
<1>3. \A j \in Participants : pkg[j] = NoPkg
  BY <1>1 DEF Sound, Keys, Packaged
<1>4. Keys'
  <2>1. poly' \in [Participants -> Polys \cup {NoPoly}]
    BY <1>1 DEF Sound, Keys
  <2>2. share' \in [Participants -> [Participants -> Scalars]]
    BY <1>1, <1>2 DEF Sound, Keys
  <2> QED BY <1>1, <1>3, <2>1, <2>2 DEF Sound, Keys
<1>5. Rounds'
  BY <1>1 DEF Sound, Rounds
<1> QED BY <1>1, <1>4, <1>5, Kept, Listed DEF Sound

\* A share that arrives wrong is still a scalar.
LEMMA MisdealSound ==
  ASSUME Sound, NEW i \in Participants, NEW j \in Participants, NEW err \in 1 .. (q - 1),
         Misdeal(i, j, err)
  PROVE  Sound'
<1>1. /\ share' = [share EXCEPT ![i][j] = Plus(@, err)]
      /\ UNCHANGED <<poly, pkg, nonce, commit, sessions, partials, sigs, made>>
  BY DEF Misdeal
<1>2. Plus(share[i][j], err) \in Scalars
  <2>1. share[i][j] \in Int
    BY ScalarsInt DEF Sound, Keys
  <2> QED BY <2>1, Closed
<1>3. Keys'
  <2>1. share' \in [Participants -> [Participants -> Scalars]]
    BY <1>1, <1>2 DEF Sound, Keys
  <2>2. \A l \in Participants : pkg'[l] # NoPkg => Packaged(l)'
    BY <1>1 DEF Sound, Keys, Packaged, Due
  <2> QED BY <1>1, <2>1, <2>2 DEF Sound, Keys
<1>4. Rounds'
  BY <1>1 DEF Sound, Rounds
<1> QED BY <1>1, <1>3, <1>4, Kept, Listed DEF Sound

\* Whoever finishes has found that every share fits its commitments.
LEMMA KeygenFinalizeSound ==
  ASSUME Sound, NEW j \in Participants, KeygenFinalize(j)
  PROVE  Sound'
<1> DEFINE secret == SumOf([i \in Participants |-> share[i][j]])
           key == SumOf([i \in Participants |-> poly[i][0]])
           new == [share |-> secret, vshare |-> secret, key |-> key]
<1>1. /\ pkg[j] = NoPkg
      /\ \A i \in Participants : poly[i] # NoPoly
      /\ \A i \in Participants : ShareFits(i, j)
      /\ key # 0
      /\ pkg' = [pkg EXCEPT ![j] = new]
      /\ UNCHANGED <<poly, share, nonce, commit, sessions, partials, sigs, made>>
  BY DEF KeygenFinalize, GroupKeyValid
<1>2. secret \in Scalars
  <2>1. [i \in Participants |-> share[i][j]] \in [Participants -> Scalars]
    BY DEF Sound, Keys
  <2> QED BY <2>1, Finite, SumType
<1>3. key \in 1 .. (q - 1)
  <2>1. \A i \in Participants : poly[i] \in Polys
    BY <1>1 DEF Sound, Keys
  <2>2. [i \in Participants |-> poly[i][0]] \in [Participants -> Scalars]
    BY <2>1, PolyType
  <2>3. key \in Scalars
    BY <2>2, Finite, SumType
  <2> QED BY <1>1, <2>3 DEF Scalars
<1>4. secret = SumOf([i \in Participants |-> Due(i, j)])
  <2>1. \A i \in Participants : share[i][j] = Due(i, j)
    BY <1>1 DEF ShareFits, Due, Value, Terms
  <2>2. [i \in Participants |-> share[i][j]] = [i \in Participants |-> Due(i, j)]
    BY <2>1
  <2> QED BY <2>2
<1>5. Keys'
  <2>1. pkg' \in [Participants ->
                   [share : Scalars, vshare : Scalars, key : 1 .. (q - 1)] \cup {NoPkg}]
    <3>1. new \in [share : Scalars, vshare : Scalars, key : 1 .. (q - 1)]
      BY <1>2, <1>3
    <3> HIDE DEF new
    <3> QED BY <1>1, <3>1 DEF Sound, Keys
  <2>2. ASSUME NEW l \in Participants, pkg'[l] # NoPkg PROVE Packaged(l)'
    <3>1. \A i \in Participants : Due(i, l)' = Due(i, l)
      BY <1>1 DEF Due
    <3>2. [i \in Participants |-> Due(i, l)'] = [i \in Participants |-> Due(i, l)]
      BY <3>1
    <3>3. CASE l = j
      <4>1. pkg'[l] = new
        BY <1>1, <3>3 DEF Sound, Keys
      <4>2. new.share = secret /\ new.vshare = secret /\ new.key = key
        OBVIOUS
      <4> HIDE DEF new
      <4>3. pkg'[l].share = SumOf([i \in Participants |-> Due(i, l)'])
        BY <4>1, <4>2, <1>4, <3>2, <3>3
      <4> QED BY <1>1, <4>1, <4>2, <4>3 DEF Packaged
    <3>4. CASE l # j
      <4>1. pkg'[l] = pkg[l]
        BY <1>1, <3>4 DEF Sound, Keys
      <4>2. Packaged(l)
        BY <2>2, <4>1 DEF Sound, Keys
      <4>3. pkg'[l].share = SumOf([i \in Participants |-> Due(i, l)'])
        BY <4>1, <4>2, <3>2 DEF Packaged
      <4> QED BY <1>1, <4>1, <4>2, <4>3 DEF Packaged
    <3> QED BY <3>3, <3>4
  <2> QED BY <1>1, <2>1, <2>2 DEF Sound, Keys
<1>6. Rounds'
  BY <1>1 DEF Sound, Rounds
<1>7. \A l \in Participants : pkg[l] # NoPkg => pkg'[l] = pkg[l]
  BY <1>1 DEF Sound, Keys
<1> QED BY <1>1, <1>5, <1>6, <1>7, Kept, Listed DEF Sound

\* Packages stay packages while keys do not change.
LEMMA KeysKept ==
  ASSUME Keys, UNCHANGED keys
  PROVE  Keys'
<1>1. UNCHANGED <<poly, share, pkg>>
  BY DEF keys
<1> QED BY <1>1 DEF Keys, Packaged, Due

\* A new nonce is committed to.
LEMMA NonceGenSound ==
  ASSUME Sound, NEW i \in Participants, NEW k \in Nonces, NonceGen(i, k)
  PROVE  Sound'
<1> DEFINE new == [h |-> k.h, b |-> k.b, number |-> made + 1]
<1>1. /\ nonce' = [nonce EXCEPT ![i] = new]
      /\ commit' = [commit EXCEPT ![i] = new]
      /\ made' = made + 1
      /\ UNCHANGED <<keys, sessions, partials, sigs>>
  BY DEF NonceGen
<1>2. new \in Made
  <2>1. k.h \in Scalars /\ k.b \in Scalars
    BY NoncesAssumption DEF Scalars
  <2> QED BY <2>1 DEF Made, Sound, Rounds
<1> HIDE DEF new
<1>3. Rounds'
  BY <1>1, <1>2 DEF Sound, Rounds
<1>4. UNCHANGED pkg
  BY <1>1 DEF keys
<1> QED BY <1>1, <1>3, <1>4, KeysKept, Kept, Listed DEF Sound

\* A list is opened with the commitments of those it names.
LEMMA OpenSessionSound ==
  ASSUME Sound, NEW ids \in Lists, NEW rho \in Bindings, NEW e \in Challenges,
         OpenSession(ids, rho, e)
  PROVE  Sound'
<1> DEFINE new == [ids |-> ids, commits |-> [n \in DOMAIN ids |-> commit[ids[n]]],
                   rho |-> rho, e |-> e]
<1>1. /\ sessions' = Append(sessions, new)
      /\ UNCHANGED <<keys, nonce, commit, partials, sigs, made>>
  BY DEF OpenSession
<1>2. new \in Session
  <2>1. ids \in Seq(Participants)
    BY ListsAssumption
  <2>2. [n \in DOMAIN ids |-> commit[ids[n]]] \in Seq(Made)
    <3>1. DOMAIN ids = 1 .. Len(ids) /\ Len(ids) \in Nat
      BY <2>1
    <3>2. \A n \in DOMAIN ids : commit[ids[n]] \in Made
      BY <2>1 DEF Sound, Rounds
    <3> QED BY <3>1, <3>2
  <2> QED BY <2>1, <2>2, HashesAssumption DEF Session
<1> HIDE DEF new
<1>3. sessions \in Seq(Session)
  BY DEF Sound, Rounds
<1>4. /\ sessions' \in Seq(Session)
      /\ \A k \in DOMAIN sessions : k \in DOMAIN sessions' /\ sessions'[k] = sessions[k]
  BY <1>1, <1>2, <1>3
<1>5. Rounds'
  BY <1>1, <1>4 DEF Sound, Rounds
<1>6. UNCHANGED pkg
  BY <1>1 DEF keys
<1> QED BY <1>1, <1>4, <1>5, <1>6, KeysKept, Kept, Listed DEF Sound

\* Whoever signs has a package, may sign, and signs with the nonce it holds.
LEMMA SignSound ==
  ASSUME Sound, NEW i \in Participants, NEW k \in DOMAIN sessions, Sign(i, k)
  PROVE  Sound'
<1> DEFINE s == sessions[k]
           z == Partial(s, i, nonce[i], pkg[i])
           new == [session |-> k, signer |-> i, z |-> z, used |-> nonce[i]]
<1>1. /\ pkg[i] # NoPkg
      /\ nonce' = [nonce EXCEPT ![i] = Erased]
      /\ UNCHANGED <<keys, commit, sessions, sigs, made>>
      /\ \/ MaySign(i, s) /\ z # 0 /\ partials' = partials \cup {new}
         \/ UNCHANGED partials
  BY DEF Sign
<1>2. Rounds'
  <2>1. Erased \in Made
    BY DEF Erased, Made, Scalars
  <2> QED BY <1>1, <2>1 DEF Sound, Rounds
<1>3. UNCHANGED <<pkg, sessions>>
  BY <1>1 DEF keys
<1>4. Keys' /\ Finished'
  BY <1>1, <1>3, KeysKept, Kept, Listed DEF Sound
<1>5. CASE UNCHANGED partials
  BY <1>2, <1>3, <1>4, <1>5, Kept, Listed DEF Sound
<1>6. CASE MaySign(i, s) /\ z # 0 /\ partials' = partials \cup {new}
  <2>1. new.session = k /\ new.signer = i /\ new.z = z /\ new.used = nonce[i]
    OBVIOUS
  <2>2. nonce[i] \in Made
    BY DEF Sound, Rounds
  <2>3. Unique(s.ids) /\ Quorum(s.ids) /\ i \in Range(s.ids)
    BY <1>6 DEF MaySign
  <2> HIDE DEF new
  <2>4. Signed'
    <3> SUFFICES ASSUME NEW p \in partials'
                 PROVE  LET t == sessions[p.session] IN
                        /\ p.session \in DOMAIN sessions
                        /\ p.signer \in Participants /\ pkg[p.signer] # NoPkg
                        /\ p.used \in Made
                        /\ Unique(t.ids) /\ Quorum(t.ids) /\ p.signer \in Range(t.ids)
                        /\ p.z = Partial(t, p.signer, p.used, pkg[p.signer])
                        /\ p.z # 0
      BY <1>3 DEF Signed
    <3>1. CASE p \in partials
      BY <3>1 DEF Sound, Signed
    <3>2. CASE p = new
      BY <3>2, <1>1, <1>6, <2>1, <2>2, <2>3
    <3> QED BY <3>1, <3>2, <1>6
  <2> QED BY <1>2, <1>4, <2>4 DEF Sound
<1> QED BY <1>1, <1>5, <1>6

\* An aggregate signature is made of partial signatures of all who are listed.
LEMMA AggregateSound ==
  ASSUME Sound, NEW k \in DOMAIN sessions,
         NEW given \in [DOMAIN sessions[k].ids -> partials],
         NEW n \in DOMAIN sessions[k].ids, NEW err \in Scalars,
         Aggregate(k, given, n, err)
  PROVE  Sound'
<1> DEFINE s == sessions[k]
           zs == [m \in DOMAIN s.ids |-> IF m = n THEN Plus(given[m].z, err) ELSE given[m].z]
           R == GroupCommitment(s)
           new == [session |-> k, R |-> SignedBy(OddY(R), R), s |-> SumOf(zs), zs |-> zs]
<1>1. /\ \A m \in DOMAIN s.ids : given[m].session = k /\ given[m].signer = s.ids[m]
      /\ Unique(s.ids)
      /\ R # 0 /\ SumOf(zs) # 0
      /\ sigs' = sigs \cup {new}
      /\ UNCHANGED <<keys, nonce, commit, sessions, partials, made>>
  BY DEF Aggregate
<1>2. s \in Session
  BY Listed DEF Sound
<1>3. \A m \in DOMAIN s.ids : /\ given[m].z \in Scalars
                              /\ pkg[s.ids[m]] # NoPkg
                              /\ Quorum(s.ids)
  <2> SUFFICES ASSUME NEW m \in DOMAIN s.ids
               PROVE  given[m].z \in Scalars /\ pkg[s.ids[m]] # NoPkg /\ Quorum(s.ids)
    OBVIOUS
  <2> DEFINE p == given[m]
  <2>1. p \in partials /\ p.session = k /\ p.signer = s.ids[m]
    BY <1>1
  <2> HIDE DEF p
  <2>2. /\ p.signer \in Participants /\ pkg[p.signer] # NoPkg /\ p.used \in Made
        /\ Quorum(s.ids)
        /\ p.z = Partial(s, p.signer, p.used, pkg[p.signer])
    BY <2>1 DEF Sound, Signed
  <2>3. pkg[p.signer].share \in Scalars
    BY <2>2 DEF Sound, Keys
  <2>4. p.z \in Scalars
    <3>1. /\ NonceTerm(s, p.signer, p.used) \in Int
          /\ ShareTerm(s, p.signer, pkg[p.signer].share, pkg[p.signer].key) \in Int
      BY <1>2, <2>2, <2>3, TermTypes, ScalarsInt
    <3> QED BY <2>2, <3>1, Closed DEF Partial
  <2> QED BY <2>1, <2>2, <2>4 DEF p
<1>4. zs \in [DOMAIN s.ids -> Scalars]
  BY <1>3, ScalarsInt, Closed
<1>5. Rounds'
  BY <1>1 DEF Sound, Rounds
<1>6. UNCHANGED <<pkg, sessions>>
  BY <1>1 DEF keys
<1>7. Keys' /\ Signed'
  BY <1>1, <1>6, KeysKept, Kept, Listed DEF Sound
<1>8. new.session = k /\ new.R = SignedBy(OddY(R), R) /\ new.s = SumOf(zs) /\ new.zs = zs
  OBVIOUS
<1>9. Quorum(s.ids)
  BY <1>3
<1> HIDE DEF new, zs
<1>10. Finished'
  <2> SUFFICES ASSUME NEW g \in sigs'
               PROVE  LET t == sessions[g.session]
                          RR == GroupCommitment(t)
                      IN  /\ g.session \in DOMAIN sessions
                          /\ Unique(t.ids) /\ Quorum(t.ids)
                          /\ \A m \in DOMAIN t.ids : pkg[t.ids[m]] # NoPkg
                          /\ g.zs \in [DOMAIN t.ids -> Scalars]
                          /\ g.s = SumOf(g.zs) /\ g.s # 0
                          /\ g.R = SignedBy(OddY(RR), RR) /\ RR # 0
    BY <1>6 DEF Finished
  <2>1. CASE g \in sigs
    BY <2>1 DEF Sound, Finished
  <2>2. CASE g = new
    BY <2>2, <1>1, <1>3, <1>4, <1>8, <1>9
  <2> QED BY <2>1, <2>2, <1>1
<1> QED BY <1>5, <1>7, <1>10 DEF Sound

\* The invariant of types, packages and signatures is inductive.
LEMMA SoundKept == Sound /\ [Next]_vars => Sound'
<1> SUFFICES ASSUME Sound, [Next]_vars PROVE Sound'
  OBVIOUS
<1>1. CASE UNCHANGED vars
  <2>1. UNCHANGED <<keys, nonce, commit, sessions, partials, sigs, made>> /\ UNCHANGED pkg
    BY <1>1 DEF vars, keys
  <2>2. Rounds'
    BY <2>1 DEF Sound, Rounds
  <2> QED BY <2>1, <2>2, KeysKept, Kept, Listed DEF Sound
<1> QED BY <1>1, KeygenBeginSound, MisdealSound, KeygenFinalizeSound, NonceGenSound, SignSound,
           OpenSessionSound, AggregateSound DEF Next

\* In every state, whoever finished the key generation holds a sum of right
\* shares, and signatures are what the packages, lists and nonces make them.
THEOREM SoundAlways == Spec => []Sound
  BY InitSound, SoundKept, PTL DEF Spec

-----------------------------------------------------------------------------
(* What the invariant says of the properties.                               *)

\* The invariant contains the types; a partial and an aggregate signature are
\* scalars that were checked not to be zero.
LEMMA SoundTypes == Sound => TypeOK
<1> SUFFICES ASSUME Sound PROVE TypeOK
  OBVIOUS
<1>1. ASSUME NEW p \in partials PROVE p.signer \in Participants /\ p.z \in 1 .. (q - 1)
  <2> DEFINE s == sessions[p.session]
  <2>1. /\ p.session \in DOMAIN sessions
        /\ p.signer \in Participants /\ pkg[p.signer] # NoPkg /\ p.used \in Made
        /\ p.z = Partial(s, p.signer, p.used, pkg[p.signer]) /\ p.z # 0
    BY DEF Sound, Signed
  <2>2. s \in Session
    BY <2>1, Listed DEF Sound
  <2>3. pkg[p.signer].share \in Scalars
    BY <2>1 DEF Sound, Keys
  <2> HIDE DEF s
  <2>4. /\ NonceTerm(s, p.signer, p.used) \in Int
        /\ ShareTerm(s, p.signer, pkg[p.signer].share, pkg[p.signer].key) \in Int
    BY <2>1, <2>2, <2>3, TermTypes, ScalarsInt
  <2>5. p.z \in Scalars
    BY <2>1, <2>4, Closed DEF Partial
  <2> QED BY <2>1, <2>5 DEF Scalars
<1>2. ASSUME NEW g \in sigs PROVE EvenY(g.R) /\ g.s \in 1 .. (q - 1)
  <2> DEFINE s == sessions[g.session]
  <2>1. /\ g.session \in DOMAIN sessions /\ g.zs \in [DOMAIN s.ids -> Scalars]
        /\ g.s = SumOf(g.zs) /\ g.s # 0
        /\ g.R = SignedBy(OddY(GroupCommitment(s)), GroupCommitment(s))
        /\ GroupCommitment(s) # 0
    BY DEF Sound, Finished
  <2>2. s \in Session
    BY <2>1, Listed DEF Sound
  <2> HIDE DEF s
  <2>3. IsFiniteSet(DOMAIN s.ids) /\ GroupCommitment(s) \in Scalars
    BY <2>2, CommitmentType
  <2>4. g.s \in Scalars
    BY <2>1, <2>3, SumType
  <2>5. EvenY(g.R)
    BY <2>1, <2>3, EvenTwin
  <2> QED BY <2>1, <2>4, <2>5 DEF Scalars
<1> QED BY <1>1, <1>2 DEF TypeOK, Sound, Keys, Rounds

\* frost_verify_partial adds up what frost_sign did, so the two agree unless
\* the nonces differ.
LEMMA SoundVerifies == Sound => PartialsVerify
<1> SUFFICES ASSUME Sound, NEW p \in partials
             PROVE  LET s == sessions[p.session] IN
                    VerifyPartial(s, p.signer, p.z) <=>
                       \E n \in DOMAIN s.ids :
                          /\ s.ids[n] = p.signer
                          /\ NonceTerm(s, p.signer, s.commits[n]) = NonceTerm(s, p.signer, p.used)
  BY DEF PartialsVerify
<1> DEFINE s == sessions[p.session]
           i == p.signer
           share_i == ShareTerm(s, i, pkg[i].share, pkg[i].key)
<1>1. /\ p.session \in DOMAIN sessions
      /\ i \in Participants /\ pkg[i] # NoPkg /\ p.used \in Made
      /\ Unique(s.ids)
      /\ p.z = Plus(NonceTerm(s, i, p.used), share_i)
  BY DEF Sound, Signed, Partial
<1>2. s \in Session
  BY <1>1, Listed DEF Sound
<1>3. pkg[i].share \in Scalars /\ pkg[i].vshare = pkg[i].share
  BY <1>1 DEF Sound, Keys, Packaged
<1> HIDE DEF s, i
<1>4. share_i \in Scalars /\ NonceTerm(s, i, p.used) \in Scalars
  BY <1>1, <1>2, <1>3, TermTypes
<1>5. ASSUME NEW n \in DOMAIN s.ids
      PROVE  p.z = Plus(NonceTerm(s, i, s.commits[n]), share_i)
                <=> NonceTerm(s, i, s.commits[n]) = NonceTerm(s, i, p.used)
  <2>1. s.commits[n] \in Made
    BY <1>2 DEF Session
  <2>2. NonceTerm(s, i, s.commits[n]) \in Scalars
    BY <1>1, <1>2, <2>1, TermTypes
  <2> HIDE DEF share_i
  <2> QED BY <1>1, <1>4, <2>2, Cancel
<1>6. ShareTerm(s, i, pkg[i].vshare, pkg[i].key) = share_i
  BY <1>3
<1> HIDE DEF share_i
<1>7. VerifyPartial(s, i, p.z) <=>
         \E n \in DOMAIN s.ids : s.ids[n] = i /\ p.z = Plus(NonceTerm(s, i, s.commits[n]), share_i)
  BY <1>1, <1>6 DEF VerifyPartial
<1> QED BY <1>5, <1>7 DEF s, i

\* Whoever is in S shares the key with all others in S, and those of a quorum
\* hold its secret.
LEMMA SoundReconstructs == Sound => SharesReconstruct
<1> SUFFICES ASSUME Sound, NEW S \in SUBSET {l \in Participants : pkg[l] # NoPkg},
                    Cardinality(S) >= Threshold, NEW j \in S
             PROVE  SumOf([i \in S |-> Times(Lagrange(i, S), pkg[i].share)]) = pkg[j].key
  BY DEF SharesReconstruct
<1> DEFINE m == [i \in Participants |-> [l \in Participants |-> Value(poly[l], i)]]
           sums == [i \in Participants |-> Sum(m[i], Participants)]
<1>1. \A i \in S : i \in Participants /\ Packaged(i)
  BY DEF Sound, Keys
<1>2. \A l \in Participants : poly[l] \in [Degrees -> Scalars]
  <2>1. \A l \in Participants : poly[l] \in Polys
    BY <1>1 DEF Sound, Keys, Packaged
  <2> QED BY <2>1, PolyType
<1>3. \A i \in Participants : m[i] \in [Participants -> Scalars]
  BY <1>2, ValueType
<1>4. S \in SUBSET Participants /\ IsFiniteSet(Participants)
  BY Finite
<1>5. ASSUME NEW i \in S PROVE pkg[i].share = sums[i]
  <2>1. pkg[i].share = SumOf([l \in Participants |-> Value(poly[l], i)]) /\ i \in Participants
    BY <1>1, <1>5 DEF Packaged, Due
  <2>2. [l \in Participants |-> Value(poly[l], i)] = [l \in Participants |-> m[i][l]]
    BY <2>1
  <2> HIDE DEF m
  <2> QED BY <2>1, <2>2 DEF Sum
<1>6. Interpolated(sums, S)
         = Sum([l \in Participants
                   |-> Interpolated([i \in Participants |-> m[i][l]], S)], Participants)
  <2> HIDE DEF m
  <2> QED BY <1>3, <1>4, InterpolateSum
<1>7. ASSUME NEW l \in Participants
      PROVE  Interpolated([i \in Participants |-> m[i][l]], S) = poly[l][0]
  <2>1. Interpolated([i \in Participants |-> Value(poly[l], i)], S) = poly[l][0]
    BY <1>2, <1>4, PolyInterpolates
  <2>2. [i \in Participants |-> Value(poly[l], i)] = [i \in Participants |-> m[i][l]]
    OBVIOUS
  <2> QED BY <2>1, <2>2
<1>8. SumOf([i \in S |-> Times(Lagrange(i, S), pkg[i].share)]) = Interpolated(sums, S)
  <2>1. [i \in S |-> Times(Lagrange(i, S), pkg[i].share)] = [i \in S |-> Weighted(sums, S)[i]]
    BY <1>4, <1>5 DEF Weighted
  <2> QED BY <2>1 DEF Interpolated, Sum
<1> HIDE DEF m, sums
<1>9. Interpolated(sums, S) = pkg[j].key
  <2> DEFINE c == [l \in Participants |-> Interpolated([i \in Participants |-> m[i][l]], S)]
  <2>1. [l \in Participants |-> c[l]] = [l \in Participants |-> poly[l][0]]
    BY <1>7
  <2>2. pkg[j].key = SumOf([l \in Participants |-> poly[l][0]])
    BY <1>1 DEF Packaged
  <2>3. Interpolated(sums, S) = Sum(c, Participants)
    BY <1>6
  <2> HIDE DEF c
  <2> QED BY <2>1, <2>2, <2>3 DEF Sum
<1> QED BY <1>8, <1>9

\* What the nonces of a list put into a signature is the commitment to them,
\* turned to its even twin.
LEMMA NonceTermsSum ==
  ASSUME NEW s \in Session
  PROVE  LET R == GroupCommitment(s)
         IN  Sum([n \in DOMAIN s.ids |-> NonceTerm(s, s.ids[n], s.commits[n])], DOMAIN s.ids)
                = SignedBy(OddY(R), R)
<1> DEFINE R == GroupCommitment(s)
           D == DOMAIN s.ids
           t == [n \in D |-> Plus(s.commits[n].h, Times(s.rho[s.ids[n]], s.commits[n].b))]
<1>1. IsFiniteSet(D)
  BY CommitmentType
<1>2. t \in [D -> Scalars]
  <2> SUFFICES ASSUME NEW n \in D
               PROVE  Plus(s.commits[n].h, Times(s.rho[s.ids[n]], s.commits[n].b)) \in Scalars
    OBVIOUS
  <2>1. s.commits[n] \in Made /\ s.ids[n] \in Participants /\ s.rho \in [Participants -> Scalars]
    BY DEF Session
  <2>2. s.commits[n].h \in Scalars /\ s.commits[n].b \in Scalars /\ s.rho[s.ids[n]] \in Scalars
    BY <2>1 DEF Made
  <2> QED BY <2>2, TimesComm, PlusComm
<1>3. R = Sum(t, D)
  BY DEF GroupCommitment, Sum
<1>4. PICK b \in BOOLEAN : b = OddY(R)
  BY DEF OddY
<1>5. [n \in D |-> NonceTerm(s, s.ids[n], s.commits[n])] = [n \in D |-> SignedBy(b, t[n])]
  BY <1>4 DEF NonceTerm
<1> HIDE DEF t, D, R
<1>6. Sum([n \in D |-> SignedBy(b, t[n])], D) = SignedBy(b, Sum(t, D))
  BY <1>1, <1>2, SumSigned
<1> QED BY <1>3, <1>4, <1>5, <1>6 DEF D, R

\* What the shares of a list's signers put into a signature is the challenge
\* times the secret of the key, turned with the key.
LEMMA ShareTermsSum ==
  ASSUME Sound, NEW s \in Session, Unique(s.ids), Quorum(s.ids),
         \A n \in DOMAIN s.ids : pkg[s.ids[n]] # NoPkg, NEW key, key = pkg[s.ids[1]].key
  PROVE  Sum([n \in DOMAIN s.ids |->
                ShareTerm(s, s.ids[n], pkg[s.ids[n]].vshare, pkg[s.ids[n]].key)], DOMAIN s.ids)
            = Times(s.e, SignedBy(OddY(key), key))
<1> DEFINE D == DOMAIN s.ids
           S == Range(s.ids)
           y == [i \in S |-> Times(Lagrange(i, S), pkg[i].share)]
           x == [n \in D |-> y[s.ids[n]]]
<1>1. /\ s.ids \in Seq(Participants) /\ s.e \in Scalars
      /\ D = 1 .. Len(s.ids) /\ Len(s.ids) \in Threshold .. N
      /\ IsFiniteSet(D) /\ 1 \in D
  <2>1. s.ids \in Seq(Participants) /\ s.e \in Scalars
    BY DEF Session
  <2> QED BY <2>1, CommitmentType, QuorumAssumption DEF Quorum
<1>2. S \in SUBSET Participants /\ Enumerates(s.ids, D, S)
  BY <1>1 DEF Enumerates, Range, Unique
<1>3. IsFiniteSet(S) /\ Cardinality(S) >= Threshold
  <2>1. Cardinality(D) = Len(s.ids)
    BY <1>1, FS_Interval, QuorumAssumption
  <2> QED BY <1>1, <1>2, <2>1, EnumeratesAll, QuorumAssumption
<1>4. \A i \in S : pkg[i] # NoPkg
  BY DEF Range
<1>5. /\ \A i \in S : pkg[i].share \in Scalars /\ pkg[i].vshare = pkg[i].share
      /\ \A i \in S : pkg[i].key = key
  <2>1. \A i \in S : Packaged(i) /\ pkg[i].share \in Scalars
    BY <1>2, <1>4 DEF Sound, Keys
  <2>2. s.ids[1] \in S
    BY <1>1 DEF Range
  <2> QED BY <2>1, <2>2 DEF Packaged
<1>6. SumOf(y) = key
  <2>1. s.ids[1] \in S
    BY <1>1 DEF Range
  <2>2. S \in SUBSET {l \in Participants : pkg[l] # NoPkg}
    BY <1>2, <1>4
  <2> HIDE DEF S
  <2>3. SumOf(y) = pkg[s.ids[1]].key
    BY <1>3, <2>1, <2>2, SoundReconstructs DEF SharesReconstruct
  <2> QED BY <2>3
<1>7. y \in [S -> Scalars]
  BY <1>2, <1>5, Fractions, TimesComm
<1>8. x \in [D -> Scalars] /\ Sum(x, D) = key
  <2>1. x \in [D -> Scalars]
    BY <1>2, <1>7 DEF Enumerates
  <2>2. Sum(y, S) = key
    <3>1. y = [i \in S |-> y[i]]
      OBVIOUS
    <3> QED BY <1>6, <3>1 DEF Sum
  <2> HIDE DEF y, S, D
  <2>3. Sum(x, D) = Sum(y, S)
    BY <1>1, <1>2, <1>3, <1>7, SumReindexed
  <2> QED BY <2>1, <2>2, <2>3
<1>9. PICK b \in BOOLEAN : b = OddY(key)
  BY DEF OddY
<1> DEFINE u == [n \in D |-> SignedBy(b, x[n])]
           v == [n \in D |-> ShareTerm(s, s.ids[n], pkg[s.ids[n]].vshare, pkg[s.ids[n]].key)]
<1>10. \A n \in D : SignedBy(b, x[n]) \in Scalars
  BY <1>8, SignedType
<1>11. \A n \in D : v[n] = Times(s.e, u[n])
  <2> SUFFICES ASSUME NEW n \in D PROVE v[n] = Times(s.e, u[n])
    OBVIOUS
  <2> DEFINE i == s.ids[n]
             w == Lagrange(i, S)
             z == pkg[i].share
  <2>1. i \in S
    BY DEF Range
  <2>2. w \in Scalars /\ z \in Scalars
    BY <1>2, <1>5, <2>1, Fractions
  <2>3. x[n] = Times(w, z)
    BY <2>1
  <2>4. v[n] = Times(Times(w, SignedBy(b, z)), s.e)
    BY <1>5, <1>9, <2>1 DEF ShareTerm
  <2>5. u[n] = SignedBy(b, x[n])
    OBVIOUS
  <2> HIDE DEF w, z, i, u, v, x
  <2>6. SignedBy(b, Times(w, z)) = Times(w, SignedBy(b, z))
    BY <2>2, NegTimes DEF SignedBy
  <2>7. SignedBy(b, Times(w, z)) \in Scalars
    BY <2>2, TimesComm, SignedType
  <2> QED BY <1>1, <2>3, <2>4, <2>5, <2>6, <2>7, TimesComm
<1>12. IsMultiple(v, D, s.e, u)
  <2>1. u \in [D -> Scalars] /\ DOMAIN v = D /\ v = [n \in D |-> v[n]]
    BY <1>10
  <2> HIDE DEF u, v
  <2>2. ASSUME NEW n \in D PROVE v[n] \in Scalars
    <3>1. u[n] \in Scalars /\ s.e \in Scalars
      BY <1>1, <2>1
    <3>2. Times(s.e, u[n]) \in Scalars
      BY <3>1, TimesComm
    <3> QED BY <1>11, <3>2
  <2>3. v \in [D -> Scalars]
    BY <2>1, <2>2
  <2> QED BY <1>1, <1>11, <2>1, <2>3 DEF IsMultiple
<1>13. Sum(u, D) = SignedBy(b, Sum(x, D))
  <2> HIDE DEF x, D
  <2> QED BY <1>1, <1>8, SumSigned
<1> HIDE DEF u, v, x, D
<1>14. Sum(v, D) = Times(s.e, Sum(u, D))
  BY <1>1, <1>12, SumTimes
<1> QED BY <1>8, <1>9, <1>13, <1>14 DEF v, D

\* A signature whose parts verify is one.
LEMMA SoundAggregates == Sound => AggregateVerifies
<1> SUFFICES ASSUME Sound, NEW g \in sigs,
                    \A n \in DOMAIN sessions[g.session].ids :
                        VerifyPartial(sessions[g.session], sessions[g.session].ids[n], g.zs[n])
             PROVE  LET s == sessions[g.session]
                        key == pkg[s.ids[1]].key
                    IN  g.s = Plus(g.R, Times(s.e, SignedBy(OddY(key), key)))
  BY DEF AggregateVerifies
<1> DEFINE s == sessions[g.session]
           D == DOMAIN s.ids
           key == pkg[s.ids[1]].key
           R == GroupCommitment(s)
           a == [n \in D |-> NonceTerm(s, s.ids[n], s.commits[n])]
           b == [n \in D |-> ShareTerm(s, s.ids[n], pkg[s.ids[n]].vshare, pkg[s.ids[n]].key)]
<1>1. /\ g.session \in DOMAIN sessions
      /\ Unique(s.ids) /\ Quorum(s.ids)
      /\ \A n \in D : pkg[s.ids[n]] # NoPkg
      /\ g.zs \in [D -> Scalars]
      /\ g.s = SumOf(g.zs)
      /\ g.R = SignedBy(OddY(R), R)
  BY DEF Sound, Finished
<1>2. s \in Session
  BY <1>1, Listed DEF Sound
<1>3. \A n \in D : VerifyPartial(s, s.ids[n], g.zs[n])
  OBVIOUS
<1> HIDE DEF s
<1>4. \A n \in D : g.zs[n] = Plus(a[n], b[n])
  BY <1>1, <1>3 DEF VerifyPartial, Unique
<1>5. a \in [D -> Scalars] /\ b \in [D -> Scalars]
  <2> SUFFICES ASSUME NEW n \in D
               PROVE  /\ NonceTerm(s, s.ids[n], s.commits[n]) \in Scalars
                      /\ ShareTerm(s, s.ids[n], pkg[s.ids[n]].vshare, pkg[s.ids[n]].key) \in Scalars
    OBVIOUS
  <2>1. s.ids[n] \in Participants /\ s.commits[n] \in Made
    BY <1>2 DEF Session
  <2>2. pkg[s.ids[n]].vshare \in Scalars
    BY <1>1, <2>1 DEF Sound, Keys
  <2> QED BY <1>2, <2>1, <2>2, TermTypes
<1>6. IsSum(g.zs, D, a, b)
  <2> HIDE DEF a, b
  <2> QED BY <1>1, <1>4, <1>5 DEF IsSum
<1>7. Sum(a, D) = SignedBy(OddY(R), R)
  BY <1>2, NonceTermsSum
<1>8. Sum(b, D) = Times(s.e, SignedBy(OddY(key), key))
  BY <1>1, <1>2, ShareTermsSum
<1>9. IsFiniteSet(D) /\ D \in SUBSET D
  BY <1>2, CommitmentType
<1> HIDE DEF D, a, b
<1>10. Sum(g.zs, D) = Plus(Sum(a, D), Sum(b, D))
  BY <1>6, <1>9, SumPlus
<1>11. SumOf(g.zs) = Sum(g.zs, D)
  <2>1. g.zs = [n \in D |-> g.zs[n]]
    BY <1>1
  <2> QED BY <2>1 DEF Sum
<1> QED BY <1>1, <1>7, <1>8, <1>10, <1>11 DEF s
-----------------------------------------------------------------------------
(* The theorems.                                                            *)

\* The types; frost_keygen_finalize gives nobody a package for the key at
\* infinity, frost_sign returns no partial signature that is zero, and an
\* aggregate signature has a nonce of even Y.
THEOREM TypesHold == Spec => []TypeOK
  BY SoundAlways, SoundTypes, PTL

\* Any quorum of those for whom frost_keygen_finalize succeeded holds the
\* secret of the key that each of them has, whatever was dealt to whom.
THEOREM SecretShared == Spec => []SharesReconstruct
  BY SoundAlways, SoundReconstructs, PTL

\* frost_verify_partial accepts what frost_sign returned just if it was made
\* with the nonce in the list.
THEOREM PartialsJudged == Spec => []PartialsVerify
  BY SoundAlways, SoundVerifies, PTL

\* What frost_aggregate makes of partial signatures that verify is a BIP-340
\* signature under the group key, in any overlap of sessions.
THEOREM SignatureVerifies == Spec => []AggregateVerifies
  BY SoundAlways, SoundAggregates, PTL
-----------------------------------------------------------------------------
(* Nonces.                                                                  *)

\* The nonces in use, by their numbers: what a signer still holds has a number
\* that was given and that none of its partial signatures shows.
Held ==
    /\ DOMAIN nonce = Participants
    /\ \A i \in Participants : nonce[i] # Erased =>
          /\ nonce[i].number \in 1 .. made
          /\ \A p \in partials : p.signer = i => p.used.number # nonce[i].number

Spent == \A p \in partials : p.used.number \in 1 .. made

IInv == made \in Nat /\ Held /\ Spent /\ NonceUsedOnce

\* Before anything is made, nothing is used.
LEMMA InitEstablishes == Init => IInv
  BY DEF Init, IInv, Held, Spent, NonceUsedOnce, Erased

\* A new nonce has a number that no partial signature has shown.
LEMMA NonceGenKeeps ==
    ASSUME IInv, NEW i \in Participants, NEW k \in Nonces, NonceGen(i, k)
    PROVE  IInv'
  <1> DEFINE new == [h |-> k.h, b |-> k.b, number |-> made + 1]
  <1>1. made' = made + 1 /\ made \in Nat /\ partials' = partials
    BY DEF IInv, NonceGen
  <1>2. /\ DOMAIN nonce' = Participants
        /\ nonce'[i] = new
        /\ \A j \in Participants \ {i} : nonce'[j] = nonce[j]
    BY DEF IInv, Held, NonceGen
  <1>3. new.number = made + 1
    OBVIOUS
  <1> HIDE DEF new
  <1>4. Held'
    <2> SUFFICES ASSUME NEW j \in Participants, nonce'[j] # Erased
                 PROVE  /\ nonce'[j].number \in 1 .. made'
                        /\ \A p \in partials : p.signer = j => p.used.number # nonce'[j].number
      BY <1>1, <1>2 DEF Held
    <2>1. CASE j = i
      BY <2>1, <1>1, <1>2, <1>3 DEF IInv, Spent
    <2>2. CASE j # i
      BY <2>2, <1>1, <1>2 DEF IInv, Held
    <2> QED  BY <2>1, <2>2
  <1>5. Spent'
    BY <1>1 DEF IInv, Spent
  <1>6. NonceUsedOnce'
    BY <1>1 DEF IInv, NonceUsedOnce
  <1> QED  BY <1>1, <1>4, <1>5, <1>6 DEF IInv

\* The nonce that a partial signature shows is erased in the same step.
LEMMA SignKeeps ==
    ASSUME IInv, NEW i \in Participants, NEW k \in DOMAIN sessions, Sign(i, k)
    PROVE  IInv'
  <1>1. made' = made /\ made \in Nat
    BY DEF IInv, Sign
  <1>2. /\ DOMAIN nonce' = Participants
        /\ nonce'[i] = Erased
        /\ \A j \in Participants \ {i} : nonce'[j] = nonce[j]
    BY DEF IInv, Held, Sign
  <1>3. CASE UNCHANGED partials
    <2>1. Held'
      BY <1>1, <1>2, <1>3 DEF IInv, Held
    <2> QED  BY <1>1, <1>3, <2>1 DEF IInv, Spent, NonceUsedOnce
  <1>4. ASSUME NEW z,
               nonce[i] # Erased,
               partials' = partials \cup
                   {[session |-> k, signer |-> i, z |-> z, used |-> nonce[i]]}
        PROVE  IInv'
    <2> DEFINE new == [session |-> k, signer |-> i, z |-> z, used |-> nonce[i]]
    <2>1. /\ new.signer = i /\ new.used = nonce[i]
          /\ partials' = partials \cup {new}
      BY <1>4
    <2> HIDE DEF new
    <2>2. /\ nonce[i].number \in 1 .. made
          /\ \A p \in partials : p.signer = i => p.used.number # nonce[i].number
      BY <1>4 DEF IInv, Held
    <2>3. Held'
      BY <1>1, <1>2, <2>1 DEF IInv, Held
    <2>4. Spent'
      BY <1>1, <2>1, <2>2 DEF IInv, Spent
    <2>5. NonceUsedOnce'
      BY <2>1, <2>2 DEF IInv, NonceUsedOnce
    <2> QED  BY <1>1, <2>3, <2>4, <2>5 DEF IInv
  <1> QED  BY <1>3, <1>4 DEF Sign, MaySign

\* The other actions leave the nonces and the partial signatures alone.
LEMMA OthersKeep == IInv /\ UNCHANGED <<made, nonce, partials>> => IInv'
  BY DEF IInv, Held, Spent, NonceUsedOnce

\* Every step keeps the invariant.
LEMMA NextKeeps == IInv /\ [Next]_vars => IInv'
  <1> SUFFICES ASSUME IInv, [Next]_vars
               PROVE  IInv'
    OBVIOUS
  <1>1. CASE UNCHANGED vars
    BY <1>1, OthersKeep DEF vars
  <1>2. ASSUME NEW i \in Participants, NEW f \in Polys, KeygenBegin(i, f)
        PROVE  IInv'
    BY <1>2, OthersKeep DEF KeygenBegin
  <1>3. ASSUME NEW i \in Participants, NEW j \in Participants, NEW err \in 1 .. (q - 1),
               Misdeal(i, j, err)
        PROVE  IInv'
    BY <1>3, OthersKeep DEF Misdeal
  <1>4. ASSUME NEW i \in Participants, KeygenFinalize(i)
        PROVE  IInv'
    BY <1>4, OthersKeep DEF KeygenFinalize
  <1>5. ASSUME NEW ids \in Lists, NEW rho \in Bindings, NEW e \in Challenges,
               OpenSession(ids, rho, e)
        PROVE  IInv'
    BY <1>5, OthersKeep DEF OpenSession
  <1>6. ASSUME NEW k \in DOMAIN sessions, NEW given \in [DOMAIN sessions[k].ids -> partials],
               NEW n \in DOMAIN sessions[k].ids, NEW err \in Scalars,
               Aggregate(k, given, n, err)
        PROVE  IInv'
    BY <1>6, OthersKeep DEF Aggregate
  <1> QED
    BY <1>1, <1>2, <1>3, <1>4, <1>5, <1>6, NonceGenKeeps, SignKeeps DEF Next

\* "Nonce reuse" is impossible through these calls: whatever sessions a signer
\* is asked into, and however its earlier calls ended, a nonce makes one
\* partial signature at most.
THEOREM NoNonceReuse == Spec => []NonceUsedOnce
  <1>1. IInv => NonceUsedOnce
    BY DEF IInv
  <1> QED  BY <1>1, InitEstablishes, NextKeeps, PTL DEF Spec
================================================================================
