----------------------------- MODULE Musig2Proofs -----------------------------
(***************************************************************************)
(* Proofs about Musig2, for every number of signers, every odd group order *)
(* and every series of tweaks.                                             *)
(*                                                                         *)
(* First the ring of scalars, from the integers.  Then sums over a finite  *)
(* set: SumOf is a fold, whose recursion is unfolded once (SumAsSums) and  *)
(* shown to have a solution (SumsExist); type and linearity of sums follow *)
(* by induction on the subsets.  Then the inductive invariant IInv: what a *)
(* session and a partial signature were made of, next to the properties    *)
(* that the runs check.                                                    *)
(***************************************************************************)
EXTENDS Musig2, TLAPS, FiniteSetTheorems, WellFoundedInduction

USE OrderAssumption

\* Division by q: the remainder is a scalar.
LEMMA ModRange ==
  ASSUME NEW x \in Int
  PROVE  x % q \in Scalars /\ x \div q \in Int /\ x = q * (x \div q) + (x % q)
  BY DEF Scalars

\* Quotient and remainder are unique.
LEMMA ModUnique ==
  ASSUME NEW x \in Int, NEW k \in Int, NEW r \in Scalars, x = q * k + r
  PROVE  x % q = r
<1> DEFINE n == x \div q
           m == x % q
<1>1. n \in Int /\ m \in Int /\ 0 <= m /\ m < q /\ x = q * n + m
  BY ModRange DEF Scalars
<1>2. r \in Int /\ 0 <= r /\ r < q
  BY DEF Scalars
<1> HIDE DEF n, m
<1>3. q * (n - k) = r - m
  BY <1>1, <1>2
<1>4. CASE n - k >= 1
  <2>1. q * (n - k) >= q
    BY <1>1, <1>4
  <2> QED BY <1>1, <1>2, <1>3, <2>1
<1>5. CASE n - k <= -1
  <2>1. q * (n - k) <= -q
    BY <1>1, <1>5
  <2> QED BY <1>1, <1>2, <1>3, <2>1
<1>6. CASE n = k
  BY <1>1, <1>6, <1>3, <1>2 DEF m
<1> QED BY <1>1, <1>4, <1>5, <1>6

\* Every integer has a quotient and a remainder.
LEMMA Division ==
  ASSUME NEW x \in Int
  PROVE  \E k \in Int, r \in Scalars : x = q * k + r /\ x % q = r
  BY ModRange

\* A summand can be reduced first.
LEMMA ModPlus ==
  ASSUME NEW x \in Int, NEW y \in Int
  PROVE  ((x % q) + y) % q = (x + y) % q
<1>1. PICK k \in Int, m \in Scalars : x = q * k + m /\ x % q = m
  BY Division
<1>2. m \in Int /\ m + y \in Int
  BY DEF Scalars
<1>3. PICK l \in Int, r \in Scalars : m + y = q * l + r /\ (m + y) % q = r
  BY <1>2, Division
<1>4. r \in Int
  BY DEF Scalars
<1>5. x + y = q * (k + l) + r
  <2>1. q * (k + l) = q * k + q * l
    OBVIOUS
  <2>2. q * k \in Int /\ q * l \in Int
    OBVIOUS
  <2> QED BY <1>1, <1>2, <1>3, <1>4, <2>1, <2>2
<1>6. (x + y) % q = r
  <2>1. x + y \in Int /\ k + l \in Int
    OBVIOUS
  <2> QED BY <1>5, <2>1, ModUnique, Zenon
<1> QED BY <1>1, <1>3, <1>6

\* A factor can be reduced first.
LEMMA ModTimes ==
  ASSUME NEW x \in Int, NEW y \in Int
  PROVE  ((x % q) * y) % q = (x * y) % q
<1>1. PICK k \in Int, m \in Scalars : x = q * k + m /\ x % q = m
  BY Division
<1>2. m \in Int /\ m * y \in Int
  BY DEF Scalars
<1>3. PICK l \in Int, r \in Scalars : m * y = q * l + r /\ (m * y) % q = r
  BY <1>2, Division
<1>4. r \in Int
  BY DEF Scalars
<1>5. x * y = q * (k * y + l) + r
  <2>1. x * y = (q * k) * y + m * y
    <3>1. q * k \in Int
      OBVIOUS
    <3>2. ASSUME NEW u \in Int, NEW v \in Int
          PROVE  (u + v) * y = u * y + v * y
      OBVIOUS
    <3> QED BY <1>1, <1>2, <3>1, <3>2
  <2>2. (q * k) * y = q * (k * y)
    OBVIOUS
  <2>3. q * (k * y + l) = q * (k * y) + q * l
    OBVIOUS
  <2>4. q * (k * y) \in Int /\ q * l \in Int
    OBVIOUS
  <2> QED BY <1>3, <1>4, <2>1, <2>2, <2>3, <2>4
<1>6. (x * y) % q = r
  <2>1. x * y \in Int /\ k * y + l \in Int
    OBVIOUS
  <2> QED BY <1>5, <2>1, ModUnique, Zenon
<1> QED BY <1>1, <1>3, <1>6

\* The operators give scalars.
LEMMA PlusType ==
  ASSUME NEW x \in Int, NEW y \in Int
  PROVE  Plus(x, y) \in Scalars /\ Times(x, y) \in Scalars /\ Neg(x) \in Scalars
<1>1. x + y \in Int /\ x * y \in Int /\ q - x \in Int
  BY OrderAssumption
<1>2. (x + y) % q \in Scalars /\ (x * y) % q \in Scalars /\ (q - x) % q \in Scalars
  BY <1>1, ModRange
<1> QED BY <1>2 DEF Plus, Times, Neg

\* Scalars are integers.
LEMMA ScalarsInt == Scalars \subseteq Int
  BY DEF Scalars

\* A scalar is its own remainder.
LEMMA ModSmall ==
  ASSUME NEW x \in Scalars
  PROVE  x % q = x
<1>1. x \in Int /\ x = q * 0 + x
  BY DEF Scalars
<1> QED BY <1>1, ModUnique

\* Plus, Times and Neg of remainders are the remainders of sum, product, negative.
LEMMA PlusMod ==
  ASSUME NEW x \in Int, NEW y \in Int
  PROVE  /\ Plus(x % q, y % q) = (x + y) % q
         /\ Times(x % q, y % q) = (x * y) % q
         /\ Neg(x % q) = (-x) % q
<1>1. x % q \in Int /\ y % q \in Int
  BY ModRange, ScalarsInt
<1>2. Plus(x % q, y % q) = (x + (y % q)) % q
  BY <1>1, ModPlus DEF Plus
<1>3. ((y % q) + x) % q = (y + x) % q
  BY ModPlus
<1>4. Times(x % q, y % q) = (x * (y % q)) % q
  BY <1>1, ModTimes DEF Times
<1>5. ((y % q) * x) % q = (y * x) % q
  BY ModTimes
<1>6. Neg(x % q) = (-x) % q
  <2>1. PICK k \in Int, m \in Scalars : x = q * k + m /\ x % q = m
    BY Division
  <2>2. m \in Int /\ q - m \in Int
    BY DEF Scalars
  <2>3. PICK l \in Int, r \in Scalars : q - m = q * l + r /\ (q - m) % q = r
    BY <2>2, Division
  <2>4. r \in Int
    BY DEF Scalars
  <2>5. -x = q * (l - k - 1) + r
    <3>1. q * (l - k - 1) = q * l - q * k - q
      OBVIOUS
    <3>2. q * l \in Int /\ q * k \in Int
      OBVIOUS
    <3> QED BY <2>1, <2>2, <2>3, <2>4, <3>1, <3>2
  <2>6. (-x) % q = r
    BY <2>5, ModUnique
  <2> QED BY <2>1, <2>3, <2>6 DEF Neg
<1> QED BY <1>2, <1>3, <1>4, <1>5, <1>6, ScalarsInt

\* The ring of scalars, law by law: the sum commutes,
LEMMA PlusComm ==
  ASSUME NEW x \in Scalars, NEW y \in Scalars
  PROVE  Plus(x, y) = Plus(y, x) /\ Plus(x, y) \in Scalars
<1>1. x \in Int /\ y \in Int
  BY ScalarsInt
<1> QED BY <1>1, PlusType DEF Plus

\* associates,
LEMMA PlusAssoc ==
  ASSUME NEW x \in Scalars, NEW y \in Scalars, NEW z \in Scalars
  PROVE  Plus(Plus(x, y), z) = Plus(x, Plus(y, z))
<1>1. x \in Int /\ y \in Int /\ z \in Int /\ x + y \in Int /\ y + z \in Int
  BY ScalarsInt
<1>2. (y + z) % q \in Int
  BY <1>1, ModRange, ScalarsInt
<1>3. (((x + y) % q) + z) % q = ((x + y) + z) % q
  BY <1>1, ModPlus, Zenon
<1>4. (((y + z) % q) + x) % q = ((y + z) + x) % q
  BY <1>1, ModPlus, Zenon
<1>5. x + ((y + z) % q) = ((y + z) % q) + x /\ (y + z) + x = (x + y) + z
  BY <1>1, <1>2
<1>6. Plus(x, Plus(y, z)) = (((y + z) % q) + x) % q
  BY <1>5, Zenon DEF Plus
<1>7. Plus(Plus(x, y), z) = (((x + y) % q) + z) % q
  BY Zenon DEF Plus
<1> QED BY <1>3, <1>4, <1>5, <1>6, <1>7

\* and has 0 as its neutral element;
LEMMA PlusZero ==
  ASSUME NEW x \in Scalars
  PROVE  Plus(x, 0) = x /\ Plus(0, x) = x /\ 0 \in Scalars
<1>1. x \in Int /\ x + 0 = x /\ 0 + x = x
  BY ScalarsInt
<1> QED BY <1>1, ModSmall DEF Plus, Scalars

\* the product commutes,
LEMMA TimesComm ==
  ASSUME NEW x \in Scalars, NEW y \in Scalars
  PROVE  Times(x, y) = Times(y, x) /\ Times(x, y) \in Scalars
<1>1. x \in Int /\ y \in Int
  BY ScalarsInt
<1>2. x * y = y * x
  BY <1>1
<1> QED BY <1>1, <1>2, PlusType DEF Times

\* associates,
LEMMA TimesAssoc ==
  ASSUME NEW x \in Scalars, NEW y \in Scalars, NEW z \in Scalars
  PROVE  Times(Times(x, y), z) = Times(x, Times(y, z))
<1>1. x \in Int /\ y \in Int /\ z \in Int /\ x * y \in Int /\ y * z \in Int
  BY ScalarsInt
<1>2. (y * z) % q \in Int
  BY <1>1, ModRange, ScalarsInt
<1>3. (((x * y) % q) * z) % q = ((x * y) * z) % q
  BY <1>1, ModTimes, Zenon
<1>4. (((y * z) % q) * x) % q = ((y * z) * x) % q
  BY <1>1, ModTimes, Zenon
<1>5. x * ((y * z) % q) = ((y * z) % q) * x /\ (y * z) * x = (x * y) * z
  BY <1>1, <1>2
<1>6. Times(x, Times(y, z)) = (((y * z) % q) * x) % q
  BY <1>5, Zenon DEF Times
<1>7. Times(Times(x, y), z) = (((x * y) % q) * z) % q
  BY Zenon DEF Times
<1> QED BY <1>3, <1>4, <1>5, <1>6, <1>7

\* and has 1 as its neutral element;
LEMMA TimesOne ==
  ASSUME NEW x \in Scalars
  PROVE  Times(x, 1) = x /\ Times(1, x) = x /\ Times(x, 0) = 0 /\ 1 \in Scalars
<1>1. x \in Int /\ x * 1 = x /\ 1 * x = x /\ x * 0 = 0
  BY ScalarsInt
<1>2. 0 % q = 0
  BY ModSmall DEF Scalars
<1> QED BY <1>1, <1>2, ModSmall DEF Times, Scalars

\* it distributes over the sum;
LEMMA Distribute ==
  ASSUME NEW x \in Scalars, NEW y \in Scalars, NEW z \in Scalars
  PROVE  Times(x, Plus(y, z)) = Plus(Times(x, y), Times(x, z))
<1>1. x \in Int /\ y \in Int /\ z \in Int /\ y + z \in Int /\ x * y \in Int /\ x * z \in Int
  BY ScalarsInt
<1>2. (y + z) % q \in Int
  BY <1>1, ModRange, ScalarsInt
<1>3. (((y + z) % q) * x) % q = ((y + z) * x) % q
  BY <1>1, ModTimes, Zenon
<1>4. x * ((y + z) % q) = ((y + z) % q) * x
  BY <1>2, <1>1
<1>5. (y + z) * x = x * y + x * z
  BY <1>1
<1>6. Plus((x * y) % q, (x * z) % q) = (x * y + x * z) % q
  BY <1>1, PlusMod, Zenon
<1>7. Times(x, Plus(y, z)) = (((y + z) % q) * x) % q
  BY <1>4, Zenon DEF Times, Plus
<1>8. Plus(Times(x, y), Times(x, z)) = Plus((x * y) % q, (x * z) % q)
  BY Zenon DEF Times
<1> QED BY <1>3, <1>5, <1>6, <1>7, <1>8

\* Neg is the remainder of the negative,
LEMMA NegMod ==
  ASSUME NEW x \in Scalars
  PROVE  Neg(x) = (-x) % q /\ Neg(x) \in Scalars
<1>1. x \in Int /\ x % q = x
  BY ScalarsInt, ModSmall
<1>2. Neg(x % q) = (-x) % q
  BY <1>1, PlusMod, Zenon
<1> QED BY <1>1, <1>2, PlusType

\* which cancels.
LEMMA PlusNeg ==
  ASSUME NEW x \in Scalars
  PROVE  Plus(x, Neg(x)) = 0
<1>1. x \in Int /\ x % q = x /\ -x \in Int /\ x + (-x) = 0
  BY ScalarsInt, ModSmall
<1>2. Plus(x % q, (-x) % q) = (x + (-x)) % q
  BY <1>1, PlusMod, Zenon
<1>3. 0 % q = 0
  BY ModSmall DEF Scalars
<1> QED BY <1>1, <1>2, <1>3, NegMod

\* What cancels a scalar is its negative.
LEMMA NegUnique ==
  ASSUME NEW x \in Scalars, NEW y \in Scalars, Plus(x, y) = 0
  PROVE  y = Neg(x)
<1>1. Neg(x) \in Scalars
  BY NegMod
<1>2. Plus(Neg(x), Plus(x, y)) = Plus(Plus(Neg(x), x), y)
  BY <1>1, PlusAssoc
<1>3. Plus(Neg(x), x) = 0
  BY <1>1, PlusNeg, PlusComm
<1> QED BY <1>1, <1>2, <1>3, PlusZero

\* A negative's negative,
LEMMA NegNeg ==
  ASSUME NEW x \in Scalars
  PROVE  Neg(Neg(x)) = x
<1>1. Neg(x) \in Scalars
  BY NegMod
<1>2. Plus(Neg(x), x) = 0
  BY <1>1, PlusNeg, PlusComm
<1> QED BY <1>1, <1>2, NegUnique

\* a sum's,
LEMMA NegPlus ==
  ASSUME NEW x \in Scalars, NEW y \in Scalars
  PROVE  Neg(Plus(x, y)) = Plus(Neg(x), Neg(y))
<1>1. x \in Int /\ y \in Int /\ x % q = x /\ y % q = y /\ x + y \in Int
  BY ScalarsInt, ModSmall
<1>2. Neg((x + y) % q) = (-(x + y)) % q
  BY <1>1, PlusMod, Zenon
<1>3. -x \in Int /\ -y \in Int /\ -(x + y) = (-x) + (-y)
  BY <1>1
<1>4. Plus((-x) % q, (-y) % q) = ((-x) + (-y)) % q
  BY <1>3, PlusMod, Zenon
<1>5. Neg(x) = (-x) % q /\ Neg(y) = (-y) % q
  BY NegMod
<1>6. Plus(x, y) = (x + y) % q
  BY DEF Plus
<1> QED BY <1>2, <1>3, <1>4, <1>5, <1>6

\* and a product's.
LEMMA NegTimes ==
  ASSUME NEW x \in Scalars, NEW y \in Scalars
  PROVE  Times(x, Neg(y)) = Neg(Times(x, y)) /\ Times(Neg(x), y) = Neg(Times(x, y))
<1>1. ASSUME NEW a \in Scalars, NEW b \in Scalars
      PROVE  Times(a, Neg(b)) = Neg(Times(a, b))
  <2>1. Neg(b) \in Scalars /\ Times(a, b) \in Scalars /\ Times(a, Neg(b)) \in Scalars
    BY NegMod, TimesComm
  <2>2. Plus(Times(a, b), Times(a, Neg(b))) = Times(a, Plus(b, Neg(b)))
    BY <2>1, Distribute
  <2>3. Times(a, 0) = 0
    BY TimesOne
  <2> QED BY <2>1, <2>2, <2>3, PlusNeg, NegUnique
<1>2. Neg(x) \in Scalars /\ Neg(y) \in Scalars
  BY NegMod
<1> QED BY <1>1, <1>2, TimesComm

\* A sign goes through a sum and through a product, and taken twice it cancels.
LEMMA Signs ==
  ASSUME NEW s \in BOOLEAN, NEW x \in Scalars, NEW y \in Scalars
  PROVE  /\ SignedBy(s, x) \in Scalars
         /\ SignedBy(s, SignedBy(s, x)) = x
         /\ SignedBy(s, Plus(x, y)) = Plus(SignedBy(s, x), SignedBy(s, y))
         /\ Times(SignedBy(s, x), y) = SignedBy(s, Times(x, y))
         /\ Times(x, SignedBy(s, y)) = SignedBy(s, Times(x, y))
<1>1. CASE s
  BY <1>1, NegMod, NegNeg, NegPlus, NegTimes DEF SignedBy
<1>2. CASE ~s
  BY <1>2 DEF SignedBy
<1> QED BY <1>1, <1>2

\* Of a point and its negative the one chosen has even Y.
LEMMA Evens ==
  ASSUME NEW x \in Scalars, x # 0
  PROVE  /\ EvenY(SignedBy(~EvenY(x), x))
         /\ SignedBy(~EvenY(x), x) \in Scalars /\ SignedBy(~EvenY(x), x) # 0
         /\ SignedBy(~EvenY(x), SignedBy(~EvenY(x), x)) = x
<1> DEFINE h == (q - 1) \div 2
<1>1. h \in Int /\ q = 2 * h + 1 /\ h >= 1
  OBVIOUS
<1>2. SignedBy(~EvenY(x), x) \in Scalars /\ SignedBy(~EvenY(x), SignedBy(~EvenY(x), x)) = x
  BY Signs DEF EvenY
<1>3. EvenY(SignedBy(~EvenY(x), x)) /\ SignedBy(~EvenY(x), x) # 0
  <2> HIDE DEF h
  <2>1. \A y : EvenY(y) <=> y \in 1 .. h
    BY DEF EvenY, h
  <2>2. x \in Int /\ 0 < x /\ x < q
    BY DEF Scalars
  <2>3. CASE EvenY(x)
    BY <2>3, <2>1, <1>1 DEF SignedBy
  <2>4. CASE ~EvenY(x)
    <3>1. x > h
      BY <2>4, <2>1, <2>2, <1>1
    <3>2. q - x \in Scalars
      BY <2>2 DEF Scalars
    <3>3. Neg(x) = q - x
      BY <3>2, ModSmall DEF Neg
    <3>4. SignedBy(~EvenY(x), x) = q - x
      BY <2>4, <3>3 DEF SignedBy
    <3> QED BY <3>1, <3>4, <2>1, <2>2, <1>1
  <2> QED BY <2>3, <2>4
<1> QED BY <1>2, <1>3

-----------------------------------------------------------------------------
\* sums gives the sum of f over every subset of S.
IsSums(sums, f, S) ==
    sums = [s \in SUBSET S |->
              IF s = {} THEN 0
              ELSE Plus(f[CHOOSE x \in s : TRUE], sums[s \ {CHOOSE x \in s : TRUE}])]

Sums(f, S) == CHOOSE sums : IsSums(sums, f, S)

\* SumOf of the community modules' fold, as the recursion it is.
LEMMA SumAsSums ==
  ASSUME NEW f
  PROVE  SumOf(f) = Sums(f, DOMAIN f)[DOMAIN f]
  BY DEF SumOf, FoldFunction, FoldFunctionOnSet, MapThenFoldSet, Sums, IsSums

\* Induction on the finite sets: what is in Good as soon as its strict subsets
\* are, is in Good.
LEMMA SubsetInduction ==
  ASSUME NEW S, IsFiniteSet(S), NEW Good,
         \A s \in SUBSET S : (\A t \in SUBSET s : t # s => t \in Good) => s \in Good
  PROVE  \A s \in SUBSET S : s \in Good
<1> DEFINE Bad == {s \in SUBSET S : s \notin Good}
<1>2. SUFFICES ASSUME Bad # {} PROVE FALSE
  OBVIOUS
<1>3. IsWellFoundedOn(StrictSubsetOrdering(S), SUBSET S)
  BY FS_StrictSubsetOrderingWellFounded, FS_FiniteSubsetsOfFinite
<1>4. Bad \subseteq SUBSET S
  OBVIOUS
<1> HIDE DEF Bad
<1>5. PICK s \in Bad : \A t \in Bad : ~(<<t, s>> \in StrictSubsetOrdering(S))
  <2>1. \E s \in Bad : \A t \in Bad : ~(<<t, s>> \in StrictSubsetOrdering(S))
    BY <1>2, <1>3, <1>4, WFMin
  <2> QED BY <2>1
<1>6. s \in SUBSET S
  BY <1>4
<1>7. \A t \in SUBSET s : t # s => t \in Good
  BY <1>5, <1>6 DEF Bad, StrictSubsetOrdering
<1> QED BY <1>5, <1>6, <1>7 DEF Bad

\* The sums over two sets agree on their common subsets.
LEMMA SumsUnique ==
  ASSUME NEW f, NEW S, NEW T, IsFiniteSet(S), NEW a, NEW b, IsSums(a, f, S), IsSums(b, f, T)
  PROVE  \A s \in SUBSET S : s \subseteq T => a[s] = b[s]
<1> DEFINE Good == {s \in SUBSET S : s \subseteq T => a[s] = b[s]}
<1>1. ASSUME NEW s \in SUBSET S, \A t \in SUBSET s : t # s => t \in Good
      PROVE  s \in Good
  <2> SUFFICES ASSUME s \subseteq T PROVE a[s] = b[s]
    OBVIOUS
  <2>1. CASE s = {}
    BY <2>1 DEF IsSums
  <2>2. CASE s # {}
    <3> DEFINE p == CHOOSE x \in s : TRUE
    <3>1. p \in s
      BY <2>2
    <3>2. a[s] = Plus(f[p], a[s \ {p}])
      BY <2>2 DEF IsSums
    <3>3. b[s] = Plus(f[p], b[s \ {p}])
      BY <2>2 DEF IsSums
    <3> HIDE DEF p
    <3>4. s \ {p} \in Good /\ s \ {p} \subseteq T
      BY <3>1, <1>1
    <3> QED BY <3>2, <3>3, <3>4
  <2> QED BY <2>1, <2>2
<1> HIDE DEF Good
<1>2. \A s \in SUBSET S : s \in Good
  BY <1>1, SubsetInduction, Zenon
<1> QED BY <1>2 DEF Good

\* The sums over a finite set exist.
LEMMA SumsExist ==
  ASSUME NEW f, NEW S, IsFiniteSet(S)
  PROVE  IsSums(Sums(f, S), f, S)
<1> DEFINE Good == {s \in SUBSET S : \E a : IsSums(a, f, s)}
<1>1. ASSUME NEW s \in SUBSET S, \A t \in SUBSET s : t # s => t \in Good
      PROVE  s \in Good
  <2> DEFINE At(t) == Sums(f, t)[t]
             a == [t \in SUBSET s |->
                     IF t = {} THEN 0 ELSE Plus(f[CHOOSE x \in t : TRUE], At(t \ {CHOOSE x \in t : TRUE}))]
  <2>1. \A t \in SUBSET s : t # s => IsSums(Sums(f, t), f, t)
    BY <1>1 DEF Sums
  <2>2. \A u \in SUBSET s : u # s => a[u] = At(u)
    <3> SUFFICES ASSUME NEW u \in SUBSET s, u # s PROVE a[u] = At(u)
      OBVIOUS
    <3>1. IsSums(Sums(f, u), f, u)
      BY <2>1
    <3>2. CASE u = {}
      BY <3>1, <3>2 DEF IsSums
    <3>3. CASE u # {}
      <4> DEFINE p == CHOOSE x \in u : TRUE
                 v == u \ {p}
      <4>1. p \in u
        BY <3>3
      <4>2. a[u] = Plus(f[p], At(v))
        BY <3>3
      <4>3. Sums(f, u)[u] = Plus(f[p], Sums(f, u)[v])
        BY <3>3, <3>1 DEF IsSums
      <4> HIDE DEF p
      <4>4. v \in SUBSET s /\ v # s /\ v \in SUBSET u /\ v \subseteq v
        BY <4>1
      <4> HIDE DEF v
      <4>5. IsSums(Sums(f, v), f, v)
        BY <4>4, <2>1
      <4>6. IsFiniteSet(u)
        BY FS_Subset
      <4>7. Sums(f, u)[v] = Sums(f, v)[v]
        BY <3>1, <4>4, <4>5, <4>6, SumsUnique
      <4> QED BY <4>2, <4>3, <4>7
    <3> QED BY <3>2, <3>3
  <2>3. a = [t \in SUBSET s |->
               IF t = {} THEN 0 ELSE Plus(f[CHOOSE x \in t : TRUE], a[t \ {CHOOSE x \in t : TRUE}])]
    <3>1. \A t \in SUBSET s : t # {} =>
             At(t \ {CHOOSE x \in t : TRUE}) = a[t \ {CHOOSE x \in t : TRUE}]
      <4> SUFFICES ASSUME NEW t \in SUBSET s, t # {}
                   PROVE  At(t \ {CHOOSE x \in t : TRUE}) = a[t \ {CHOOSE x \in t : TRUE}]
        OBVIOUS
      <4> DEFINE p == CHOOSE x \in t : TRUE
      <4>1. p \in t
        OBVIOUS
      <4> HIDE DEF p, At, a
      <4>2. t \ {p} \in SUBSET s /\ t \ {p} # s
        BY <4>1
      <4>3. At(t \ {p}) = a[t \ {p}]
        BY <4>2, <2>2
      <4> QED BY <4>3 DEF p
    <3> DEFINE c == [t \in SUBSET s |->
               IF t = {} THEN 0 ELSE Plus(f[CHOOSE x \in t : TRUE], a[t \ {CHOOSE x \in t : TRUE}])]
    <3>2. \A t \in SUBSET s : a[t] = c[t]
      <4> SUFFICES ASSUME NEW t \in SUBSET s PROVE a[t] = c[t]
        OBVIOUS
      <4> DEFINE v == t \ {CHOOSE x \in t : TRUE}
      <4>1. CASE t = {}
        BY <4>1
      <4>2. CASE t # {}
        <5>1. a[t] = Plus(f[CHOOSE x \in t : TRUE], At(v))
          BY <4>2
        <5>2. c[t] = Plus(f[CHOOSE x \in t : TRUE], a[v])
          BY <4>2
        <5> HIDE DEF a, c, At
        <5>3. At(v) = a[v]
          BY <3>1, <4>2
        <5> QED BY <5>1, <5>2, <5>3
      <4> QED BY <4>1, <4>2
    <3>3. a = [t \in SUBSET s |-> a[t]] /\ c = [t \in SUBSET s |-> c[t]]
      OBVIOUS
    <3> HIDE DEF a, c
    <3>4. a = c
      BY <3>2, <3>3
    <3> QED BY <3>4 DEF c
  <2> HIDE DEF a
  <2> QED BY <2>3 DEF IsSums
<1> HIDE DEF Good
<1>2. \A s \in SUBSET S : s \in Good
  BY <1>1, SubsetInduction, Zenon
<1>3. \E a : IsSums(a, f, S)
  BY <1>2 DEF Good
<1> QED BY <1>3, Zenon DEF Sums

\* The two equations of the recursion that defines a sum.
LEMMA SumsStep ==
  ASSUME NEW f, NEW S, IsFiniteSet(S), NEW s \in SUBSET S, s # {}
  PROVE  Sums(f, S)[s] = Plus(f[CHOOSE x \in s : TRUE], Sums(f, S)[s \ {CHOOSE x \in s : TRUE}])
<1>1. IsSums(Sums(f, S), f, S)
  BY SumsExist
<1> QED BY <1>1 DEF IsSums

\* An empty sum is 0.
LEMMA SumsEmpty ==
  ASSUME NEW f, NEW S, IsFiniteSet(S)
  PROVE  Sums(f, S)[{}] = 0
<1>1. IsSums(Sums(f, S), f, S)
  BY SumsExist
<1>2. {} \in SUBSET S
  OBVIOUS
<1> QED BY <1>1, <1>2 DEF IsSums

\* A sum of scalars is a scalar.
LEMMA SumsType ==
  ASSUME NEW S, IsFiniteSet(S), NEW f \in [S -> Scalars]
  PROVE  \A s \in SUBSET S : Sums(f, S)[s] \in Scalars
<1> DEFINE Good == {s \in SUBSET S : Sums(f, S)[s] \in Scalars}
<1>1. ASSUME NEW s \in SUBSET S, \A t \in SUBSET s : t # s => t \in Good
      PROVE  s \in Good
  <2>1. CASE s = {}
    BY <2>1, SumsEmpty, PlusZero, TimesOne DEF Scalars
  <2>2. CASE s # {}
    <3>1. PICK p \in s : Sums(f, S)[s] = Plus(f[p], Sums(f, S)[s \ {p}])
      <4>1. (CHOOSE x \in s : TRUE) \in s
        BY <2>2
      <4>2. Sums(f, S)[s] = Plus(f[CHOOSE x \in s : TRUE], Sums(f, S)[s \ {CHOOSE x \in s : TRUE}])
        BY <2>2, SumsStep
      <4> QED BY <4>1, <4>2
    <3>2. s \ {p} \in Good
      BY <1>1
    <3> QED BY <3>1, <3>2, PlusComm
  <2> QED BY <2>1, <2>2
<1> HIDE DEF Good
<1>2. \A s \in SUBSET S : s \in Good
  BY <1>1, SubsetInduction, Zenon
<1> QED BY <1>2 DEF Good

\* Two sums of two scalars can be taken crosswise.
LEMMA Crosswise ==
  ASSUME NEW a \in Scalars, NEW b \in Scalars, NEW c \in Scalars, NEW e \in Scalars
  PROVE  Plus(Plus(a, b), Plus(c, e)) = Plus(Plus(a, c), Plus(b, e))
<1>1. Plus(c, e) \in Scalars /\ Plus(b, e) \in Scalars
  BY PlusComm
<1>2. Plus(Plus(a, b), Plus(c, e)) = Plus(a, Plus(b, Plus(c, e)))
  BY <1>1, PlusAssoc
<1>3. Plus(Plus(a, c), Plus(b, e)) = Plus(a, Plus(c, Plus(b, e)))
  BY <1>1, PlusAssoc
<1>4. Plus(b, Plus(c, e)) = Plus(Plus(b, c), e) /\ Plus(c, Plus(b, e)) = Plus(Plus(c, b), e)
  BY PlusAssoc
<1>5. Plus(b, c) = Plus(c, b)
  BY PlusComm
<1> QED BY <1>2, <1>3, <1>4, <1>5

\* h is a * f + b * g on S.
Combines(h, S, a, f, b, g) ==
    /\ f \in [S -> Scalars] /\ g \in [S -> Scalars]
    /\ a \in Scalars /\ b \in Scalars
    /\ DOMAIN h = S /\ \A i \in S : h[i] = Plus(Times(a, f[i]), Times(b, g[i]))

\* Summing is linear.
LEMMA SumsLinear ==
  ASSUME NEW S, IsFiniteSet(S), NEW f, NEW g, NEW a, NEW b, NEW h,
         Combines(h, S, a, f, b, g)
  PROVE  \A s \in SUBSET S :
            Sums(h, S)[s] = Plus(Times(a, Sums(f, S)[s]), Times(b, Sums(g, S)[s]))
<1> SUFFICES ASSUME f \in [S -> Scalars], g \in [S -> Scalars], a \in Scalars, b \in Scalars,
                    \A i \in S : h[i] = Plus(Times(a, f[i]), Times(b, g[i]))
             PROVE  \A s \in SUBSET S :
                      Sums(h, S)[s] = Plus(Times(a, Sums(f, S)[s]), Times(b, Sums(g, S)[s]))
  BY DEF Combines
<1> DEFINE F(s) == Sums(f, S)[s]
           G(s) == Sums(g, S)[s]
           H(s) == Sums(h, S)[s]
           Good == {s \in SUBSET S : H(s) = Plus(Times(a, F(s)), Times(b, G(s)))}
<1>1. ASSUME NEW s \in SUBSET S, \A t \in SUBSET s : t # s => t \in Good
      PROVE  s \in Good
  <2>1. CASE s = {}
    <3>1. F(s) = 0 /\ G(s) = 0 /\ H(s) = 0
      BY <2>1, SumsEmpty, Zenon
    <3>2. Times(a, 0) = 0 /\ Times(b, 0) = 0 /\ Plus(0, 0) = 0
      BY TimesOne, PlusZero DEF Scalars
    <3> QED BY <3>1, <3>2
  <2>2. CASE s # {}
    <3> DEFINE p == CHOOSE x \in s : TRUE
               r == s \ {p}
    <3>1. p \in s
      BY <2>2
    <3>2. F(s) = Plus(f[p], F(r)) /\ G(s) = Plus(g[p], G(r)) /\ H(s) = Plus(h[p], H(r))
      <4>1. ASSUME NEW k
            PROVE  Sums(k, S)[s] = Plus(k[p], Sums(k, S)[r])
        <5>1. Sums(k, S)[s] = Plus(k[CHOOSE x \in s : TRUE], Sums(k, S)[s \ {CHOOSE x \in s : TRUE}])
          BY <2>2, SumsStep
        <5> QED BY <5>1
      <4> QED BY <4>1, Zenon
    <3> HIDE DEF p
    <3>3. r \in Good /\ r \in SUBSET S
      BY <3>1, <1>1
    <3>4. h[p] = Plus(Times(a, f[p]), Times(b, g[p]))
      BY <3>1
    <3>5. f[p] \in Scalars /\ g[p] \in Scalars /\ F(r) \in Scalars /\ G(r) \in Scalars
      BY <3>1, <3>3, SumsType
    <3>6. H(r) = Plus(Times(a, F(r)), Times(b, G(r)))
      BY <3>3
    <3> HIDE DEF F, G, H, r, Good
    <3>7. Times(a, F(s)) = Plus(Times(a, f[p]), Times(a, F(r)))
      BY <3>2, <3>5, Distribute
    <3>8. Times(b, G(s)) = Plus(Times(b, g[p]), Times(b, G(r)))
      BY <3>2, <3>5, Distribute
    <3>9. /\ Times(a, f[p]) \in Scalars /\ Times(a, F(r)) \in Scalars
          /\ Times(b, g[p]) \in Scalars /\ Times(b, G(r)) \in Scalars
      BY <3>5, TimesComm
    <3>10. H(s) = Plus(Times(a, F(s)), Times(b, G(s)))
      BY <3>2, <3>4, <3>6, <3>7, <3>8, <3>9, Crosswise
    <3> QED BY <3>10 DEF Good
  <2> QED BY <2>1, <2>2
<1> HIDE DEF Good
<1>2. \A s \in SUBSET S : s \in Good
  BY <1>1, SubsetInduction, Zenon
<1> QED BY <1>2 DEF Good

\* A sum of scalars is a scalar, and the sum of two functions, the multiple of a
\* function and the negative of one have the sum that they should.
LEMMA SumType ==
  ASSUME NEW S, IsFiniteSet(S), NEW f \in [S -> Scalars]
  PROVE  SumOf(f) \in Scalars
<1>1. DOMAIN f = S
  OBVIOUS
<1> QED BY <1>1, SumAsSums, SumsType

\* Linearity, for SumOf.
LEMMA SumLinear ==
  ASSUME NEW S, IsFiniteSet(S), NEW f \in [S -> Scalars], NEW g \in [S -> Scalars],
         NEW a \in Scalars, NEW b \in Scalars
  PROVE  SumOf([i \in S |-> Plus(Times(a, f[i]), Times(b, g[i]))])
            = Plus(Times(a, SumOf(f)), Times(b, SumOf(g)))
<1> SUFFICES ASSUME NEW h, Combines(h, S, a, f, b, g)
             PROVE  SumOf(h) = Plus(Times(a, SumOf(f)), Times(b, SumOf(g)))
  BY DEF Combines
<1>1. DOMAIN f = S /\ DOMAIN g = S /\ DOMAIN h = S
  BY DEF Combines
<1>2. \A s \in SUBSET S :
         Sums(h, S)[s] = Plus(Times(a, Sums(f, S)[s]), Times(b, Sums(g, S)[s]))
  BY SumsLinear
<1>3. Sums(h, S)[S] = Plus(Times(a, Sums(f, S)[S]), Times(b, Sums(g, S)[S]))
  BY <1>2
<1> QED BY <1>1, <1>3, SumAsSums

\* The sum of the sums,
LEMMA SumPlus ==
  ASSUME NEW S, IsFiniteSet(S), NEW f \in [S -> Scalars], NEW g \in [S -> Scalars]
  PROVE  SumOf([i \in S |-> Plus(f[i], g[i])]) = Plus(SumOf(f), SumOf(g))
<1>1. 1 \in Scalars
  BY DEF Scalars
<1>2. [i \in S |-> Plus(f[i], g[i])] = [i \in S |-> Plus(Times(1, f[i]), Times(1, g[i]))]
  BY TimesOne
<1> QED BY <1>1, <1>2, SumLinear, SumType, TimesOne

\* of the multiples,
LEMMA SumTimes ==
  ASSUME NEW S, IsFiniteSet(S), NEW f \in [S -> Scalars], NEW a \in Scalars
  PROVE  SumOf([i \in S |-> Times(a, f[i])]) = Times(a, SumOf(f))
<1>1. 0 \in Scalars
  BY DEF Scalars
<1>2. \A x \in Scalars : Times(0, x) = 0 /\ Times(a, x) \in Scalars
  BY <1>1, TimesOne, TimesComm
<1>3. [i \in S |-> Times(a, f[i])] = [i \in S |-> Plus(Times(a, f[i]), Times(0, f[i]))]
  BY <1>2, PlusZero
<1>4. SumOf(f) \in Scalars
  BY SumType
<1>5. SumOf([i \in S |-> Plus(Times(a, f[i]), Times(0, f[i]))])
        = Plus(Times(a, SumOf(f)), Times(0, SumOf(f)))
  BY <1>1, SumLinear
<1> QED BY <1>2, <1>3, <1>4, <1>5, PlusZero

\* and of the negatives.
LEMMA SumSigned ==
  ASSUME NEW S, IsFiniteSet(S), NEW f \in [S -> Scalars], NEW n \in BOOLEAN
  PROVE  SumOf([i \in S |-> SignedBy(n, f[i])]) = SignedBy(n, SumOf(f))
<1>1. 1 \in Scalars
  BY DEF Scalars
<1> DEFINE m == SignedBy(n, 1)
<1>2. m \in Scalars
  BY <1>1, Signs
<1>3. \A x \in Scalars : SignedBy(n, x) = Times(m, x)
  <2> SUFFICES ASSUME NEW x \in Scalars PROVE SignedBy(n, x) = Times(m, x)
    OBVIOUS
  <2>1. Times(SignedBy(n, 1), x) = SignedBy(n, Times(1, x))
    BY <1>1, Signs
  <2>2. Times(1, x) = x
    BY TimesOne
  <2> QED BY <2>1, <2>2
<1> HIDE DEF m
<1>4. [i \in S |-> SignedBy(n, f[i])] = [i \in S |-> Times(m, f[i])]
  BY <1>3
<1>5. SumOf([i \in S |-> Times(m, f[i])]) = Times(m, SumOf(f))
  BY <1>2, SumTimes
<1> QED BY <1>3, <1>4, <1>5, SumType

-----------------------------------------------------------------------------
NonceRecords == [k1 : Scalars, k2 : Scalars]

CtxRecords == [Q : Scalars, Q_negated : BOOLEAN, coef : [Positions -> Scalars],
               gacc : {1, q - 1}, tacc : Scalars, tweaks : Nat]

SessionRecords == [R : Scalars, R_negated : BOOLEAN, b : Scalars, e : Scalars,
                   tweak_s : Scalars, substituted : BOOLEAN]

\* The aggregate of the public nonces that a session is started from.
NonceSum(p, b) == Plus(SumOf([i \in Positions |-> p[i].k1]),
                       Times(b, SumOf([i \in Positions |-> p[i].k2])))

Records ==
    /\ ctx # NoCtx => ctx \in CtxRecords
    /\ pubnonce \in [Positions -> NonceRecords]
    /\ session # NoSession => session \in SessionRecords

\* A session fixes the context and the public nonces it was started from.
Started ==
    session # NoSession =>
        /\ ctx # NoCtx
        /\ \A i \in Positions : pubnonce[i] # Erased
        /\ session.tweak_s = TweakTerm(ctx, session.e)
        /\ ~session.substituted => session.R = SignedBy(session.R_negated, NonceSum(pubnonce, session.b))

\* A secret nonce that is still there is the one that was published, and a
\* partial signature is made of the published nonce and the signer's own key,
\* unless the engine was asked with a consumed one.
Honest ==
    /\ \A i \in Positions : nonce[i] \in {Erased, pubnonce[i]}
    /\ \A i \in Positions : psig[i] # 0 => session # NoSession
    /\ \A i \in Positions : psig[i] # 0 /\ i \notin stale =>
          psig[i] = Plus(NonceTerm(session, pubnonce[i]), KeyTerm(ctx, session, i, d[i]))

\* Nonces come after the context, the signature after the session.
Phases ==
    /\ (\E i \in Positions : pubnonce[i] # Erased) => ctx # NoCtx
    /\ sig # NoSig => session # NoSession

IInv == TypeOK /\ Records /\ Started /\ Honest /\ Phases /\ AccumulatorsExact /\ AggregateVerifies

\* There are finitely many signers.
LEMMA PositionsFinite == IsFiniteSet(Positions)
  BY SignersAssumption, FS_Interval DEF Positions

\* gacc stays 1 or -1.
LEMMA GaccSigns ==
  ASSUME NEW n \in BOOLEAN, NEW g \in {1, q - 1}
  PROVE  SignedBy(n, g) \in {1, q - 1} /\ g \in Scalars
<1>1. 1 \in Scalars /\ q - 1 \in Scalars
  BY DEF Scalars
<1>2. Neg(1) = q - 1
  BY <1>1, ModSmall DEF Neg
<1>3. Neg(q - 1) = 1
  BY <1>1, <1>2, NegNeg
<1> QED BY <1>1, <1>2, <1>3 DEF SignedBy

\* What WithActual leaves: the actual point, kept as its even-Y twin.
LEMMA WithActualHolds ==
  ASSUME NEW c \in CtxRecords, NEW A \in Scalars, A # 0
  PROVE  /\ WithActual(c, A) \in CtxRecords
         /\ Actual(WithActual(c, A)) = A
         /\ EvenY(WithActual(c, A).Q)
         /\ WithActual(c, A).coef = c.coef
         /\ WithActual(c, A).gacc = c.gacc
         /\ WithActual(c, A).tacc = c.tacc
<1> DEFINE w == WithActual(c, A)
<1>1. /\ w = [c EXCEPT !.Q = SignedBy(~EvenY(A), A), !.Q_negated = ~EvenY(A)]
      /\ (~EvenY(A)) \in BOOLEAN
  <2>1. (~EvenY(A)) \in BOOLEAN
    BY DEF EvenY
  <2>2. w = [c EXCEPT !.Q = SignedBy(~EvenY(A), A), !.Q_negated = ~EvenY(A)]
    BY DEF WithActual
  <2> QED BY <2>1, <2>2
<1>2. /\ EvenY(SignedBy(~EvenY(A), A))
      /\ SignedBy(~EvenY(A), A) \in Scalars
      /\ SignedBy(~EvenY(A), SignedBy(~EvenY(A), A)) = A
  BY Evens
<1>3. w.Q = SignedBy(~EvenY(A), A) /\ w.Q_negated = ~EvenY(A)
  BY <1>1 DEF CtxRecords
<1>4. w \in CtxRecords /\ w.coef = c.coef /\ w.gacc = c.gacc /\ w.tacc = c.tacc
  BY <1>1, <1>2 DEF CtxRecords
<1> HIDE DEF w
<1>5. Actual(w) = A /\ EvenY(w.Q)
  BY <1>2, <1>3, Zenon DEF Actual
<1> QED BY <1>4, <1>5 DEF w

\* The sum of a_i * P_i.
KeySum(c) == SumOf([i \in Positions |-> Times(c.coef[i], d[i])])
Exact(c) == Actual(c) = Plus(Times(c.gacc, KeySum(c)), c.tacc)

\* The invariant holds at first, and every action keeps it.
LEMMA InitInv == Init => IInv
<1> SUFFICES ASSUME Init PROVE IInv
  OBVIOUS
<1>1. 0 \in Scalars /\ 1 .. (q - 1) \subseteq Scalars
  BY DEF Scalars
<1>2. d \in [Positions -> Scalars] /\ psig \in [Positions -> Scalars] /\ sig.s \in Scalars
  BY <1>1 DEF Init, NoSig
<1>3. nonce \in [Positions -> Nonces \cup {Erased}] /\ pubnonce \in [Positions -> NonceRecords]
  BY <1>1 DEF Init, Erased, NonceRecords
<1> QED BY <1>2, <1>3
        DEF Init, IInv, TypeOK, Records, Started, Honest, Phases, AccumulatorsExact, AggregateVerifies

\* A context with an even-Y key is one.
LEMMA RealCtx ==
  ASSUME EvenY(ctx'.Q)
  PROVE  ctx' # NoCtx
<1>1. ctx'.Q # 0
  BY DEF EvenY
<1> QED BY <1>1 DEF NoCtx

\* musig2_key_agg: no tweak yet, and the accumulators say so.
LEMMA KeyAggKeeps ==
  ASSUME IInv, NEW hash \in [Positions -> KeyHashes], KeyAgg(hash)
  PROVE  IInv'
<1> DEFINE coef == Coefficients(d, hash)
           Q == SumOf([i \in Positions |-> Times(coef[i], d[i])])
           c == [Q |-> Q, Q_negated |-> FALSE, coef |-> coef, gacc |-> 1, tacc |-> 0, tweaks |-> 0]
<1>1. /\ ctx = NoCtx /\ Q # 0 /\ ctx' = WithActual(c, Q)
      /\ UNCHANGED <<d, nonce, pubnonce, session, psig, sig, stale>>
  BY DEF KeyAgg
<1>2. session = NoSession /\ sig = NoSig
  BY <1>1 DEF IInv, Started, Phases
<1>3. d \in [Positions -> Scalars] /\ 0 \in Scalars /\ 1 \in Scalars
  BY DEF IInv, TypeOK, Scalars
<1>4. coef \in [Positions -> Scalars]
  BY <1>3, InputsAssumption DEF Coefficients
<1> HIDE DEF coef
<1>5. [i \in Positions |-> Times(coef[i], d[i])] \in [Positions -> Scalars]
  BY <1>3, <1>4, TimesComm
<1>6. Q \in Scalars
  BY <1>5, PositionsFinite, SumType
<1> HIDE DEF Q
<1>7. c \in CtxRecords
  BY <1>3, <1>4, <1>6 DEF CtxRecords
<1>8. c.coef = coef /\ c.gacc = 1 /\ c.tacc = 0
  OBVIOUS
<1> HIDE DEF c
<1>9. /\ ctx' \in CtxRecords /\ Actual(ctx') = Q /\ EvenY(ctx'.Q)
      /\ ctx'.coef = coef /\ ctx'.gacc = 1 /\ ctx'.tacc = 0
  BY <1>1, <1>6, <1>7, <1>8, WithActualHolds
<1>10. TypeOK' /\ Records'
  BY <1>1, <1>2, <1>3, <1>9 DEF IInv, TypeOK, Records, CtxRecords
<1>11. Started' /\ Phases' /\ AggregateVerifies'
  BY <1>1, <1>2, <1>9, RealCtx DEF Started, Phases, AggregateVerifies
<1>12. Honest'
  BY <1>1, <1>2 DEF IInv, Honest
<1>13. AccumulatorsExact'
  <2>1. SumOf([i \in Positions |-> Times(ctx'.coef[i], d'[i])]) = Q
    BY <1>1, <1>9 DEF Q
  <2>2. Plus(Times(1, Q), 0) = Q
    BY <1>6, TimesOne, PlusZero
  <2> QED BY <1>9, <2>1, <2>2 DEF AccumulatorsExact
<1> QED BY <1>10, <1>11, <1>12, <1>13 DEF IInv

\* What both tweaks keep: with the context replaced by an exact one of the right
\* type, before any session, everything else of the invariant stands.
LEMMA TweakKeeps ==
  ASSUME IInv, session = NoSession, ctx' \in CtxRecords, EvenY(ctx'.Q),
         UNCHANGED <<d, nonce, pubnonce, session, psig, sig, stale>>, Exact(ctx)'
  PROVE  IInv'
<1>1. sig = NoSig
  BY DEF IInv, Phases
<1>2. TypeOK' /\ Records'
  BY DEF IInv, TypeOK, Records, CtxRecords
<1>3. Started' /\ Phases' /\ AggregateVerifies'
  BY <1>1, RealCtx DEF Started, Phases, AggregateVerifies
<1>4. Honest'
  BY DEF IInv, Honest
<1>5. AccumulatorsExact'
  BY DEF AccumulatorsExact, Exact, KeySum
<1> QED BY <1>2, <1>3, <1>4, <1>5 DEF IInv

\* The facts of a context to which a tweak can be added.
LEMMA CtxFacts ==
  ASSUME IInv, ctx # NoCtx
  PROVE  /\ ctx \in CtxRecords
         /\ ctx.Q \in Scalars /\ ctx.Q_negated \in BOOLEAN /\ ctx.tacc \in Scalars
         /\ ctx.coef \in [Positions -> Scalars]
         /\ ctx.gacc \in {1, q - 1} /\ ctx.gacc \in Scalars
         /\ KeySum(ctx) \in Scalars
         /\ Times(ctx.gacc, KeySum(ctx)) \in Scalars
         /\ Actual(ctx) \in Scalars
         /\ ctx.Q = SignedBy(ctx.Q_negated, Actual(ctx))
         /\ d \in [Positions -> Scalars]
         /\ Exact(ctx)
<1>1. ctx \in CtxRecords /\ d \in [Positions -> Scalars]
  BY DEF IInv, Records, TypeOK
<1>2. /\ ctx.Q \in Scalars /\ ctx.Q_negated \in BOOLEAN /\ ctx.tacc \in Scalars
      /\ ctx.gacc \in {1, q - 1} /\ ctx.coef \in [Positions -> Scalars]
  BY <1>1 DEF CtxRecords
<1>3. KeySum(ctx) \in Scalars
  <2>1. [i \in Positions |-> Times(ctx.coef[i], d[i])] \in [Positions -> Scalars]
    BY <1>1, <1>2, TimesComm
  <2> QED BY <2>1, PositionsFinite, SumType DEF KeySum
<1>4. ctx.gacc \in Scalars
  BY <1>2, GaccSigns
<1>5. Actual(ctx) \in Scalars /\ ctx.Q = SignedBy(ctx.Q_negated, Actual(ctx))
  BY <1>2, Signs DEF Actual
<1>6. Exact(ctx)
  BY DEF IInv, AccumulatorsExact, Exact, KeySum
<1> QED BY <1>1, <1>2, <1>3, <1>4, <1>5, <1>6, TimesComm

\* A plain tweak: t joins tacc.
LEMMA EcTweakKeeps ==
  ASSUME IInv, NEW t \in Tweaks, EcTweak(t)
  PROVE  IInv'
<1> DEFINE A == Plus(Actual(ctx), t)
           c == [ctx EXCEPT !.tacc = Plus(@, t), !.tweaks = @ + 1]
<1>1. /\ ctx # NoCtx /\ session = NoSession /\ A # 0 /\ ctx' = WithActual(c, A)
      /\ UNCHANGED <<d, nonce, pubnonce, session, psig, sig, stale>>
  BY DEF EcTweak, Tweakable
<1>2. t \in Scalars
  BY InputsAssumption
<1>3. /\ ctx \in CtxRecords /\ Actual(ctx) \in Scalars /\ ctx.tacc \in Scalars
      /\ Times(ctx.gacc, KeySum(ctx)) \in Scalars
      /\ Actual(ctx) = Plus(Times(ctx.gacc, KeySum(ctx)), ctx.tacc)
  BY <1>1, CtxFacts DEF Exact
<1>4. A \in Scalars /\ Plus(ctx.tacc, t) \in Scalars
  BY <1>2, <1>3, PlusComm
<1>5. c \in CtxRecords /\ c.coef = ctx.coef /\ c.gacc = ctx.gacc /\ c.tacc = Plus(ctx.tacc, t)
  <2>1. ctx.tweaks + 1 \in Nat
    BY <1>3 DEF CtxRecords
  <2> QED BY <1>3, <1>4, <2>1 DEF CtxRecords
<1>6. A = Plus(Times(ctx.gacc, KeySum(ctx)), Plus(ctx.tacc, t))
  BY <1>2, <1>3, PlusAssoc
<1> HIDE DEF A, c
<1>7. /\ ctx' \in CtxRecords /\ Actual(ctx') = A /\ EvenY(ctx'.Q)
      /\ ctx'.coef = ctx.coef /\ ctx'.gacc = ctx.gacc /\ ctx'.tacc = Plus(ctx.tacc, t)
  BY <1>1, <1>4, <1>5, WithActualHolds
<1>8. KeySum(ctx)' = KeySum(ctx)
  BY <1>1, <1>7 DEF KeySum
<1>9. Exact(ctx)'
  BY <1>6, <1>7, <1>8 DEF Exact, Actual
<1> QED BY <1>1, <1>7, <1>9, TweakKeeps

\* An x-only tweak: the even-Y key is the actual one, turned, and so both
\* accumulators are.
LEMMA XonlyTweakKeeps ==
  ASSUME IInv, NEW t \in Tweaks, XonlyTweak(t)
  PROVE  IInv'
<1> DEFINE A == Plus(ctx.Q, t)
           n == ctx.Q_negated
           g == GaccAfterXonly(ctx)
           tacc == Plus(SignedBy(n, ctx.tacc), t)
           c == [ctx EXCEPT !.gacc = GaccAfterXonly(ctx),
                            !.tacc = Plus(SignedBy(ctx.Q_negated, @), t), !.tweaks = @ + 1]
<1>1. /\ ctx # NoCtx /\ session = NoSession /\ A # 0 /\ ctx' = WithActual(c, A)
      /\ UNCHANGED <<d, nonce, pubnonce, session, psig, sig, stale>>
  BY DEF XonlyTweak, Tweakable
<1>2. t \in Scalars
  BY InputsAssumption
<1>3. /\ ctx \in CtxRecords /\ ctx.Q \in Scalars /\ ctx.tacc \in Scalars /\ n \in BOOLEAN
      /\ ctx.gacc \in {1, q - 1} /\ ctx.gacc \in Scalars /\ KeySum(ctx) \in Scalars
      /\ Times(ctx.gacc, KeySum(ctx)) \in Scalars
      /\ ctx.Q = SignedBy(n, Actual(ctx))
      /\ Actual(ctx) = Plus(Times(ctx.gacc, KeySum(ctx)), ctx.tacc)
  BY <1>1, CtxFacts DEF Exact
<1>4. g \in {1, q - 1} /\ g \in Scalars /\ g = SignedBy(n, ctx.gacc)
  BY <1>3, GaccSigns, Signs DEF GaccAfterXonly
<1>5. A \in Scalars /\ SignedBy(n, ctx.tacc) \in Scalars /\ tacc \in Scalars
  BY <1>2, <1>3, PlusComm, Signs
<1>6. c \in CtxRecords /\ c.coef = ctx.coef /\ c.gacc = g /\ c.tacc = tacc
  <2>1. c = [ctx EXCEPT !.gacc = g, !.tacc = tacc, !.tweaks = @ + 1]
    OBVIOUS
  <2>2. ctx.tweaks + 1 \in Nat
    BY <1>3 DEF CtxRecords
  <2> HIDE DEF c, g, tacc
  <2> QED BY <1>3, <1>4, <1>5, <2>1, <2>2 DEF CtxRecords
<1>7. A = Plus(Times(g, KeySum(ctx)), tacc)
  <2>1. ctx.Q = Plus(SignedBy(n, Times(ctx.gacc, KeySum(ctx))), SignedBy(n, ctx.tacc))
    BY <1>3, Signs
  <2>2. SignedBy(n, Times(ctx.gacc, KeySum(ctx))) = Times(g, KeySum(ctx))
    BY <1>3, <1>4, Signs
  <2>3. Times(g, KeySum(ctx)) \in Scalars
    BY <1>3, <1>4, TimesComm
  <2> QED BY <1>2, <1>5, <2>1, <2>2, <2>3, PlusAssoc
<1> HIDE DEF A, c, g, tacc
<1>8. /\ ctx' \in CtxRecords /\ Actual(ctx') = A /\ EvenY(ctx'.Q)
      /\ ctx'.coef = ctx.coef /\ ctx'.gacc = g /\ ctx'.tacc = tacc
  BY <1>1, <1>5, <1>6, WithActualHolds
<1>9. KeySum(ctx)' = KeySum(ctx)
  BY <1>1, <1>8 DEF KeySum
<1>10. Exact(ctx)'
  BY <1>7, <1>8, <1>9 DEF Exact, Actual
<1> QED BY <1>1, <1>8, <1>10, TweakKeeps

\* musig2_nonce_gen: the nonce kept is the one published.
LEMMA NonceGenKeeps ==
  ASSUME IInv, NEW i \in Positions, NEW k \in Nonces, NonceGen(i, k)
  PROVE  IInv'
<1>1. /\ ctx # NoCtx /\ pubnonce[i] = Erased
      /\ nonce' = [nonce EXCEPT ![i] = k] /\ pubnonce' = [pubnonce EXCEPT ![i] = k]
      /\ UNCHANGED <<d, ctx, session, psig, sig, stale>>
  BY DEF NonceGen
<1>2. session = NoSession /\ sig = NoSig
  BY <1>1 DEF IInv, Started, Phases
<1>3. nonce \in [Positions -> Nonces \cup {Erased}] /\ pubnonce \in [Positions -> NonceRecords]
  BY DEF IInv, TypeOK, Records
<1>4. k \in NonceRecords
  BY InputsAssumption DEF NonceRecords
<1>5. /\ nonce' \in [Positions -> Nonces \cup {Erased}]
      /\ pubnonce' \in [Positions -> NonceRecords]
  BY <1>1, <1>3, <1>4
<1>6. TypeOK' /\ Records'
  BY <1>1, <1>2, <1>5 DEF IInv, TypeOK, Records
<1>7. Started' /\ Phases' /\ AggregateVerifies'
  BY <1>1, <1>2 DEF Started, Phases, AggregateVerifies
<1>8. Honest'
  BY <1>1, <1>2, <1>3 DEF IInv, Honest
<1>9. AccumulatorsExact'
  BY <1>1 DEF IInv, AccumulatorsExact
<1> QED BY <1>6, <1>7, <1>8, <1>9 DEF IInv

\* The term of the session for a signer's nonce, and for a signer's key.
NonceTerms == [i \in Positions |-> NonceTerm(session, pubnonce[i])]
KeyTerms == [i \in Positions |-> KeyTerm(ctx, session, i, d[i])]

\* The sums of the public nonces are scalars.
LEMMA NonceSumType ==
  ASSUME pubnonce \in [Positions -> NonceRecords], NEW b \in Scalars
  PROVE  /\ [i \in Positions |-> pubnonce[i].k1] \in [Positions -> Scalars]
         /\ [i \in Positions |-> pubnonce[i].k2] \in [Positions -> Scalars]
         /\ SumOf([i \in Positions |-> pubnonce[i].k1]) \in Scalars
         /\ SumOf([i \in Positions |-> pubnonce[i].k2]) \in Scalars
         /\ NonceSum(pubnonce, b) \in Scalars
<1>1. /\ [i \in Positions |-> pubnonce[i].k1] \in [Positions -> Scalars]
      /\ [i \in Positions |-> pubnonce[i].k2] \in [Positions -> Scalars]
  BY DEF NonceRecords
<1>2. /\ SumOf([i \in Positions |-> pubnonce[i].k1]) \in Scalars
      /\ SumOf([i \in Positions |-> pubnonce[i].k2]) \in Scalars
  BY <1>1, PositionsFinite, SumType
<1> QED BY <1>1, <1>2, TimesComm, PlusComm DEF NonceSum

\* The nonce terms add up to the session's R, before it is replaced.
LEMMA NonceTermsSum ==
  ASSUME pubnonce \in [Positions -> NonceRecords], session \in SessionRecords
  PROVE  /\ NonceTerms \in [Positions -> Scalars]
         /\ SumOf(NonceTerms) = SignedBy(session.R_negated, NonceSum(pubnonce, session.b))
<1> DEFINE F == [i \in Positions |-> pubnonce[i].k1]
           G == [i \in Positions |-> pubnonce[i].k2]
           bG == [i \in Positions |-> Times(session.b, G[i])]
           K == [i \in Positions |-> Plus(F[i], bG[i])]
           n == session.R_negated
<1>1. session.b \in Scalars /\ n \in BOOLEAN
  BY DEF SessionRecords
<1>2. F \in [Positions -> Scalars] /\ G \in [Positions -> Scalars]
  BY <1>1, NonceSumType
<1>3. NonceTerms = [i \in Positions |-> SignedBy(n, K[i])]
  BY DEF NonceTerms, NonceTerm
<1> HIDE DEF F, G, n
<1>4. bG \in [Positions -> Scalars]
  BY <1>1, <1>2, TimesComm
<1>5. SumOf(bG) = Times(session.b, SumOf(G))
  BY <1>1, <1>2, PositionsFinite, SumTimes
<1> HIDE DEF bG
<1>6. K \in [Positions -> Scalars]
  BY <1>2, <1>4, PlusComm
<1>7. SumOf(K) = Plus(SumOf(F), SumOf(bG))
  BY <1>2, <1>4, PositionsFinite, SumPlus
<1> HIDE DEF K
<1>8. NonceTerms \in [Positions -> Scalars]
  BY <1>1, <1>3, <1>6, Signs
<1>9. SumOf(NonceTerms) = SignedBy(n, SumOf(K))
  BY <1>1, <1>3, <1>6, PositionsFinite, SumSigned
<1>10. NonceSum(pubnonce, session.b) = SumOf(K)
  BY <1>5, <1>7 DEF NonceSum, F, G
<1> QED BY <1>8, <1>9, <1>10 DEF n

\* e * a * g * x * gacc, with the sign moved to gacc and a * x put together.
LEMMA KeyTermAs ==
  ASSUME NEW r \in Scalars, NEW k \in Scalars, NEW s \in BOOLEAN, NEW x \in Scalars,
         NEW y \in Scalars
  PROVE  /\ Times(Times(r, k), Times(SignedBy(s, x), y))
               = Times(Times(r, SignedBy(s, y)), Times(k, x))
         /\ Times(Times(r, SignedBy(s, y)), Times(k, x)) \in Scalars
<1> DEFINE h == SignedBy(s, y)
<1>1. h \in Scalars /\ SignedBy(s, x) \in Scalars
  BY Signs
<1>2. Times(SignedBy(s, x), y) = Times(x, h)
  BY Signs
<1> HIDE DEF h
<1>3. /\ Times(x, h) \in Scalars /\ Times(x, h) = Times(h, x) /\ Times(h, x) \in Scalars
      /\ Times(k, x) \in Scalars /\ Times(k, h) \in Scalars /\ Times(h, k) = Times(k, h)
      /\ Times(r, h) \in Scalars
  BY <1>1, TimesComm
<1>4. Times(Times(r, k), Times(h, x)) = Times(r, Times(k, Times(h, x)))
  BY <1>3, TimesAssoc
<1>5. Times(k, Times(h, x)) = Times(Times(k, h), x)
  BY <1>1, TimesAssoc
<1>6. Times(Times(h, k), x) = Times(h, Times(k, x))
  BY <1>1, TimesAssoc
<1>7. Times(r, Times(h, Times(k, x))) = Times(Times(r, h), Times(k, x))
  BY <1>1, <1>3, TimesAssoc
<1>8. Times(Times(r, h), Times(k, x)) \in Scalars
  BY <1>3, TimesComm
<1> QED BY <1>2, <1>3, <1>4, <1>5, <1>6, <1>7, <1>8 DEF h

\* The key terms and the tweak's own add up to e times the even-Y aggregate.
LEMMA KeyTermsSum ==
  ASSUME IInv, ctx # NoCtx, session \in SessionRecords
  PROVE  /\ KeyTerms \in [Positions -> Scalars]
         /\ Plus(SumOf(KeyTerms), TweakTerm(ctx, session.e)) = Times(session.e, ctx.Q)
         /\ TweakTerm(ctx, session.e) \in Scalars
         /\ Times(session.e, ctx.Q) \in Scalars
<1> DEFINE e == session.e
           n == ctx.Q_negated
           gn == SignedBy(n, ctx.gacc)
           tn == SignedBy(n, ctx.tacc)
           W == [i \in Positions |-> Times(ctx.coef[i], d[i])]
           c == Times(e, gn)
<1>1. e \in Scalars
  BY DEF SessionRecords
<1>2. /\ n \in BOOLEAN /\ ctx.tacc \in Scalars /\ ctx.gacc \in Scalars /\ ctx.Q \in Scalars
      /\ ctx.coef \in [Positions -> Scalars] /\ d \in [Positions -> Scalars]
      /\ Actual(ctx) \in Scalars /\ ctx.Q = SignedBy(n, Actual(ctx))
      /\ Actual(ctx) = Plus(Times(ctx.gacc, SumOf(W)), ctx.tacc)
  BY CtxFacts DEF Exact, KeySum
<1>3. W \in [Positions -> Scalars]
  BY <1>2, TimesComm
<1>4. gn \in Scalars /\ tn \in Scalars
  BY <1>2, Signs
<1>5. c \in Scalars
  BY <1>1, <1>4, TimesComm
<1>6. \A i \in Positions :
         /\ KeyTerm(ctx, session, i, d[i]) = Times(c, W[i])
         /\ KeyTerm(ctx, session, i, d[i]) \in Scalars
  <2> SUFFICES ASSUME NEW i \in Positions
               PROVE  /\ KeyTerm(ctx, session, i, d[i]) = Times(c, W[i])
                      /\ KeyTerm(ctx, session, i, d[i]) \in Scalars
    OBVIOUS
  <2>1. ctx.coef[i] \in Scalars /\ d[i] \in Scalars
    BY <1>2
  <2>2. KeyTerm(ctx, session, i, d[i])
          = Times(Times(e, ctx.coef[i]), Times(SignedBy(n, d[i]), ctx.gacc))
    BY DEF KeyTerm
  <2>3. W[i] = Times(ctx.coef[i], d[i])
    OBVIOUS
  <2> HIDE DEF e, n, W
  <2>4. /\ Times(Times(e, ctx.coef[i]), Times(SignedBy(n, d[i]), ctx.gacc))
              = Times(c, Times(ctx.coef[i], d[i]))
        /\ Times(c, Times(ctx.coef[i], d[i])) \in Scalars
    <3>1. PICK s \in BOOLEAN : s = n
      BY <1>2
    <3>2. PICK a \in Scalars : a = ctx.coef[i]
      BY <2>1
    <3>3. PICK x \in Scalars : x = d[i]
      BY <2>1
    <3>4. PICK g \in Scalars : g = ctx.gacc
      BY <1>2
    <3>5. PICK r \in Scalars : r = e
      BY <1>1
    <3>6. /\ Times(Times(r, a), Times(SignedBy(s, x), g)) = Times(Times(r, SignedBy(s, g)), Times(a, x))
          /\ Times(Times(r, SignedBy(s, g)), Times(a, x)) \in Scalars
      BY KeyTermAs
    <3> QED BY <3>1, <3>2, <3>3, <3>4, <3>5, <3>6
  <2> QED BY <2>2, <2>3, <2>4
<1> HIDE DEF W, c, gn, tn, e, n
<1>7. KeyTerms = [i \in Positions |-> Times(c, W[i])] /\ KeyTerms \in [Positions -> Scalars]
  BY <1>6 DEF KeyTerms
<1>8. SumOf(KeyTerms) = Times(c, SumOf(W)) /\ SumOf(W) \in Scalars
  BY <1>3, <1>5, <1>7, PositionsFinite, SumTimes, SumType
<1>9. Times(c, SumOf(W)) = Times(e, Times(gn, SumOf(W))) /\ Times(gn, SumOf(W)) \in Scalars
  BY <1>1, <1>4, <1>8, TimesAssoc, TimesComm DEF c
<1>10. Plus(Times(e, Times(gn, SumOf(W))), Times(e, tn)) = Times(e, Plus(Times(gn, SumOf(W)), tn))
  BY <1>1, <1>4, <1>9, Distribute
<1>11. ctx.Q = Plus(Times(gn, SumOf(W)), tn)
  <2>1. Times(ctx.gacc, SumOf(W)) \in Scalars
    BY <1>2, <1>8, TimesComm
  <2>2. ctx.Q = Plus(SignedBy(n, Times(ctx.gacc, SumOf(W))), tn)
    BY <1>2, <2>1, Signs DEF tn
  <2>3. SignedBy(n, Times(ctx.gacc, SumOf(W))) = Times(gn, SumOf(W))
    BY <1>2, <1>8, Signs DEF gn
  <2> QED BY <2>2, <2>3
<1>12. TweakTerm(ctx, e) = Times(e, tn) /\ Times(e, tn) \in Scalars /\ Times(e, ctx.Q) \in Scalars
  BY <1>1, <1>2, <1>4, TimesComm DEF TweakTerm, tn, n
<1> QED BY <1>7, <1>8, <1>9, <1>10, <1>11, <1>12 DEF e

\* musig2_start_sign_session: R is the even-Y twin of the nonces' sum.
LEMMA StartSessionKeeps ==
  ASSUME IInv, NEW b \in NonceHashes, NEW e \in Challenges, StartSession(b, e)
  PROVE  IInv'
<1> DEFINE sum == NonceSum(pubnonce, b)
           R == IF sum = 0 THEN 1 ELSE sum
<1>1. /\ session = NoSession
      /\ \A i \in Positions : pubnonce[i] # Erased
      /\ session' = [R |-> SignedBy(~EvenY(R), R), R_negated |-> ~EvenY(R), b |-> b, e |-> e,
                     tweak_s |-> TweakTerm(ctx, e), substituted |-> sum = 0]
      /\ UNCHANGED <<d, ctx, nonce, pubnonce, psig, sig, stale>>
  BY DEF StartSession, NonceSum
<1>2. b \in Scalars /\ e \in Scalars /\ pubnonce \in [Positions -> NonceRecords]
  BY InputsAssumption DEF IInv, Records
<1>14. ctx # NoCtx
  BY <1>1, SignersAssumption DEF IInv, Phases, Positions
<1>3. sum \in Scalars
  BY <1>2, NonceSumType
<1> HIDE DEF sum
<1>4. R \in Scalars /\ R # 0 /\ (sum # 0 => R = sum)
  BY <1>3 DEF Scalars
<1> HIDE DEF R
<1>5. /\ EvenY(SignedBy(~EvenY(R), R)) /\ SignedBy(~EvenY(R), R) \in Scalars
      /\ (~EvenY(R)) \in BOOLEAN /\ (sum = 0) \in BOOLEAN
  BY <1>4, Evens DEF EvenY
<1>6. TweakTerm(ctx, e) \in Scalars
  <2>1. ctx.Q_negated \in BOOLEAN /\ ctx.tacc \in Scalars
    BY <1>14, CtxFacts
  <2> QED BY <1>2, <2>1, Signs, TimesComm DEF TweakTerm
<1>7. /\ session'.R = SignedBy(~EvenY(R), R) /\ session'.R_negated = ~EvenY(R)
      /\ session'.b = b /\ session'.e = e /\ session'.tweak_s = TweakTerm(ctx, e)
      /\ session'.substituted = (sum = 0)
  BY <1>1
<1>8. session' \in SessionRecords
  BY <1>1, <1>2, <1>5, <1>6 DEF SessionRecords
<1>9. sig = NoSig /\ \A i \in Positions : psig[i] = 0
  BY <1>1 DEF IInv, Phases, Honest
<1>10. TypeOK' /\ Records'
  <2>1. EvenY(session'.R) /\ session'.tweak_s \in Scalars
    BY <1>5, <1>6, <1>7
  <2> QED BY <1>1, <1>8, <2>1 DEF IInv, TypeOK, Records
<1>11. Started'
  <2>1. session'.tweak_s = TweakTerm(ctx', session'.e)
    BY <1>1, <1>7
  <2>2. ~session'.substituted =>
           session'.R = SignedBy(session'.R_negated, NonceSum(pubnonce', session'.b))
    BY <1>1, <1>4, <1>7 DEF sum
  <2> QED BY <1>1, <1>14, <2>1, <2>2 DEF Started
<1>12. Honest' /\ Phases' /\ AggregateVerifies'
  BY <1>1, <1>9 DEF IInv, Honest, Phases, AggregateVerifies
<1>13. AccumulatorsExact'
  BY <1>1 DEF IInv, AccumulatorsExact
<1> QED BY <1>10, <1>11, <1>12, <1>13 DEF IInv

\* The term of any nonce, also of an erased one, is a scalar.
LEMMA NonceTermType ==
  ASSUME session \in SessionRecords, NEW k \in NonceRecords
  PROVE  NonceTerm(session, k) \in Scalars
<1>1. session.b \in Scalars /\ session.R_negated \in BOOLEAN
  BY DEF SessionRecords
<1>2. k.k1 \in Scalars /\ k.k2 \in Scalars
  BY DEF NonceRecords
<1>3. Plus(k.k1, Times(session.b, k.k2)) \in Scalars
  BY <1>1, <1>2, TimesComm, PlusComm
<1> QED BY <1>1, <1>3, Signs DEF NonceTerm

\* What is computed for a signer: a scalar, and the signature that it should be if
\* the nonce is still the published one.
LEMMA SignatureFacts ==
  ASSUME IInv, session # NoSession, NEW i \in Positions, NEW sk, OwnKey(i, sk)
  PROVE  /\ Signature(i, sk, nonce[i]) \in Scalars
         /\ Signature(i, sk, nonce[i]) # 0 /\ nonce[i] # Erased =>
               Signature(i, sk, nonce[i])
                 = Plus(NonceTerm(session, pubnonce[i]), KeyTerm(ctx, session, i, d[i]))
<1> DEFINE R == NonceTerm(session, nonce[i])
           K == KeyTerm(ctx, session, i, d[i])
<1>1. /\ sk = d[i] /\ ctx # NoCtx /\ session \in SessionRecords
      /\ pubnonce \in [Positions -> NonceRecords] /\ nonce[i] \in {Erased, pubnonce[i]}
  BY DEF IInv, Records, Started, Honest, OwnKey
<1>2. 0 \in Scalars /\ Erased \in NonceRecords
  BY DEF Scalars, Erased, NonceRecords
<1>3. R \in Scalars
  BY <1>1, <1>2, NonceTermType
<1>4. K \in Scalars
  <2>1. KeyTerms \in [Positions -> Scalars]
    BY <1>1, KeyTermsSum
  <2> QED BY <2>1 DEF KeyTerms
<1>5. Signature(i, sk, nonce[i]) = IF session.e = 0 THEN 0 ELSE Plus(R, K)
  BY <1>1 DEF Signature
<1>6. nonce[i] # Erased => R = NonceTerm(session, pubnonce[i])
  BY <1>1
<1> HIDE DEF R, K
<1>7. Plus(R, K) \in Scalars
  BY <1>3, <1>4, PlusComm
<1> QED BY <1>2, <1>5, <1>6, <1>7 DEF K

\* What both ways of signing keep: the nonce is erased or left, and the answer, if
\* there is one, is a scalar, and right unless the signer is stale.
LEMMA SigningKeeps ==
  ASSUME IInv, session # NoSession, NEW i \in Positions, NEW p \in Scalars,
         nonce' \in {nonce, [nonce EXCEPT ![i] = Erased]},
         psig' = [psig EXCEPT ![i] = p],
         stale' \in SUBSET Positions, stale \subseteq stale',
         p # 0 /\ i \notin stale' =>
            p = Plus(NonceTerm(session, pubnonce[i]), KeyTerm(ctx, session, i, d[i])),
         UNCHANGED <<d, ctx, pubnonce, session, sig>>
  PROVE  IInv'
<1>1. Records' /\ Started' /\ Phases' /\ AccumulatorsExact'
  BY DEF IInv, Records, Started, Phases, AccumulatorsExact
<1>2. AggregateVerifies'
  <2>1. stale' = {} => stale = {}
    OBVIOUS
  <2> QED BY <2>1 DEF IInv, AggregateVerifies
<1>3. /\ nonce \in [Positions -> Nonces \cup {Erased}]
      /\ psig \in [Positions -> Scalars]
  BY DEF IInv, TypeOK
<1>4. TypeOK'
  <2>1. nonce' \in [Positions -> Nonces \cup {Erased}] /\ psig' \in [Positions -> Scalars]
    BY <1>3
  <2> QED BY <2>1 DEF IInv, TypeOK
<1>5. Honest'
  <2>1. \A j \in Positions : nonce'[j] \in {Erased, pubnonce[j]}
    BY <1>3 DEF IInv, Honest
  <2>2. \A j \in Positions : psig'[j] # 0 /\ j \notin stale' =>
           psig'[j] = Plus(NonceTerm(session, pubnonce[j]), KeyTerm(ctx, session, j, d[j]))
    BY <1>3 DEF IInv, Honest
  <2> QED BY <2>1, <2>2 DEF Honest
<1> QED BY <1>1, <1>2, <1>4, <1>5 DEF IInv

\* musig2_partial_sign: the nonce is the published one, or the signer becomes stale.
LEMMA PartialSignKeeps ==
  ASSUME IInv, NEW i \in Positions, NEW sk \in 1 .. (q - 1), PartialSign(i, sk)
  PROVE  IInv'
<1>1. session # NoSession /\ UNCHANGED <<d, ctx, pubnonce, session, sig>>
  BY DEF PartialSign
<1>2. psig \in [Positions -> Scalars] /\ stale \in SUBSET Positions
  BY DEF IInv, TypeOK
<1>3. CASE ~OwnKey(i, sk)
  <2>1. UNCHANGED <<nonce, psig, stale>>
    BY <1>3 DEF PartialSign
  <2>2. psig' = [psig EXCEPT ![i] = psig[i]] /\ psig[i] \in Scalars
    BY <1>2, <2>1
  <2>3. psig[i] # 0 /\ i \notin stale' =>
           psig[i] = Plus(NonceTerm(session, pubnonce[i]), KeyTerm(ctx, session, i, d[i]))
    BY <2>1 DEF IInv, Honest
  <2> QED BY <1>1, <1>2, <2>1, <2>2, <2>3, SigningKeeps
<1>4. CASE OwnKey(i, sk)
  <2> DEFINE p == Signature(i, sk, nonce[i])
  <2>1. /\ nonce' = [nonce EXCEPT ![i] = Erased] /\ psig' = [psig EXCEPT ![i] = p]
        /\ stale' = stale \cup (IF nonce[i] = Erased THEN {i} ELSE {})
    BY <1>4 DEF PartialSign
  <2>2. /\ p \in Scalars
        /\ p # 0 /\ nonce[i] # Erased =>
             p = Plus(NonceTerm(session, pubnonce[i]), KeyTerm(ctx, session, i, d[i]))
    BY <1>1, <1>4, SignatureFacts
  <2> HIDE DEF p
  <2>3. stale' \in SUBSET Positions /\ stale \subseteq stale' /\ (i \notin stale' => nonce[i] # Erased)
    BY <1>2, <2>1
  <2> QED BY <1>1, <2>1, <2>2, <2>3, SigningKeeps
<1> QED BY <1>3, <1>4

\* ufsecp_musig2_partial_sign_v2: only a nonce that is not spent makes a signature.
LEMMA PartialSignV2Keeps ==
  ASSUME IInv, NEW i \in Positions, NEW sk \in 1 .. (q - 1), PartialSignV2(i, sk)
  PROVE  IInv'
<1>1. /\ session # NoSession /\ UNCHANGED <<d, ctx, pubnonce, session, sig, stale>>
      /\ nonce' = [nonce EXCEPT ![i] = Erased]
  BY DEF PartialSignV2
<1>2. psig \in [Positions -> Scalars] /\ stale \in SUBSET Positions
  BY DEF IInv, TypeOK
<1>3. CASE OwnKey(i, sk) /\ Unspent(nonce[i])
  <2> DEFINE p == Signature(i, sk, nonce[i])
  <2>1. psig' = [psig EXCEPT ![i] = p]
    BY <1>3 DEF PartialSignV2
  <2>2. nonce[i] # Erased
    BY <1>3 DEF Unspent, Erased
  <2>3. p \in Scalars
        /\ (p # 0 => p = Plus(NonceTerm(session, pubnonce[i]), KeyTerm(ctx, session, i, d[i])))
    BY <1>1, <1>3, <2>2, SignatureFacts
  <2> HIDE DEF p
  <2> QED BY <1>1, <1>2, <2>1, <2>3, SigningKeeps
<1>4. CASE ~(OwnKey(i, sk) /\ Unspent(nonce[i]))
  <2>1. UNCHANGED psig
    BY <1>4 DEF PartialSignV2
  <2>2. psig' = [psig EXCEPT ![i] = psig[i]] /\ psig[i] \in Scalars
    BY <1>2, <2>1
  <2>3. psig[i] # 0 /\ i \notin stale =>
           psig[i] = Plus(NonceTerm(session, pubnonce[i]), KeyTerm(ctx, session, i, d[i]))
    BY DEF IInv, Honest
  <2> QED BY <1>1, <1>2, <2>2, <2>3, SigningKeeps
<1> QED BY <1>3, <1>4

\* musig2_partial_sig_agg: R's part and the challenge's part of the sum.
LEMMA AggregateKeeps ==
  ASSUME IInv, Aggregate
  PROVE  IInv'
<1> DEFINE t == session.tweak_s
           e == session.e
           SN == SumOf(NonceTerms)
           SK == SumOf(KeyTerms)
           eQ == Times(e, ctx.Q)
           s == Plus(SumOf(psig), t)
<1>1. /\ session # NoSession
      /\ \A i \in Positions : psig[i] # 0
      /\ sig' = [s |-> s, R |-> session.R]
      /\ UNCHANGED <<d, ctx, nonce, pubnonce, session, psig, stale>>
  BY DEF Aggregate
<1>2. /\ ctx # NoCtx /\ session \in SessionRecords /\ pubnonce \in [Positions -> NonceRecords]
      /\ psig \in [Positions -> Scalars] /\ t = TweakTerm(ctx, e) /\ EvenY(session.R)
      /\ ~session.substituted => session.R = SignedBy(session.R_negated, NonceSum(pubnonce, session.b))
  BY <1>1 DEF IInv, Records, Started, TypeOK
<1>3. NonceTerms \in [Positions -> Scalars] /\ KeyTerms \in [Positions -> Scalars]
  BY <1>2, NonceTermsSum, KeyTermsSum
<1>4. SN \in Scalars /\ SK \in Scalars
  BY <1>3, PositionsFinite, SumType
<1>5. ~session.substituted => SN = session.R
  BY <1>2, NonceTermsSum
<1>6. Plus(SK, t) = eQ /\ t \in Scalars /\ eQ \in Scalars
  BY <1>2, KeyTermsSum
<1>7. stale = {} => SumOf(psig) = Plus(SN, SK)
  <2> SUFFICES ASSUME stale = {} PROVE SumOf(psig) = Plus(SN, SK)
    OBVIOUS
  <2>1. \A i \in Positions : psig[i] = Plus(NonceTerms[i], KeyTerms[i])
    BY <1>1 DEF IInv, Honest, NonceTerms, KeyTerms
  <2>2. psig = [i \in Positions |-> Plus(NonceTerms[i], KeyTerms[i])]
    BY <1>2, <2>1
  <2> QED BY <1>3, <2>2, PositionsFinite, SumPlus
<1> HIDE DEF SN, SK, eQ, t
<1>8. Plus(SN, eQ) \in Scalars /\ Neg(eQ) \in Scalars
  BY <1>4, <1>6, PlusComm, NegMod
<1>9. stale = {} => s = Plus(SN, eQ)
  BY <1>4, <1>6, <1>7, PlusAssoc
<1>10. s \in Scalars
  <2>1. SumOf(psig) \in Scalars
    BY <1>2, PositionsFinite, SumType
  <2> QED BY <1>6, <2>1, PlusComm
<1>11. stale = {} => Plus(s, Neg(eQ)) = SN
  BY <1>4, <1>6, <1>8, <1>9, PlusAssoc, PlusNeg, PlusZero
<1> HIDE DEF s
<1>12. sig'.s = s /\ sig'.R = session.R
  BY <1>1
<1>13. AggregateVerifies'
  BY <1>1, <1>2, <1>5, <1>11, <1>12 DEF AggregateVerifies, eQ
<1>14. TypeOK' /\ Phases'
  BY <1>1, <1>10, <1>12 DEF IInv, TypeOK, Phases
<1>15. Records' /\ Started' /\ Honest' /\ AccumulatorsExact'
  BY <1>1 DEF IInv, Records, Started, Honest, AccumulatorsExact
<1> QED BY <1>13, <1>14, <1>15 DEF IInv

\* The inductive invariant.
THEOREM Inductive == Spec => []IInv
<1>1. Init => IInv
  BY InitInv
<1>2. IInv /\ [Next]_vars => IInv'
  <2> SUFFICES ASSUME IInv, [Next]_vars PROVE IInv'
    OBVIOUS
  <2>1. ASSUME NEW hash \in [Positions -> KeyHashes], KeyAgg(hash) PROVE IInv'
    BY <2>1, KeyAggKeeps
  <2>2. ASSUME NEW t \in Tweaks, EcTweak(t) PROVE IInv'
    BY <2>2, EcTweakKeeps
  <2>3. ASSUME NEW t \in Tweaks, XonlyTweak(t) PROVE IInv'
    BY <2>3, XonlyTweakKeeps
  <2>4. ASSUME NEW i \in Positions, NEW k \in Nonces, NonceGen(i, k) PROVE IInv'
    BY <2>4, NonceGenKeeps
  <2>5. ASSUME NEW b \in NonceHashes, NEW e \in Challenges, StartSession(b, e) PROVE IInv'
    BY <2>5, StartSessionKeeps
  <2>6. ASSUME NEW i \in Positions, NEW sk \in 1 .. (q - 1), PartialSign(i, sk) PROVE IInv'
    BY <2>6, PartialSignKeeps
  <2>7. ASSUME NEW i \in Positions, NEW sk \in 1 .. (q - 1), PartialSignV2(i, sk) PROVE IInv'
    BY <2>7, PartialSignV2Keeps
  <2>8. CASE Aggregate
    BY <2>8, AggregateKeeps
  <2>9. CASE UNCHANGED vars
    BY <2>9 DEF vars, IInv, TypeOK, Records, Started, Honest, Phases,
                AccumulatorsExact, AggregateVerifies
  <2> QED BY <2>1, <2>2, <2>3, <2>4, <2>5, <2>6, <2>7, <2>8, <2>9 DEF Next
<1> QED BY <1>1, <1>2, PTL DEF Spec

\* In every reachable state the recorded values have their types, and aggregate
\* and effective nonce have even Y.
THEOREM Types == Spec => []TypeOK
  BY Inductive, PTL DEF IInv

\* The accumulators of the two tweak functions describe the aggregate after any
\* series of tweaks, for any number of signers.
THEOREM AccumulatorsHold == Spec => []AccumulatorsExact
  BY Inductive, PTL DEF IInv

\* The aggregate signature is a BIP-340 signature of the even-Y aggregate, for any
\* keys, repeated ones too, and any tweaks, if nobody has called musig2_partial_sign
\* with a nonce it had consumed.
THEOREM SignatureVerifies == Spec => []AggregateVerifies
  BY Inductive, PTL DEF IInv

\* What ufsecp_musig2_partial_sign_v2 returns, musig2_partial_verify accepts, and so
\* it does what musig2_partial_sign makes of a nonce that it has not consumed.
THEOREM PartialsAccepted == Spec => []PartialsVerify
<1>1. IInv => PartialsVerify
  BY DEF IInv, Honest, PartialsVerify, PartialVerify
<1> QED BY <1>1, Inductive, PTL
===============================================================================
