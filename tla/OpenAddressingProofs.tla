----------------------- MODULE OpenAddressingProofs -----------------------
(***************************************************************************)
(* Facts about OpenAddressing that the proofs about both tables rest on.   *)
(***************************************************************************)
EXTENDS OpenAddressing, MCHashing, NaturalFacts, FiniteSetTheorems, TLAPS

Sizes == 1 .. MaxSize

(***************************************************************************)
(* Arithmetic of the helpers.                                              *)
(***************************************************************************)

(* A probe of a table whose squared size fits in an int does not overflow    *)
(* and stays in the table.                                                   *)
LEMMA ProbeIs ==
    ASSUME NEW k \in Keys, NEW n \in Sizes, NEW i \in Slots(n)
    PROVE  /\ hash_func(k, n, i) = ((djb2[k] % n) + i * (sdbm[k] % n)) % n
           /\ hash_func(k, n, i) \in Slots(n)
           /\ djb2[k] % n \in Slots(n) /\ sdbm[k] % n \in Slots(n)
<1> DEFINE a == djb2[k] % n
           b == sdbm[k] % n
           x == a + i * b
<1>1. a \in 0 .. (n - 1) /\ b \in 0 .. (n - 1) /\ i \in 0 .. (n - 1) /\ n \in Nat
  BY HashAssumption, TableAssumption DEF Slots, Sizes
<1>2. i * b \in Nat /\ i * b <= (n - 1) * (n - 1)
  <2> HIDE DEF a, b
  <2>1. i * b <= (n - 1) * b
    BY <1>1
  <2>2. (n - 1) * b <= (n - 1) * (n - 1)
    BY <1>1
  <2>3. i * b >= 0
    BY <1>1
  <2> QED  BY <1>1, <2>1, <2>2, <2>3
<1>3. n * n <= MaxSize * MaxSize
  <2>1. n * n <= n * MaxSize
    BY <1>1, TableAssumption DEF Sizes
  <2>2. n * MaxSize <= MaxSize * MaxSize
    BY <1>1, TableAssumption DEF Sizes
  <2> QED  BY <1>1, <2>1, <2>2, TableAssumption
<1>4. x \in 0 .. IntMax
  <2> HIDE DEF a, b
  <2>1. (n - 1) + (n - 1) * (n - 1) <= n * n
    BY <1>1
  <2>2. (n - 1) * (n - 1) \in Nat /\ n * n \in Nat /\ MaxSize * MaxSize \in Nat
    BY <1>1, TableAssumption DEF Sizes
  <2> DEFINE p == i * b
             m == (n - 1) * (n - 1)
             q == n * n
             r == MaxSize * MaxSize
  <2>3. p \in Nat /\ m \in Nat /\ q \in Nat /\ r \in Nat /\ p <= m
        /\ (n - 1) + m <= q /\ q <= r /\ r <= IntMax
    BY <1>2, <1>3, <2>1, <2>2, TableAssumption
  <2> HIDE DEF p, m, q, r
  <2>4. a + p \in 0 .. IntMax
    BY <1>1, <2>3, IntAssumption
  <2> QED  BY <2>4 DEF p
<1>5. ToInt(x) = x
  <2> HIDE DEF x
  <2> QED  BY <1>4, IntAssumption DEF ToInt
<1>6. x % n \in 0 .. (n - 1)
  <2> HIDE DEF x
  <2> QED  BY <1>1, <1>4, HashAssumption
<1>7. hash_func(k, n, i) = x % n
  <2>1. hash_func(k, n, i) = CRem(ToInt(x), n)
    BY DEF hash_func, Step
  <2> HIDE DEF x
  <2> QED  BY <2>1, <1>4, <1>5, HashAssumption DEF CRem
<1>8. a \in Slots(n) /\ b \in Slots(n) /\ x % n \in Slots(n)
  <2> HIDE DEF a, b, x
  <2> QED  BY <1>1, <1>6 DEF Slots
<1> QED  BY <1>7, <1>8

LEMMA ProbeStaysInTable ==
    ASSUME NEW k \in Keys, NEW n \in Sizes, NEW i \in Slots(n)
    PROVE  hash_func(k, n, i) \in Slots(n)
BY ProbeIs

(* next_prime returns a number between its argument and twice that. *)
LEMMA NextPrimeBounds ==
    ASSUME NEW n \in 2 .. 2 * MaxSize
    PROVE  next_prime(n) \in n .. 2 * n
<1>1. \E p \in n .. 2 * n : IsNextPrime(n, p)
  BY PrimeAssumption
<1>2. (CHOOSE p \in n .. 2 * n : IsNextPrime(n, p)) \in n .. 2 * n
  BY <1>1, Zenon
<1>3. ~ (n < 2)
  BY TableAssumption
<1> QED  BY <1>2, <1>3 DEF next_prime

(* The integer division of the load computation, as a multiplication. *)
LEMMA LoadBound ==
    ASSUME NEW u \in Nat, NEW n \in Nat \ {0}
    PROVE  /\ Load(u, n) \in Nat
           /\ Load(u, n) <= 70 <=> u * 100 < 71 * n
           /\ Load(u, n) < 10 <=> u * 100 < 10 * n
<1> DEFINE q == (u * 100) \div n
           r == (u * 100) % n
<1>1. q \in Nat /\ r \in 0 .. (n - 1) /\ u * 100 = q * n + r
  OBVIOUS
<1>2. Load(u, n) = q
  BY DEF Load
<1> HIDE DEF q, r
<1>3. ASSUME NEW m \in Nat
      PROVE  q <= m <=> u * 100 < (m + 1) * n
  <2>1. CASE q <= m
    <3>1. q * n <= m * n
      BY <1>1, <2>1
    <3> QED  BY <2>1, <3>1, <1>1
  <2>2. CASE q >= m + 1
    <3>1. q * n >= (m + 1) * n
      BY <1>1, <2>2
    <3> QED  BY <2>2, <3>1, <1>1
  <2> QED  BY <1>1, <2>1, <2>2
<1>4. q <= 70 <=> u * 100 < (70 + 1) * n
  BY <1>3
<1>5. q <= 9 <=> u * 100 < (9 + 1) * n
  BY <1>3
<1> QED  BY <1>1, <1>2, <1>4, <1>5

(* The simple facts about the constants. *)
LEMMA ConstantFacts ==
    /\ HT_BASE_SIZE \in Nat /\ HT_BASE_SIZE >= 2
    /\ MaxSize \in Nat /\ MaxSize >= 2 * HT_BASE_SIZE
    /\ NULL # DELETED /\ NULL \notin Keys /\ DELETED \notin Keys
BY TableAssumption

(* The live slots of a table are a finite set, no larger than the table. *)
LEMMA LiveSlotsFinite ==
    ASSUME NEW n \in Nat, NEW tab
    PROVE  /\ IsFiniteSet(LiveSlots(tab, n))
           /\ Cardinality(LiveSlots(tab, n)) \in Nat
           /\ Cardinality(LiveSlots(tab, n)) <= n
<1>1. IsFiniteSet(Slots(n)) /\ Cardinality(Slots(n)) = n
  BY FS_Interval DEF Slots
<1>2. LiveSlots(tab, n) \subseteq Slots(n)
  BY DEF LiveSlots
<1> QED  BY <1>1, <1>2, FS_Subset, FS_CardinalityType

(* Doubling a table of at least two slots leaves it below the load limit,    *)
(* and so does halving one that holds less than a tenth of its slots.        *)
LEMMA RoomAfterGrowing ==
    ASSUME NEW u \in Nat, NEW n \in Nat, NEW m \in Nat,
           n >= 2, u * 100 < 71 * n, m >= 2 * n
    PROVE  (u + 1) * 100 < 71 * m
OBVIOUS

(* The same for a table that is halved. *)
LEMMA RoomAfterShrinking ==
    ASSUME NEW u \in Nat, NEW n \in Nat, NEW half \in Nat, NEW m \in Nat,
           n >= 2, n <= 2 * half + 1, m >= half, u * 100 < 10 * n
    PROVE  u * 100 < 71 * m
OBVIOUS

(* What fits under the load limit still fits when it gets fewer. *)
LEMMA FewerFit ==
    ASSUME NEW u \in Nat, NEW w \in Nat, NEW n \in Nat, u <= w, w * 100 < 71 * n
    PROVE  u * 100 < 71 * n
OBVIOUS

(* helper.c's hash_func never indexes outside a table whose squared size is  *)
(* an int, whatever the string hashes of the key are.                        *)
THEOREM ProbesStayInTable ==
    \A k \in Keys, n \in Sizes : \A i \in Slots(n) : hash_func(k, n, i) \in Slots(n)
BY ProbeStaysInTable

-----------------------------------------------------------------------------
(* Divisibility. *)
Divides(d, x) == \E c \in Int : x = c * d

LEMMA DividesIsRem ==
    ASSUME NEW d \in Nat \ {0}, NEW x \in Int
    PROVE  Divides(d, x) <=> x % d = 0
<1> DEFINE q == x \div d
           r == x % d
<1>1. q \in Int /\ r \in 0 .. d - 1 /\ x = q * d + r
  OBVIOUS
<1> HIDE DEF q, r
<1>2. ASSUME r = 0 PROVE Divides(d, x)
  BY <1>1, <1>2 DEF Divides
<1>3. ASSUME NEW c \in Int, x = c * d PROVE r = 0
  <2>1. PICK t \in Int : t = c - q
    BY <1>1
  <2>2. t * d = r
    BY <1>1, <1>3, <2>1
  <2>3. CASE t >= 1
    <3>1. t * d >= d
      BY <2>3
    <3> QED  BY <1>1, <2>2, <3>1
  <2>4. CASE t <= -1
    <3>1. t * d <= -d
      BY <2>4
    <3> QED  BY <1>1, <2>2, <3>1
  <2>5. CASE t = 0
    BY <2>2, <2>5
  <2> QED  BY <2>1, <2>3, <2>4, <2>5
<1> QED  BY <1>2, <1>3 DEF Divides, r

LEMMA EqualRems ==
    ASSUME NEW d \in Nat \ {0}, NEW x \in Int, NEW y \in Int, x % d = y % d
    PROVE  Divides(d, x - y)
<1> DEFINE q == x \div d
           w == y \div d
           r == x % d
<1>1. q \in Int /\ w \in Int /\ r \in Int /\ x = q * d + r /\ y = w * d + r
  OBVIOUS
<1> HIDE DEF q, w, r
<1>2. x - y = (q - w) * d /\ q - w \in Int
  BY <1>1
<1> QED  BY <1>2 DEF Divides

(* A prime divides no product of two numbers that it does not divide: the    *)
(* least multiplier m of b with a multiple of p divides p, so it is 1.       *)
LEMMA PrimesDivideNoProduct ==
    ASSUME NEW p \in Nat, Prime(p), NEW a \in 1 .. p - 1, NEW b \in 1 .. p - 1
    PROVE  ~ Divides(p, a * b)
<1> SUFFICES ASSUME Divides(p, a * b) PROVE FALSE
  OBVIOUS
<1>1. p \in Nat \ {0} /\ p > 1
  BY DEF Prime
<1> DEFINE M == {m \in Nat : m # 0 /\ Divides(p, m * b)}
<1>2. PICK m \in M : \A y \in M : m <= y
  <2>1. a \in M
    OBVIOUS
  <2>2. M # {} /\ M \subseteq Nat
    BY <2>1
  <2> HIDE DEF M
  <2> QED  BY <2>2, LeastNatural
<1>3. m \in Nat /\ m # 0 /\ m <= a
  BY <1>2
<1>4. PICK c \in Int : m * b = c * p
  BY <1>2 DEF Divides
<1> DEFINE q == p \div m
           r == p % m
<1>5. q \in Int /\ r \in 0 .. m - 1 /\ p = q * m + r
  BY <1>1, <1>3
<1> HIDE DEF q
<1>6. r * b = (b - q * c) * p
  <2> HIDE DEF r, M
  <2>1. r = p - q * m
    BY <1>3, <1>5
  <2>2. r * b = p * b - q * m * b
    BY <1>3, <1>5, <2>1
  <2>3. q * m * b = q * (c * p)
    BY <1>3, <1>4, <1>5
  <2>4. r * b = p * b - q * (c * p)
    BY <2>2, <2>3
  <2> QED  BY <1>5, <2>4
<1>7. r = 0
  <2>1. Divides(p, r * b)
    <3>1. b - q * c \in Int
      BY <1>5
    <3> QED  BY <1>6, <3>1 DEF Divides
  <2>2. r # 0 => r \in M
    <3> HIDE DEF r
    <3> QED  BY <1>3, <1>5, <2>1
  <2> HIDE DEF r, M
  <2> QED  BY <1>2, <1>3, <1>5, <2>2
<1>8. m = 1
  <2>1. m \notin 2 .. p - 1
    BY <1>7 DEF Prime
  <2> HIDE DEF M
  <2> QED  BY <1>3, <2>1
<1>9. Divides(p, b)
  <2>1. m * b = b
    BY <1>8
  <2> QED  BY <1>4, <2>1 DEF Divides
<1>10. b % p = 0
  BY <1>1, <1>9, DividesIsRem
<1>11. b % p = b
  BY <1>1
<1> QED  BY <1>10, <1>11

-----------------------------------------------------------------------------
(* Two probes of a key whose step is not 0 are at different slots, so all of *)
(* them together are at every slot.                                          *)
LEMMA ProbesDiffer ==
    ASSUME NEW k \in Keys, NEW n \in Sizes, Prime(n), Step(k, n) # 0,
           NEW i \in Slots(n), NEW j \in Slots(n), i < j
    PROVE  hash_func(k, n, i) # hash_func(k, n, j)
<1> SUFFICES ASSUME hash_func(k, n, i) = hash_func(k, n, j) PROVE FALSE
  OBVIOUS
<1>1. PICK a, b : a = djb2[k] % n /\ b = sdbm[k] % n
  OBVIOUS
<1>2. n \in Nat \ {0} /\ i \in Nat /\ j \in Nat /\ j - i \in 1 .. n - 1
  BY TableAssumption DEF Sizes, Slots
<1>3. a \in Nat /\ b \in 1 .. n - 1 /\ (a + j * b) % n = (a + i * b) % n
  BY <1>1, <1>2, ProbeIs DEF Step, Slots
<1>4. a + j * b \in Int /\ a + i * b \in Int
  BY <1>2, <1>3
<1>5. Divides(n, (a + j * b) - (a + i * b))
  BY <1>2, <1>3, <1>4, EqualRems
<1>6. (a + j * b) - (a + i * b) = (j - i) * b
  BY <1>2, <1>3
<1> QED  BY <1>2, <1>3, <1>5, <1>6, PrimesDivideNoProduct

LEMMA NonZeroStepsCover ==
    ASSUME NEW k \in Keys, NEW n \in Sizes, Prime(n), Step(k, n) # 0
    PROVE  \A s \in Slots(n) : \E i \in Slots(n) : hash_func(k, n, i) = s
<1> DEFINE f == [i \in Slots(n) |-> hash_func(k, n, i)]
<1>1. f \in [Slots(n) -> Slots(n)]
  BY ProbeStaysInTable
<1>2. \A i, j \in Slots(n) : f[i] = f[j] => i = j
  <2> SUFFICES ASSUME NEW i \in Slots(n), NEW j \in Slots(n), f[i] = f[j] PROVE i = j
    OBVIOUS
  <2>1. hash_func(k, n, i) = hash_func(k, n, j) /\ i \in Int /\ j \in Int
    BY DEF Slots
  <2> QED  BY <2>1, ProbesDiffer
<1>3. IsFiniteSet(Slots(n))
  BY TableAssumption, FS_Interval DEF Slots, Sizes
<1> HIDE DEF f
<1>4. f \in Injection(Slots(n), Slots(n))
  BY <1>1, <1>2 DEF Injection, IsInjective
<1>5. f \in Surjection(Slots(n), Slots(n))
  BY <1>3, <1>4, FS_Injection
<1> QED  BY <1>1, <1>5 DEF Surjection, f

(* In a table of prime size an insert finds any free slot and a lookup that  *)
(* meets no NULL looks at every slot, unless the step of the key is 0; then  *)
(* it has one slot.                                                          *)
THEOREM ProbesCoverPrimeTables ==
    \A k \in Keys, n \in Sizes : Prime(n) => ProbeCoversTable(k, n)
<1> SUFFICES ASSUME NEW k \in Keys, NEW n \in Sizes, Prime(n) PROVE ProbeCoversTable(k, n)
  OBVIOUS
<1>1. \A i \in Slots(n) : hash_func(k, n, i) \in Slots(n)
  BY ProbeStaysInTable
<1>2. CASE Step(k, n) # 0
  BY <1>1, <1>2, NonZeroStepsCover DEF ProbeCoversTable, Slots
<1>3. CASE Step(k, n) = 0
  <2>1. PICK a : a = djb2[k] % n
    OBVIOUS
  <2>2. 0 \in Slots(n) /\ n \in Nat \ {0}
    BY TableAssumption DEF Slots, Sizes
  <2>3. ASSUME NEW i \in Slots(n) PROVE hash_func(k, n, i) = a
    <3>1. hash_func(k, n, i) = (a + i * (sdbm[k] % n)) % n /\ a \in 0 .. n - 1 /\ i \in Nat
      BY <2>1, ProbeIs DEF Slots
    <3>2. hash_func(k, n, i) = a % n
      BY <1>3, <3>1 DEF Step
    <3> QED  BY <2>2, <3>1, <3>2
  <2> QED  BY <1>3, <2>1, <2>2, <2>3 DEF ProbeCoversTable, Slots
<1> QED  BY <1>2, <1>3

-----------------------------------------------------------------------------
(* Trial division up to the square root finds the primes: of a divisor and   *)
(* its cofactor the smaller is in reach, and if it is even so is the number. *)
LEMMA TrialDivision ==
    ASSUME NEW x \in Nat
    PROVE  is_prime(x) <=> Prime(x)
<1>1. ASSUME Prime(x) PROVE is_prime(x)
  <2>1. x > 1 /\ \A d \in 2 .. x - 1 : x % d # 0
    BY <1>1 DEF Prime
  <2>2. ASSUME x # 2 PROVE x > 2 /\ x % 2 # 0
    BY <2>1, <2>2
  <2>3. ASSUME NEW d \in 3 .. x, d * d <= x PROVE x % d # 0
    <3>1. d # x
      <4>1. d * d >= 3 * d
        OBVIOUS
      <4> QED  BY <2>1, <2>3, <4>1
    <3> QED  BY <2>1, <3>1
  <2> QED  BY <2>2, <2>3 DEF is_prime
<1>2. ASSUME is_prime(x) PROVE Prime(x)
  <2>1. x > 1
    BY <1>2 DEF is_prime
  <2>2. ASSUME NEW d \in 2 .. x - 1, x % d = 0 PROVE FALSE
    <3>1. x > 2 /\ x % 2 # 0 /\ \A y \in 3 .. x : y % 2 # 0 /\ y * y <= x => x % y # 0
      BY <1>2 DEF is_prime
    <3>2. PICK e \in Int : x = e * d
      BY <2>2, DividesIsRem DEF Divides
    <3>3. e \in 2 .. x - 1
      <4>1. CASE e <= 0
        <5>1. e * d <= 0
          BY <4>1
        <5> QED  BY <2>1, <3>2, <5>1
      <4>2. CASE e = 1
        BY <3>2, <4>2
      <4>3. CASE e >= x
        <5>1. e * d >= 2 * e
          BY <4>3
        <5> QED  BY <2>1, <3>2, <4>3, <5>1
      <4> QED  BY <3>2, <4>1, <4>2, <4>3
    <3>4. PICK y \in 2 .. x - 1, z \in 2 .. x - 1 : x = z * y /\ y <= z
      <4>1. d \in Int /\ e * d = d * e
        BY <3>2
      <4> QED  BY <2>2, <3>2, <3>3, <4>1
    <3>5. y * y <= x
      <4>1. y * y <= z * y
        BY <3>4
      <4> QED  BY <3>4, <4>1
    <3>6. x % y = 0
      <4>1. Divides(y, x)
        BY <3>4 DEF Divides
      <4> QED  BY <4>1, DividesIsRem
    <3>7. CASE y % 2 # 0
      BY <3>1, <3>5, <3>6, <3>7
    <3>8. CASE y % 2 = 0
      <4>1. PICK h \in Int : y = h * 2
        BY <3>8, DividesIsRem DEF Divides
      <4>2. x = (z * h) * 2 /\ z * h \in Int
        BY <3>4, <4>1
      <4>3. x % 2 = 0
        BY <4>2, DividesIsRem DEF Divides
      <4> QED  BY <3>1, <4>3
    <3> QED  BY <3>7, <3>8
  <2> QED  BY <2>1, <2>2 DEF Prime
<1> QED  BY <1>1, <1>2

(* htable_init and set_init get the least prime from the size asked for on.  *)
THEOREM SizesAreLeastPrimes == \A x \in 0 .. 2 * MaxSize : NextPrimeAgrees(x)
<1> SUFFICES ASSUME NEW x \in 0 .. 2 * MaxSize PROVE NextPrimeAgrees(x)
  OBVIOUS
<1>1. x \in Nat
  BY TableAssumption
<1>2. CASE x < 2
  <2>1. next_prime(x) = 2
    BY <1>2 DEF next_prime
  <2> QED  BY <1>1, <1>2, <2>1 DEF NextPrimeAgrees, Prime
<1>3. CASE x >= 2
  <2>1. x \in 2 .. 2 * MaxSize
    BY <1>1, <1>3, TableAssumption
  <2>2. PICK p : p = next_prime(x)
    OBVIOUS
  <2>3. p = CHOOSE y \in x .. 2 * x : IsNextPrime(x, y)
    BY <1>1, <1>3, <2>2 DEF next_prime
  <2>4. \E y \in x .. 2 * x : IsNextPrime(x, y)
    BY <2>1, PrimeAssumption
  <2>5. p \in x .. 2 * x /\ IsNextPrime(x, p)
    BY <2>3, <2>4, Zenon
  <2>6. p \in Nat /\ p >= x /\ is_prime(p) /\ \A q \in x .. p - 1 : ~ is_prime(q)
    BY <1>1, <2>5 DEF IsNextPrime
  <2>7. \A q \in x .. p - 1 : q \in Nat
    BY <1>1, <2>6
  <2> QED  BY <2>2, <2>6, <2>7, TrialDivision DEF NextPrimeAgrees
<1> QED  BY <1>1, <1>2, <1>3

(* A table of prime size that is not full refuses no key whose step is not 0. *)
LEMMA OnlyZeroStepsAreBlocked ==
    ASSUME NEW k \in Keys, NEW n \in Sizes, Prime(n), NEW tab,
           Cardinality(LiveSlots(tab, n)) < n, Blocked(tab, n, k)
    PROVE  Step(k, n) = 0
<1> SUFFICES ASSUME Step(k, n) # 0 PROVE FALSE
  OBVIOUS
<1>1. n \in Nat
  BY TableAssumption DEF Sizes
<1>2. Slots(n) \subseteq LiveSlots(tab, n)
  BY NonZeroStepsCover DEF Blocked, LiveSlots
<1>3. LiveSlots(tab, n) = Slots(n)
  BY <1>2 DEF LiveSlots
<1>4. Cardinality(LiveSlots(tab, n)) = n
  BY <1>1, <1>3, FS_Interval DEF Slots
<1> QED  BY <1>1, <1>4

(* next_prime answers a prime for every size that a table may ask for. *)
LEMMA NextPrimeIsPrime ==
    ASSUME NEW x \in 2 .. 2 * MaxSize
    PROVE  Prime(next_prime(x))
<1>1. x \in 0 .. 2 * MaxSize
  BY TableAssumption
<1> QED  BY <1>1, SizesAreLeastPrimes DEF NextPrimeAgrees


-----------------------------------------------------------------------------
(***************************************************************************)
(* What the run of the helpers checks, for all sizes whose doubles a table *)
(* may have, and for any keys and hashes.                                  *)
(***************************************************************************)
HalfSizes == 0 .. MaxSize \div 2

LEMMA ArgumentsAreHalfSizes ==
    MaxArgument \in HalfSizes => (Arguments => [](argument \in HalfSizes))
<1> DEFINE I == argument \in 0 .. MaxArgument
<1>1. FirstArgument => I
  BY ArgumentAssumption DEF FirstArgument
<1>2. I /\ [NextArgument]_argument => I'
  BY ArgumentAssumption DEF NextArgument
<1>3. MaxArgument \in HalfSizes /\ I => argument \in HalfSizes
  BY TableAssumption DEF HalfSizes
<1>4. Arguments => []I
  BY <1>1, <1>2, PTL DEF Arguments
<1>5. CASE MaxArgument \in HalfSizes
  <2>1. I => argument \in HalfSizes
    BY <1>3, <1>5
  <2> QED  BY <1>4, <2>1, PTL
<1> QED  BY <1>5

(* What next_prime answers when a table is made or resized is a prime, large *)
(* enough for the size asked for, and the least one.                         *)
THEOREM TableSizesAreRight ==
    MaxArgument \in HalfSizes => (Arguments => []SizesAreRight)
<1>1. argument \in HalfSizes => SizesAreRight
  <2> SUFFICES ASSUME argument \in HalfSizes PROVE SizesAreRight
    OBVIOUS
  <2>1. argument \in 0 .. 2 * MaxSize
    BY TableAssumption DEF HalfSizes
  <2> QED  BY <2>1, SizesAreLeastPrimes DEF SizesAreRight
<1> QED  BY <1>1, ArgumentsAreHalfSizes, PTL

(* A table that is made for a size is covered by the probes of every key     *)
(* whose step is not 0.                                                      *)
THEOREM ProbesCoverTables ==
    MaxArgument \in HalfSizes => (Arguments => []ProbesCoverAll)
<1>1. argument \in HalfSizes => ProbesCoverAll
  <2> SUFFICES ASSUME argument \in HalfSizes PROVE ProbesCoverAll
    OBVIOUS
  <2>1. argument \in 0 .. 2 * MaxSize /\ 2 * argument <= MaxSize
        /\ MaxSize \in Nat /\ MaxSize >= 4
    BY TableAssumption DEF HalfSizes
  <2> DEFINE n == next_prime(argument)
  <2>2. Prime(n)
    BY <2>1, SizesAreLeastPrimes DEF NextPrimeAgrees
  <2>3. n \in Sizes
    <3>1. CASE argument < 2
      BY <2>1, <3>1 DEF next_prime, Sizes
    <3>2. CASE argument >= 2
      <4>1. n \in argument .. 2 * argument
        BY <2>1, <3>2, NextPrimeBounds
      <4> HIDE DEF n
      <4> QED  BY <2>1, <3>2, <4>1 DEF Sizes
    <3> QED  BY <2>1, <3>1, <3>2
  <2> QED  BY <2>2, <2>3, ProbesCoverPrimeTables DEF ProbesCoverAll
<1> QED  BY <1>1, ArgumentsAreHalfSizes, PTL
=============================================================================
