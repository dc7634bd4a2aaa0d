------------------------------ MODULE Hashing ------------------------------
(***************************************************************************)
(* The hashing helpers of src/helper.c: the prime table sizes and the      *)
(* double-hashing probe sequence that htable.c and set.c walk.             *)
(*                                                                         *)
(* The two string hashes are constants: djb2[k] and sdbm[k] stand for the  *)
(* unsigned long that the loop over the characters of k computes; only     *)
(* their residues modulo a table size are ever used.                       *)
(***************************************************************************)
EXTENDS CInt

CONSTANTS Keys,    \* the strings that are hashed
          djb2,    \* [Keys -> Nat], the full djb2 hash of a string
          sdbm     \* [Keys -> Nat], the full sdbm hash of a string

ASSUME HashAssumption ==
    /\ djb2 \in [Keys -> Nat]
    /\ sdbm \in [Keys -> Nat]

(* The step of key's probe sequence in a table of the given size. *)
Step(key, size) == sdbm[key] % size

(* Broken variant: a quadratic step. *)
hash_func_quadratic(key, size, i) ==
    CRem(ToInt((djb2[key] % size) + i * i * Step(key, size)), size)

(* The i-th slot that is probed for key. *)
hash_func(key, size, i) ==
    CRem(ToInt((djb2[key] % size) + i * Step(key, size)), size)

(* Broken variant: the loop of is_prime ends one divisor early. *)
is_prime_short(x) ==
    \/ x = 2
    \/ /\ x > 2
       /\ x % 2 # 0
       /\ \A d \in 3 .. x : d % 2 # 0 /\ d * d < x => x % d # 0

(* Trial division by the odd numbers up to the square root. *)
is_prime(x) ==
    \/ x = 2
    \/ /\ x > 2
       /\ x % 2 # 0
       /\ \A d \in 3 .. x : d % 2 # 0 /\ d * d <= x => x % d # 0

IsNextPrime(x, p) == is_prime(p) /\ \A q \in x .. (p - 1) : ~ is_prime(q)

(* The loop "while (!is_prime(y)) y++" stops before 2x (Bertrand). *)
next_prime(x) == IF x < 2 THEN 2 ELSE CHOOSE p \in x .. 2 * x : IsNextPrime(x, p)

(***************************************************************************)
(* Properties of the helpers, checked over bounded inputs.                 *)
(***************************************************************************)

(* The textbook's primes. *)
Prime(x) == x > 1 /\ \A d \in 2 .. (x - 1) : x % d # 0

(* next_prime(x) is the least prime from x on. *)
NextPrimeAgrees(x) ==
    LET p == next_prime(x) IN p >= x /\ Prime(p) /\ \A q \in x .. (p - 1) : ~ Prime(q)

(* A key whose step is not 0 probes every slot of a table of prime size, so  *)
(* an insert finds any free slot and a lookup that sees no NULL sees all; a  *)
(* key whose step is 0 probes one slot.  No probe leaves the table.          *)
ProbeCoversTable(key, size) ==
    {hash_func(key, size, i) : i \in 0 .. (size - 1)} =
        IF Step(key, size) # 0 THEN 0 .. (size - 1) ELSE {djb2[key] % size}
=============================================================================
