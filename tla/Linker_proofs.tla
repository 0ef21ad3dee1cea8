--------------------------- MODULE Linker_proofs ----------------------------
(***************************************************************************)
(* Proofs about the whole link (Linker), for every set of jobs: the names  *)
(* the scan decides by are those of the module the merges build            *)
(* (NamesAgree), and no renumbering of any phase loses a reference         *)
(* (RefsFaithful).                                                         *)
(*                                                                         *)
(* First what the operators on sequences and index spaces return, then     *)
(* what the compiler makes of a unit, the merge, the scan with NamesAgree, *)
(* and the phases in their order: resolution, crt0, dead code elimination, *)
(* pruning.  Each phase is a renumbering, and a reference keeps what it    *)
(* denotes when the numbers it goes through do.                            *)
(***************************************************************************)
EXTENDS Linker, FiniteSetTheorems, WellFoundedInduction, FunctionTheorems, TLAPS

\* A set of natural numbers that is not empty has a least element.
LEMMA Least ==
  ASSUME NEW T, T \subseteq Nat, T # {}
  PROVE  \E x \in T : \A y \in T : x <= y
<1> DEFINE Below == {0 .. (x - 1) : x \in T}
<1>1. Below \subseteq FiniteSubsetsOf(Nat) /\ Below # {}
  <2>1. \A x \in Nat : IsFiniteSet(0 .. (x - 1)) /\ 0 .. (x - 1) \subseteq Nat
    BY FS_Interval
  <2>2. QED  BY <2>1 DEF FiniteSubsetsOf
<1>2. PICK b \in Below : \A c \in Below : <<c, b>> \notin StrictSubsetOrdering(Nat)
  <2> HIDE DEF Below
  <2>1. QED  BY <1>1, WFMin, FS_StrictSubsetOrderingWellFounded
<1>3. PICK x \in T : b = 0 .. (x - 1)
  BY <1>2
<1>4. \A y \in T : x <= y
  <2>1. SUFFICES ASSUME NEW y \in T, y < x PROVE FALSE  OBVIOUS
  <2>2. 0 .. (y - 1) \subseteq 0 .. (x - 1) /\ y \notin 0 .. (y - 1) /\ y \in 0 .. (x - 1)  BY <2>1
  <2>3. <<0 .. (y - 1), b>> \in StrictSubsetOrdering(Nat)  BY <2>2, <1>3, <2>1 DEF StrictSubsetOrdering
  <2>4. QED  BY <1>2, <2>3
<1>5. QED  BY <1>4

\* Induction: a set of natural numbers that holds 0 and every successor holds them all.
LEMMA InductionSet ==
  ASSUME NEW S, S \subseteq Nat, 0 \in S, \A n \in S : n + 1 \in S
  PROVE  S = Nat
<1>1. SUFFICES ASSUME Nat \ S # {} PROVE FALSE  OBVIOUS
<1>2. PICK x \in Nat \ S : \A y \in Nat \ S : x <= y  BY <1>1, Least
<1>3. QED  BY <1>2

\* R orders the elements of K one after the other.
Orders(R, K) ==
  /\ \A k \in K : <<k, k>> \in R
  /\ \A j, k \in K : <<j, k>> \in R \/ <<k, j>> \in R
  /\ \A j, k \in K : <<j, k>> \in R /\ <<k, j>> \in R => j = k
  /\ \A i, j, k \in K : <<i, j>> \in R /\ <<j, k>> \in R => <<i, k>> \in R
UpTo(K, R, k) == {j \in K : <<j, k>> \in R}
Place(K, R, k) == Cardinality(UpTo(K, R, k))

\* In an ordered finite set each element has a place of its own, and each place is taken.
LEMMA PlaceWorks ==
  ASSUME NEW K, IsFiniteSet(K), NEW R, Orders(R, K)
  PROVE  /\ \A k \in K : Place(K, R, k) \in 1 .. Cardinality(K)
         /\ \A j, k \in K : Place(K, R, j) = Place(K, R, k) => j = k
         /\ \A n \in 1 .. Cardinality(K) : \E k \in K : Place(K, R, k) = n
<1>1. \A k \in K : /\ k \in UpTo(K, R, k) /\ UpTo(K, R, k) \subseteq K
                   /\ IsFiniteSet(UpTo(K, R, k)) /\ Place(K, R, k) \in Nat
                   /\ Place(K, R, k) <= Cardinality(K)
  BY FS_Subset, FS_CardinalityType, Zenon DEF Orders, UpTo, Place
<1>2. \A k \in K : Place(K, R, k) # 0
  BY <1>1, FS_EmptySet DEF Place
<1>3. Cardinality(K) \in Nat  BY FS_CardinalityType
<1>4. \A k \in K : Place(K, R, k) \in 1 .. Cardinality(K)
  BY <1>1, <1>2, <1>3
<1>5. ASSUME NEW j \in K, NEW k \in K, <<j, k>> \in R, j # k
      PROVE  Place(K, R, j) < Place(K, R, k)
  <2>1. UpTo(K, R, j) \subseteq UpTo(K, R, k)
    BY <1>5 DEF Orders, UpTo
  <2>2. k \notin UpTo(K, R, j)
    BY <1>5 DEF Orders, UpTo
  <2>3. UpTo(K, R, j) # UpTo(K, R, k) /\ IsFiniteSet(UpTo(K, R, k))
    BY <2>2, <1>1
  <2>4. Place(K, R, j) <= Place(K, R, k) /\ Place(K, R, j) # Place(K, R, k)
    BY <2>1, <2>3, FS_Subset DEF Place
  <2>5. QED  BY <2>4, <1>1
<1>6. \A j, k \in K : Place(K, R, j) = Place(K, R, k) => j = k
  <2>1. TAKE j, k \in K
  <2>2. CASE j = k  BY <2>2
  <2>3. CASE j # k
    <3>1. <<j, k>> \in R \/ <<k, j>> \in R  BY DEF Orders
    <3>2. Place(K, R, j) < Place(K, R, k) \/ Place(K, R, k) < Place(K, R, j)
      BY <3>1, <2>3, <1>5
    <3>3. QED  BY <3>2, <1>1
  <2>4. QED  BY <2>2, <2>3
<1>7. \A n \in 1 .. Cardinality(K) : \E k \in K : Place(K, R, k) = n
  <2> DEFINE f == [k \in K |-> Place(K, R, k)]
  <2>1. f \in [K -> 1 .. Cardinality(K)]  BY <1>4
  <2>2. f \in Injection(K, 1 .. Cardinality(K))
    BY <2>1, <1>6 DEF Injection, IsInjective
  <2>3. IsFiniteSet(1 .. Cardinality(K)) /\ Cardinality(1 .. Cardinality(K)) = Cardinality(K)
    BY <1>3, FS_Interval
  <2>4. f \in Surjection(K, 1 .. Cardinality(K))
    BY <2>2, <2>3, FS_Injection
  <2>5. QED  BY <2>4 DEF Surjection
<1>8. QED  BY <1>4, <1>6, <1>7

\* Listed puts each element at its place.
LEMMA ListedWorks ==
  ASSUME NEW K, IsFiniteSet(K), NEW R, Orders(R, K)
  PROVE  /\ Listed(K, R) \in [1 .. Cardinality(K) -> K]
         /\ \A n \in 1 .. Cardinality(K) : Place(K, R, Listed(K, R)[n]) = n
         /\ \A k \in K : /\ Place(K, R, k) \in 1 .. Cardinality(K)
                         /\ Listed(K, R)[Place(K, R, k)] = k
<1> DEFINE Which(n) == CHOOSE k \in K : Place(K, R, k) = n
<1>1. Listed(K, R) = [n \in 1 .. Cardinality(K) |-> Which(n)]
  BY DEF Listed, Place, UpTo
<1>a. ASSUME NEW n \in 1 .. Cardinality(K)
      PROVE  Which(n) \in K /\ Place(K, R, Which(n)) = n
  <2>1. \E k \in K : Place(K, R, k) = n  BY PlaceWorks
  <2>2. QED  BY <2>1
<1> HIDE DEF Which
<1>2. \A n \in 1 .. Cardinality(K) : Listed(K, R)[n] \in K /\ Place(K, R, Listed(K, R)[n]) = n
  BY <1>1, <1>a
<1>3. Listed(K, R) = [n \in 1 .. Cardinality(K) |-> Listed(K, R)[n]]
  BY <1>1
<1>4. \A k \in K : /\ Place(K, R, k) \in 1 .. Cardinality(K)
                   /\ Listed(K, R)[Place(K, R, k)] = k
  BY <1>2, PlaceWorks
<1>5. QED  BY <1>2, <1>3, <1>4

-----------------------------------------------------------------------------
\* The place of a position among those kept.
Nth(K, k) == Cardinality({j \in K : j <= k})

\* Positions of a sequence are ordered by size.
LEMMA UpwardsOrders ==
  ASSUME NEW n \in Nat, NEW K, K \subseteq 1 .. n
  PROVE  Orders(Upwards, K) /\ IsFiniteSet(K) /\ \A k \in K : Place(K, Upwards, k) = Nth(K, k)
<1>1. \A j, k \in K : <<j, k>> \in Upwards <=> j <= k
  BY DEF Upwards
<1>2. Orders(Upwards, K)  BY <1>1 DEF Orders
<1>3. IsFiniteSet(K)
  <2>1. IsFiniteSet(1 .. n)  BY FS_Interval
  <2>2. QED  BY <2>1, FS_Subset
<1>4. \A k \in K : UpTo(K, Upwards, k) = {j \in K : j <= k}
  BY <1>1 DEF UpTo
<1>5. QED  BY <1>2, <1>3, <1>4 DEF Place, Nth

\* What Kept returns: the elements at the chosen positions, each once, in their order.
LEMMA KeptWorks ==
  ASSUME NEW S, NEW s \in Seq(S), NEW K, K \subseteq DOMAIN s
  PROVE  /\ Kept(s, K) \in Seq(S) /\ Len(Kept(s, K)) = Cardinality(K) /\ Cardinality(K) \in Nat
         /\ \A k \in K : Nth(K, k) \in 1 .. Len(Kept(s, K)) /\ Kept(s, K)[Nth(K, k)] = s[k]
         /\ \A n \in 1 .. Len(Kept(s, K)) : \E k \in K : Kept(s, K)[n] = s[k] /\ Nth(K, k) = n
<1>1. K \subseteq 1 .. Len(s) /\ Len(s) \in Nat  OBVIOUS
<1>2. Orders(Upwards, K) /\ IsFiniteSet(K) /\ \A k \in K : Place(K, Upwards, k) = Nth(K, k)
  BY <1>1, UpwardsOrders
<1> DEFINE at == Listed(K, Upwards)
<1>3. /\ at \in [1 .. Cardinality(K) -> K]
      /\ \A n \in 1 .. Cardinality(K) : Nth(K, at[n]) = n
      /\ \A k \in K : Nth(K, k) \in 1 .. Cardinality(K) /\ at[Nth(K, k)] = k
  <2>1. /\ at \in [1 .. Cardinality(K) -> K]
        /\ \A n \in 1 .. Cardinality(K) : Place(K, Upwards, at[n]) = n
        /\ \A k \in K : /\ Place(K, Upwards, k) \in 1 .. Cardinality(K)
                        /\ at[Place(K, Upwards, k)] = k
    BY <1>2, ListedWorks
  <2> HIDE DEF at
  <2>2. QED  BY <2>1, <1>2
<1>4. Kept(s, K) = [n \in DOMAIN at |-> s[at[n]]]
  BY DEF Kept
<1> HIDE DEF at
<1>5. Cardinality(K) \in Nat  BY <1>2, FS_CardinalityType
<1>6. Kept(s, K) = [n \in 1 .. Cardinality(K) |-> s[at[n]]]
  BY <1>3, <1>4
<1>7. \A n \in 1 .. Cardinality(K) : s[at[n]] \in S
  BY <1>3
<1>8. Kept(s, K) \in Seq(S) /\ Len(Kept(s, K)) = Cardinality(K)
  BY <1>5, <1>6, <1>7
<1>9. QED  BY <1>3, <1>5, <1>6, <1>8

-----------------------------------------------------------------------------
\* The numbers below i + 1, those dropped and those kept.
LowCount(drop, i) == Cardinality({d \in drop : d < i})
Staying(drop, n) == {k \in 1 .. n : k - 1 \notin drop}

\* The new number of an element counts the dropped ones before it.
LEMMA NewNumberIs == ASSUME NEW drop, NEW i PROVE NewNumber(drop, i) = i - LowCount(drop, i)
BY DEF NewNumber, LowCount

\* The place of an element among those that stay is its new number.
LEMMA BelowCount ==
  ASSUME NEW n \in Nat, NEW drop, drop \subseteq 0 .. n - 1, NEW K, K = Staying(drop, n),
         NEW i \in 0 .. n
  PROVE  /\ IsFiniteSet(drop) /\ LowCount(drop, i) \in Nat
         /\ Nth(K, i) = NewNumber(drop, i) /\ Nth(K, i) \in Nat
<1> DEFINE low == {d \in drop : d < i}
           gone == {k \in 1 .. i : k - 1 \in drop}
           f == [d \in low |-> d + 1]
<1>1. IsFiniteSet(drop)
  <2>1. IsFiniteSet(0 .. n - 1)  BY FS_Interval
  <2>2. QED  BY <2>1, FS_Subset
<1>2. IsFiniteSet(low)  BY <1>1, FS_Subset
<1>3. f \in Bijection(low, gone)
  <2>1. \A d \in low : d \in Nat /\ d + 1 \in gone  OBVIOUS
  <2>2. f \in [low -> gone]  BY <2>1
  <2>3. \A a, b \in low : f[a] = f[b] => a = b  BY <2>1
  <2>4. \A k \in gone : k - 1 \in low /\ f[k - 1] = k  OBVIOUS
  <2>5. QED  BY <2>2, <2>3, <2>4 DEF Bijection, Injection, Surjection, IsInjective
<1>4. IsFiniteSet(gone) /\ Cardinality(gone) = Cardinality(low)
  <2>1. ExistsBijection(low, gone)  BY <1>3 DEF ExistsBijection
  <2>2. QED  BY <2>1, <1>2, FS_Bijection
<1>5. {j \in K : j <= i} = (1 .. i) \ gone  BY DEF Staying
<1>6. IsFiniteSet(1 .. i) /\ Cardinality(1 .. i) = i  BY FS_Interval
<1>7. (1 .. i) \cap gone = gone  OBVIOUS
<1>8. Cardinality((1 .. i) \ gone) = i - Cardinality(gone)
  <2>1. Cardinality((1 .. i) \ gone) = Cardinality(1 .. i) - Cardinality((1 .. i) \cap gone)
    BY <1>6, FS_Difference
  <2>2. QED  BY <2>1, <1>6, <1>7
<1>9. Cardinality(low) \in Nat /\ Cardinality((1 .. i) \ gone) \in Nat
  <2>1. IsFiniteSet((1 .. i) \ gone)  BY <1>6, FS_Difference
  <2>2. QED  BY <2>1, <1>2, FS_CardinalityType
<1>10. QED  BY <1>1, <1>4, <1>5, <1>8, <1>9 DEF Nth, NewNumber, LowCount

\* The range of a sequence.
LEMMA RangeOf ==
  ASSUME NEW S, NEW s \in Seq(S)
  PROVE  /\ Len(s) \in Nat /\ DOMAIN s = 1 .. Len(s)
         /\ \A x : x \in Range(s) <=> \E k \in 1 .. Len(s) : s[k] = x
         /\ Range(s) \subseteq S
BY DEF Range

\* What Without returns: the elements that stay are found under their new numbers.
LEMMA WithoutWorks ==
  ASSUME NEW S, NEW s \in Seq(S), NEW drop, drop \subseteq 0 .. Len(s) - 1
  PROVE  /\ Without(s, drop) \in Seq(S) /\ Cardinality(drop) \in Nat
         /\ Len(Without(s, drop)) = Len(s) - Cardinality(drop)
         /\ \A i \in Nat : NewNumber(drop, i) \in Nat
         /\ \A i \in 0 .. Len(s) - 1 : i \notin drop =>
              /\ NewNumber(drop, i) < Len(Without(s, drop))
              /\ Without(s, drop)[NewNumber(drop, i) + 1] = s[i + 1]
         /\ \A i \in Nat : i >= Len(s) => NewNumber(drop, i) = i - Cardinality(drop)
<1>a. PICK n : n = Len(s)  OBVIOUS
<1>b. PICK K : K = Staying(drop, n)  OBVIOUS
<1>1. n \in Nat /\ DOMAIN s = 1 .. n  BY <1>a
<1>c. Without(s, drop) = Kept(s, K) /\ K \subseteq DOMAIN s
  BY <1>1, <1>b DEF Without, Staying
<1>2. /\ Kept(s, K) \in Seq(S) /\ Len(Kept(s, K)) = Cardinality(K)
      /\ \A k \in K : Nth(K, k) \in 1 .. Len(Kept(s, K)) /\ Kept(s, K)[Nth(K, k)] = s[k]
  BY <1>c, KeptWorks
<1>3. drop \subseteq 0 .. n - 1  BY <1>a
<1>4. \A i \in 0 .. n : /\ LowCount(drop, i) \in Nat
                        /\ Nth(K, i) = NewNumber(drop, i) /\ Nth(K, i) \in Nat
  BY <1>1, <1>3, <1>b, BelowCount
<1>5. IsFiniteSet(drop) /\ Cardinality(drop) \in Nat
  <2>1. 0 \in 0 .. n  BY <1>1
  <2>2. IsFiniteSet(drop)  BY <1>1, <1>3, <1>b, <2>1, BelowCount
  <2>3. QED  BY <2>2, FS_CardinalityType
<1>6. \A i \in Nat : i >= n => {d \in drop : d < i} = drop
  <2>1. \A d \in drop : d \in Nat /\ d < n  BY <1>1, <1>3
  <2>2. ASSUME NEW i \in Nat, i >= n PROVE \A d \in drop : d < i  BY <2>1, <2>2, <1>1
  <2>3. QED  BY <2>2
<1>7. {j \in K : j <= n} = K /\ n \in 0 .. n /\ n \in Nat /\ n >= n
  BY <1>1, <1>b DEF Staying
<1>8. Cardinality(K) = n - Cardinality(drop)
  <2>1. Nth(K, n) = NewNumber(drop, n)  BY <1>4, <1>7
  <2>2. NewNumber(drop, n) = n - Cardinality(drop)  BY <1>6, <1>7 DEF NewNumber
  <2>3. Nth(K, n) = Cardinality(K)  BY <1>7 DEF Nth
  <2>4. QED  BY <2>1, <2>2, <2>3
<1>9. \A i \in Nat : i >= n => NewNumber(drop, i) = i - Cardinality(drop)
  BY <1>6 DEF NewNumber
<1>10. Cardinality(drop) <= n
  <2>1. Nth(K, n) \in Nat  BY <1>4, <1>7
  <2>2. Nth(K, n) = Cardinality(K)  BY <1>7 DEF Nth
  <2>3. QED  BY <2>1, <2>2, <1>8, <1>5, <1>1
<1>11. \A i \in Nat : NewNumber(drop, i) \in Nat
  <2>1. ASSUME NEW i \in Nat PROVE NewNumber(drop, i) \in Nat
    <3>1. CASE i <= n
      <4>1. i \in 0 .. n  BY <3>1, <1>1
      <4>2. QED  BY <4>1, <1>4
    <3>2. CASE ~(i <= n)
      <4>1. i >= n /\ i - Cardinality(drop) \in Nat  BY <3>2, <1>1, <1>5, <1>10
      <4>2. QED  BY <4>1, <1>9
    <3>3. QED  BY <3>1, <3>2
  <2>2. QED  BY <2>1
<1>12. ASSUME NEW i \in 0 .. n - 1, i \notin drop
       PROVE  /\ NewNumber(drop, i) < Len(Kept(s, K))
              /\ Kept(s, K)[NewNumber(drop, i) + 1] = s[i + 1]
  <2>1. i + 1 \in K /\ i + 1 \in 0 .. n /\ i \in Nat /\ i \in 0 .. n
    BY <1>1, <1>b, <1>12 DEF Staying
  <2>2. Nth(K, i + 1) = NewNumber(drop, i + 1)  BY <2>1, <1>4
  <2>3. {d \in drop : d < i + 1} = {d \in drop : d < i}
    <3>1. \A d \in drop : d \in Int /\ d # i  BY <1>1, <1>3, <1>12
    <3>2. \A d \in drop : d < i + 1 <=> d < i  BY <3>1, <2>1
    <3>3. QED  BY <3>2
  <2>4. NewNumber(drop, i + 1) = NewNumber(drop, i) + 1
    <3>1. PICK c : c = LowCount(drop, i)  OBVIOUS
    <3>2. c \in Nat  BY <3>1, <2>1, <1>4
    <3>3. NewNumber(drop, i) = i - c  BY <3>1 DEF NewNumber, LowCount
    <3>a. LowCount(drop, i + 1) = LowCount(drop, i)  BY <2>3 DEF LowCount
    <3>i. PICK k : k = i + 1  OBVIOUS
    <3>c. NewNumber(drop, k) = k - LowCount(drop, k)  BY NewNumberIs
    <3>b. NewNumber(drop, i + 1) = k - LowCount(drop, i + 1)  BY <3>i, <3>c
    <3>4. NewNumber(drop, i + 1) = k - c  BY <3>1, <3>a, <3>b
    <3>5. QED  BY <3>i, <3>2, <3>3, <3>4, <2>1
  <2>5. NewNumber(drop, i) \in Nat  BY <2>1, <1>11
  <2>6. NewNumber(drop, i) + 1 \in 1 .. Len(Kept(s, K)) /\ Kept(s, K)[NewNumber(drop, i) + 1] = s[i + 1]
    BY <2>1, <2>2, <2>4, <1>2
  <2>7. Len(Kept(s, K)) \in Nat  BY <1>2
  <2>8. QED  BY <2>5, <2>6, <2>7
<1>13. QED  BY <1>a, <1>c, <1>2, <1>5, <1>8, <1>9, <1>11, <1>12

\* Firsts lists the elements not excepted, once each.
LEMMA FirstsWorks ==
  ASSUME NEW S, NEW s \in Seq(S), NEW except
  PROVE  /\ Firsts(s, except) \in Seq(S)
         /\ Range(Firsts(s, except)) = Range(s) \ except
         /\ \A i, j \in 1 .. Len(Firsts(s, except)) : Firsts(s, except)[i] = Firsts(s, except)[j] => i = j
<1>a. PICK K : K = {k \in DOMAIN s : s[k] \notin except /\ \A j \in 1 .. k - 1 : s[j] # s[k]}
  OBVIOUS
<1>b. PICK t : t = Kept(s, K)  OBVIOUS
<1>1. Firsts(s, except) = t /\ K \subseteq DOMAIN s  BY <1>a, <1>b DEF Firsts
<1>c. /\ Kept(s, K) \in Seq(S)
      /\ \A k \in K : Nth(K, k) \in 1 .. Len(Kept(s, K)) /\ Kept(s, K)[Nth(K, k)] = s[k]
      /\ \A n \in 1 .. Len(Kept(s, K)) : \E k \in K : Kept(s, K)[n] = s[k] /\ Nth(K, k) = n
  BY <1>1, KeptWorks
<1>2. /\ t \in Seq(S)
      /\ \A k \in K : Nth(K, k) \in 1 .. Len(t) /\ t[Nth(K, k)] = s[k]
      /\ \A n \in 1 .. Len(t) : \E k \in K : t[n] = s[k] /\ Nth(K, k) = n
  BY <1>b, <1>c
<1>3. /\ DOMAIN s = 1 .. Len(s) /\ Len(s) \in Nat
      /\ \A x : x \in Range(t) <=> \E k \in 1 .. Len(t) : t[k] = x
      /\ \A x : x \in Range(s) <=> \E k \in 1 .. Len(s) : s[k] = x
  BY <1>2, RangeOf
<1>4. ASSUME NEW k \in DOMAIN s, s[k] \notin except
      PROVE  \E j \in K : s[j] = s[k]
  <2>a. PICK T : T = {j \in DOMAIN s : s[j] = s[k]}  OBVIOUS
  <2>1. T \subseteq Nat /\ T # {}  BY <2>a, <1>3
  <2>2. PICK j \in T : \A y \in T : j <= y  BY <2>1, Least
  <2>3. \A y \in 1 .. j - 1 : s[y] # s[j]
    <3>1. j \in 1 .. Len(s) /\ s[j] = s[k]  BY <2>2, <2>a, <1>3
    <3>2. ASSUME NEW y \in 1 .. j - 1, s[y] = s[j] PROVE FALSE
      <4>1. y \in 1 .. Len(s) /\ y < j  BY <3>1, <1>3
      <4>2. y \in T  BY <4>1, <3>1, <3>2, <2>a, <1>3
      <4>3. QED  BY <4>1, <4>2, <2>2, <2>1
    <3>3. QED  BY <3>2
  <2>4. QED  BY <2>2, <2>3, <1>4, <1>a, <2>a
<1>5. \A k \in K : s[k] \in Range(s) \ except
  BY <1>3, <1>a
<1>6. Range(t) = Range(s) \ except
  <2>1. ASSUME NEW x \in Range(t) PROVE x \in Range(s) \ except
    <3>1. PICK n \in 1 .. Len(t) : t[n] = x  BY <1>3
    <3>2. PICK k \in K : t[n] = s[k]  BY <1>2
    <3>3. QED  BY <3>1, <3>2, <1>5
  <2>2. ASSUME NEW x \in Range(s) \ except PROVE x \in Range(t)
    <3>1. PICK k \in DOMAIN s : x = s[k]  BY <1>3
    <3>2. PICK j \in K : s[j] = s[k]  BY <3>1, <1>4
    <3>3. QED  BY <3>1, <3>2, <1>2, <1>3
  <2>3. QED  BY <2>1, <2>2
<1>7. \A j, k \in K : s[j] = s[k] => j = k
  <2>1. SUFFICES ASSUME NEW j \in K, NEW k \in K, s[j] = s[k] PROVE j = k  OBVIOUS
  <2>2. j \in Nat /\ k \in Nat /\ j >= 1 /\ k >= 1  BY <1>a, <1>3
  <2>3. ~(j < k)
    <3>1. j < k => j \in 1 .. k - 1  BY <2>2
    <3>2. QED  BY <3>1, <2>1, <1>a
  <2>4. ~(k < j)
    <3>1. k < j => k \in 1 .. j - 1  BY <2>2
    <3>2. QED  BY <3>1, <2>1, <1>a
  <2>5. QED  BY <2>2, <2>3, <2>4
<1>8. \A i, j \in 1 .. Len(t) : t[i] = t[j] => i = j
  <2>1. SUFFICES ASSUME NEW i \in 1 .. Len(t), NEW j \in 1 .. Len(t), t[i] = t[j] PROVE i = j
    OBVIOUS
  <2>2. PICK p \in K : t[i] = s[p] /\ Nth(K, p) = i  BY <1>2
  <2>3. PICK q \in K : t[j] = s[q] /\ Nth(K, q) = j  BY <1>2
  <2>4. p = q  BY <2>1, <2>2, <2>3, <1>7
  <2>5. QED  BY <2>2, <2>3, <2>4
<1>9. QED  BY <1>1, <1>2, <1>6, <1>8

\* The joined imports start with the old ones, hold both sets, and hold nothing twice.
LEMMA DedupWorks ==
  ASSUME NEW S, NEW a \in Seq(S), NEW b \in Seq(S)
  PROVE  /\ Dedup(a, b) \in Seq(S) /\ Range(Dedup(a, b)) = Range(a) \cup Range(b)
         /\ Len(Dedup(a, b)) >= Len(a) /\ \A k \in 1 .. Len(a) : Dedup(a, b)[k] = a[k]
         /\ (\A i, j \in 1 .. Len(a) : a[i] = a[j] => i = j)
              => \A i, j \in 1 .. Len(Dedup(a, b)) : Dedup(a, b)[i] = Dedup(a, b)[j] => i = j
<1> DEFINE f == Firsts(b, Range(a))
<1>1. /\ f \in Seq(S) /\ Range(f) = Range(b) \ Range(a)
      /\ \A i, j \in 1 .. Len(f) : f[i] = f[j] => i = j
  BY FirstsWorks
<1>2. Dedup(a, b) = a \o f  BY DEF Dedup
<1> HIDE DEF f
<1>3. /\ a \o f \in Seq(S) /\ Len(a \o f) = Len(a) + Len(f)
      /\ \A k \in 1 .. Len(a) : (a \o f)[k] = a[k]
      /\ \A k \in Len(a) + 1 .. Len(a) + Len(f) : (a \o f)[k] = f[k - Len(a)]
      /\ Len(a) \in Nat /\ Len(f) \in Nat /\ DOMAIN a = 1 .. Len(a) /\ DOMAIN f = 1 .. Len(f)
      /\ DOMAIN (a \o f) = 1 .. Len(a) + Len(f)
  BY <1>1
<1>4. PICK c : c = a \o f  OBVIOUS
<1>5. /\ c \in Seq(S) /\ Len(c) = Len(a) + Len(f) /\ DOMAIN c = 1 .. Len(a) + Len(f)
      /\ \A k \in 1 .. Len(a) : c[k] = a[k]
      /\ \A k \in Len(a) + 1 .. Len(a) + Len(f) : c[k] = f[k - Len(a)]
  BY <1>3, <1>4
<1>6. Range(c) = Range(a) \cup Range(f)
  <2>1. \A x : x \in Range(c) <=> \E k \in 1 .. Len(a) + Len(f) : x = c[k]  BY <1>5 DEF Range
  <2>2. \A x : x \in Range(a) <=> \E k \in 1 .. Len(a) : x = a[k]  BY <1>3 DEF Range
  <2>3. \A x : x \in Range(f) <=> \E k \in 1 .. Len(f) : x = f[k]  BY <1>3 DEF Range
  <2>4. \A k \in 1 .. Len(f) : k + Len(a) \in Len(a) + 1 .. Len(a) + Len(f) /\ c[k + Len(a)] = f[k]
    BY <1>3, <1>5
  <2>5. \A k \in 1 .. Len(a) + Len(f) : k \in 1 .. Len(a) \/ (k \in Len(a) + 1 .. Len(a) + Len(f) /\ k - Len(a) \in 1 .. Len(f))
    BY <1>3
  <2>6. \A x : x \in Range(c) => x \in Range(a) \cup Range(f)
    BY <2>1, <2>2, <2>3, <2>5, <1>5
  <2>7. \A x : x \in Range(a) => x \in Range(c)
    BY <2>1, <2>2, <1>5, <1>3
  <2>8. \A x : x \in Range(f) => x \in Range(c)
    BY <2>1, <2>3, <2>4, <1>3
  <2>9. QED  BY <2>6, <2>7, <2>8
<1>7. ASSUME \A i, j \in 1 .. Len(a) : a[i] = a[j] => i = j, NEW i \in 1 .. Len(c), NEW j \in 1 .. Len(c), c[i] = c[j]
      PROVE  i = j
  <2>1. \A k \in 1 .. Len(f) : f[k] \notin Range(a)
    <3>1. \A k \in 1 .. Len(f) : f[k] \in Range(f)  BY <1>3 DEF Range
    <3>2. QED  BY <3>1, <1>1
  <2>2. \A k \in 1 .. Len(a) : a[k] \in Range(a)  BY <1>3 DEF Range
  <2>3. CASE i <= Len(a) /\ j <= Len(a)
    BY <2>3, <1>7, <1>5, <1>3
  <2>4. CASE i > Len(a) /\ j > Len(a)
    <3>1. i - Len(a) \in 1 .. Len(f) /\ j - Len(a) \in 1 .. Len(f) /\ f[i - Len(a)] = f[j - Len(a)]
      BY <2>4, <1>7, <1>5, <1>3
    <3>2. i - Len(a) = j - Len(a)  BY <3>1, <1>1
    <3>3. QED  BY <3>2, <1>3
  <2>5. CASE i <= Len(a) /\ j > Len(a)
    <3>1. j - Len(a) \in 1 .. Len(f) /\ a[i] = f[j - Len(a)] /\ i \in 1 .. Len(a)
      BY <2>5, <1>7, <1>5, <1>3
    <3>2. QED  BY <3>1, <2>1, <2>2
  <2>6. CASE i > Len(a) /\ j <= Len(a)
    <3>1. i - Len(a) \in 1 .. Len(f) /\ a[j] = f[i - Len(a)] /\ j \in 1 .. Len(a)
      BY <2>6, <1>7, <1>5, <1>3
    <3>2. QED  BY <3>1, <2>1, <2>2
  <2>7. QED  BY <2>3, <2>4, <2>5, <2>6, <1>3
<1>8. QED  BY <1>1, <1>2, <1>3, <1>4, <1>5, <1>6, <1>7

\* PositionOf finds an element of the sequence.
LEMMA PositionWorks ==
  ASSUME NEW S, NEW s \in Seq(S), NEW x \in Range(s)
  PROVE  PositionOf(s, x) \in 0 .. Len(s) - 1 /\ s[PositionOf(s, x) + 1] = x
<1> DEFINE I == {i \in 1 .. Len(s) : s[i] = x}
<1>1. I \subseteq Nat /\ I # {}  BY DEF Range
<1>2. \E i \in I : \A j \in I : i <= j  BY <1>1, Least
<1>3. Min(I) \in I  BY <1>2 DEF Min
<1>4. PositionOf(s, x) = Min(I) - 1  BY <1>1 DEF PositionOf, SelectInSeq
<1> HIDE DEF I
<1>5. QED  BY <1>3, <1>4 DEF I

\* Names: those of the sources and the linker's own.
Text == STRING \cup {Env, StackPointer, HeapBase, Main, Exit, StdioExit,
                     "sys_proc", "argc", "argv_len", "argv", "exit", "crt0", "start"}

Symbols == [mod : Text, name : Text]
Refs    == [kind : {"func", "glob", "slot"}, idx : Nat, sym : Symbols]
Bodies  == [id : Symbols, argv : BOOLEAN, refs : SUBSET Refs]
Exps    == [name : Text, ref : Refs]
Modules == [fimp : Seq(Symbols), gimp : Seq(Symbols), funcs : Seq(Bodies), globs : Seq(Symbols),
            exps : Seq(Exps), table : Seq(Refs), start : SUBSET Nat]

NFuncs(m) == Len(m.fimp) + Len(m.funcs)
NGlobs(m) == Len(m.gimp) + Len(m.globs)
\* The number is in range; a table slot holds a function.
InRange(m, r) ==
  CASE r.kind = "func" -> r.idx < NFuncs(m)
    [] r.kind = "glob" -> r.idx < NGlobs(m)
    [] r.kind = "slot" -> r.idx < Len(m.table)
InTable(m) == \A k \in DOMAIN m.table : m.table[k].kind = "func"
\* The function a reference to a function reaches.
FuncNum(m, r) == IF r.kind = "slot" THEN m.table[r.idx + 1].idx ELSE r.idx

\* The entries of a sequence are in its set.
LEMMA Entries ==
  ASSUME NEW S, NEW s \in Seq(S)
  PROVE  DOMAIN s = 1 .. Len(s) /\ Len(s) \in Nat /\ \A k \in 1 .. Len(s) : s[k] \in S
OBVIOUS

\* The fields of a module and their types.
LEMMA ModuleFields ==
  ASSUME NEW m \in Modules
  PROVE  /\ m.fimp \in Seq(Symbols) /\ m.gimp \in Seq(Symbols) /\ m.funcs \in Seq(Bodies)
         /\ m.globs \in Seq(Symbols) /\ m.exps \in Seq(Exps) /\ m.table \in Seq(Refs)
         /\ m.start \in SUBSET Nat
         /\ DOMAIN m.fimp = 1 .. Len(m.fimp) /\ Len(m.fimp) \in Nat
         /\ DOMAIN m.gimp = 1 .. Len(m.gimp) /\ Len(m.gimp) \in Nat
         /\ DOMAIN m.funcs = 1 .. Len(m.funcs) /\ Len(m.funcs) \in Nat
         /\ DOMAIN m.globs = 1 .. Len(m.globs) /\ Len(m.globs) \in Nat
         /\ DOMAIN m.exps = 1 .. Len(m.exps) /\ Len(m.exps) \in Nat
         /\ DOMAIN m.table = 1 .. Len(m.table) /\ Len(m.table) \in Nat
         /\ \A k \in 1 .. Len(m.funcs) : m.funcs[k] \in Bodies
         /\ \A k \in 1 .. Len(m.exps) : m.exps[k] \in Exps
         /\ \A k \in 1 .. Len(m.table) : m.table[k] \in Refs
<1>1. /\ m.fimp \in Seq(Symbols) /\ m.gimp \in Seq(Symbols) /\ m.funcs \in Seq(Bodies)
      /\ m.globs \in Seq(Symbols) /\ m.exps \in Seq(Exps) /\ m.table \in Seq(Refs)
      /\ m.start \in SUBSET Nat
  BY DEF Modules
<1>2. QED  BY <1>1, Entries

\* The symbols of the defined functions.
LEMMA IdsOf ==
  ASSUME NEW m \in Modules
  PROVE  Ids(m) \in Seq(Symbols) /\ Len(Ids(m)) = Len(m.funcs) /\ DOMAIN Ids(m) = 1 .. Len(m.funcs)
         /\ \A k \in 1 .. Len(m.funcs) : Ids(m)[k] = m.funcs[k].id
<1>1. m.funcs \in Seq(Bodies)  BY DEF Modules
<1>2. PICK f : f = m.funcs  OBVIOUS
<1>3. DOMAIN f = 1 .. Len(f) /\ Len(f) \in Nat /\ \A k \in 1 .. Len(f) : f[k].id \in Symbols
  BY <1>2, ModuleFields DEF Bodies
<1>4. Ids(m) = [k \in 1 .. Len(f) |-> f[k].id]  BY <1>2, <1>3 DEF Ids
<1>5. QED  BY <1>2, <1>3, <1>4

\* What a reference in range denotes, by the function it reaches.
LEMMA DenotesIs ==
  ASSUME NEW m \in Modules, NEW r \in Refs, InRange(m, r)
  PROVE  Denotes(m, r) = IF r.kind = "glob" THEN GlobAt(m, r.idx) ELSE FuncAt(m, FuncNum(m, r))
<1>1. CASE r.kind = "func"  BY <1>1 DEF Denotes, FuncNum
<1>2. CASE r.kind = "glob"  BY <1>2 DEF Denotes, FuncNum
<1>3. CASE r.kind = "slot"
  <2>1. r.idx \in Nat /\ r.idx < Len(m.table) /\ m.table \in Seq(Refs)
    BY <1>3 DEF InRange, Refs, Modules
  <2>2. r.idx + 1 \in DOMAIN m.table  BY <2>1
  <2>3. QED  BY <2>2, <1>3 DEF Denotes, FuncNum
<1>4. QED  BY <1>1, <1>2, <1>3 DEF Refs

\* Rewriting the number of a reference keeps its kind and its symbol.
LEMMA MoveKeeps ==
  ASSUME NEW r \in Refs, NEW F, NEW G, NEW S
  PROVE  Move(r, F, G, S).kind = r.kind /\ Move(r, F, G, S).sym = r.sym
<1>1. r.kind \in {"func", "glob", "slot"} /\ r = [kind |-> r.kind, idx |-> r.idx, sym |-> r.sym]  BY DEF Refs
<1>2. \A x : [r EXCEPT !.idx = x].kind = r.kind /\ [r EXCEPT !.idx = x].sym = r.sym  BY <1>1
<1>3. QED  BY <1>1, <1>2 DEF Move

\* Rewriting the number of a reference changes nothing else.
LEMMA MoveWorks ==
  ASSUME NEW r \in Refs, NEW F \in [Nat -> Nat], NEW G \in [Nat -> Nat], NEW S \in [Nat -> Nat]
  PROVE  /\ Move(r, F, G, S) \in Refs
         /\ Move(r, F, G, S).kind = r.kind /\ Move(r, F, G, S).sym = r.sym
         /\ r.kind = "func" => Move(r, F, G, S).idx = F[r.idx]
         /\ r.kind = "glob" => Move(r, F, G, S).idx = G[r.idx]
         /\ r.kind = "slot" => Move(r, F, G, S).idx = S[r.idx]
<1>1. r = [kind |-> r.kind, idx |-> r.idx, sym |-> r.sym] /\ r.kind \in {"func", "glob", "slot"}
      /\ r.idx \in Nat /\ r.sym \in Symbols
  BY DEF Refs
<1>2. CASE r.kind = "func"
  <2>1. Move(r, F, G, S) = [r EXCEPT !.idx = F[r.idx]]  BY <1>2 DEF Move
  <2>2. Move(r, F, G, S) = [kind |-> r.kind, idx |-> F[r.idx], sym |-> r.sym]  BY <1>1, <2>1
  <2>3. QED  BY <1>1, <1>2, <2>2 DEF Refs
<1>3. CASE r.kind = "glob"
  <2>1. Move(r, F, G, S) = [r EXCEPT !.idx = G[r.idx]]  BY <1>3 DEF Move
  <2>2. Move(r, F, G, S) = [kind |-> r.kind, idx |-> G[r.idx], sym |-> r.sym]  BY <1>1, <2>1
  <2>3. QED  BY <1>1, <1>3, <2>2 DEF Refs
<1>4. CASE r.kind = "slot"
  <2>1. Move(r, F, G, S) = [r EXCEPT !.idx = S[r.idx]]  BY <1>4 DEF Move
  <2>2. Move(r, F, G, S) = [kind |-> r.kind, idx |-> S[r.idx], sym |-> r.sym]  BY <1>1, <2>1
  <2>3. QED  BY <1>1, <1>4, <2>2 DEF Refs
<1>5. QED  BY <1>1, <1>2, <1>3, <1>4

\* The slots of n's table to which S takes those of m's hold the functions F says.
TableMoved(m, n, F, G, S) ==
  \A i \in 0 .. Len(m.table) - 1 : S[i] < Len(n.table) /\ n.table[S[i] + 1] = Move(m.table[i + 1], F, G, S)

\* A rewritten reference denotes what its new number says, through the table for a slot.
LEMMA MovedDenotes ==
  ASSUME NEW m \in Modules, NEW n \in Modules, InTable(m),
         NEW F \in [Nat -> Nat], NEW G \in [Nat -> Nat], NEW S \in [Nat -> Nat],
         TableMoved(m, n, F, G, S),
         NEW r \in Refs, InRange(m, r),
         r.kind = "func" => F[r.idx] < NFuncs(n),
         r.kind = "glob" => G[r.idx] < NGlobs(n)
  PROVE  /\ Move(r, F, G, S) \in Refs /\ InRange(n, Move(r, F, G, S))
         /\ Denotes(n, Move(r, F, G, S)) = IF r.kind = "glob" THEN GlobAt(n, G[r.idx])
                                                              ELSE FuncAt(n, F[FuncNum(m, r)])
<1>1. PICK q : q = Move(r, F, G, S)  OBVIOUS
<1>2. /\ q \in Refs /\ q.kind = r.kind
      /\ r.kind = "func" => q.idx = F[r.idx]
      /\ r.kind = "glob" => q.idx = G[r.idx]
      /\ r.kind = "slot" => q.idx = S[r.idx]
  BY <1>1, MoveWorks
<1>3. CASE r.kind = "func"
  <2>1. InRange(n, q)  BY <1>2, <1>3 DEF InRange
  <2>2. QED  BY <1>1, <1>2, <1>3, <2>1, DenotesIs DEF FuncNum
<1>4. CASE r.kind = "glob"
  <2>1. InRange(n, q)  BY <1>2, <1>4 DEF InRange
  <2>2. QED  BY <1>1, <1>2, <1>4, <2>1, DenotesIs DEF FuncNum
<1>5. CASE r.kind = "slot"
  <2>1. r.idx \in 0 .. Len(m.table) - 1 /\ m.table \in Seq(Refs)
    BY <1>5 DEF InRange, Refs, Modules
  <2>2. S[r.idx] < Len(n.table) /\ n.table[S[r.idx] + 1] = Move(m.table[r.idx + 1], F, G, S)
    BY <2>1 DEF TableMoved
  <2>3. InRange(n, q)  BY <1>2, <1>5, <2>2 DEF InRange
  <2>a. Len(m.table) \in Nat /\ DOMAIN m.table = 1 .. Len(m.table)
        /\ \A k \in 1 .. Len(m.table) : m.table[k] \in Refs
    BY ModuleFields
  <2>i. r.idx \in Nat /\ r.idx < Len(m.table)  BY <1>5 DEF InRange, Refs
  <2>b. r.idx + 1 \in 1 .. Len(m.table)
    <3>1. PICK i, L : i = r.idx /\ L = Len(m.table)  OBVIOUS
    <3>2. i \in Nat /\ L \in Nat /\ i < L  BY <2>i, <2>a, <3>1
    <3>3. i + 1 \in 1 .. L  BY <3>2
    <3>4. QED  BY <3>1, <3>3
  <2>4. r.idx + 1 \in DOMAIN m.table /\ m.table[r.idx + 1] \in Refs
    BY <2>a, <2>b
  <2>5. PICK e : e = m.table[r.idx + 1]  OBVIOUS
  <2>6. e \in Refs /\ e.kind = "func"  BY <2>1, <2>4, <2>5 DEF InTable
  <2>7. Move(e, F, G, S).idx = F[e.idx]  BY <2>6, MoveWorks
  <2>8. FuncNum(n, q) = F[e.idx] /\ FuncNum(m, r) = e.idx
    BY <1>2, <1>5, <2>2, <2>5, <2>7 DEF FuncNum
  <2>9. Denotes(n, q) = FuncAt(n, F[FuncNum(m, r)])
    BY <1>2, <1>5, <2>3, <2>8, DenotesIs
  <2>10. QED  BY <1>1, <1>2, <1>5, <2>3, <2>9
<1>6. QED  BY <1>3, <1>4, <1>5 DEF Refs

\* Where the references of a module are.
LEMMA AllRefsAre ==
  ASSUME NEW m \in Modules
  PROVE  /\ AllRefs(m) \subseteq Refs
         /\ \A r : r \in AllRefs(m) <=>
              \/ \E k \in 1 .. Len(m.funcs) : r \in m.funcs[k].refs
              \/ \E k \in 1 .. Len(m.table) : r = m.table[k]
              \/ \E k \in 1 .. Len(m.exps) : r = m.exps[k].ref
<1>1. \A r : r \in BodyRefs(m) <=> \E k \in 1 .. Len(m.funcs) : r \in m.funcs[k].refs
  BY ModuleFields DEF BodyRefs
<1>2. \A r : r \in Range(m.table) <=> \E k \in 1 .. Len(m.table) : r = m.table[k]
  BY ModuleFields DEF Range
<1>3. \A r : r \in {m.exps[k].ref : k \in DOMAIN m.exps} <=> \E k \in 1 .. Len(m.exps) : r = m.exps[k].ref
  BY ModuleFields
<1>4. \A r : r \in AllRefs(m) <=>
         \/ \E k \in 1 .. Len(m.funcs) : r \in m.funcs[k].refs
         \/ \E k \in 1 .. Len(m.table) : r = m.table[k]
         \/ \E k \in 1 .. Len(m.exps) : r = m.exps[k].ref
  BY <1>1, <1>2, <1>3 DEF AllRefs
<1>5. \A k \in 1 .. Len(m.funcs) : m.funcs[k].refs \subseteq Refs
  BY ModuleFields DEF Bodies
<1>6. \A k \in 1 .. Len(m.exps) : m.exps[k].ref \in Refs
  BY ModuleFields DEF Exps
<1>7. QED  BY <1>4, <1>5, <1>6, ModuleFields

MovedFuncs(s, F, G, S) == [k \in DOMAIN s |-> MoveBody(s[k], F, G, S)]
MovedExps(s, F, G, S)  == [k \in DOMAIN s |-> MoveExport(s[k], F, G, S)]
MovedTable(s, F, G, S) == [k \in DOMAIN s |-> Move(s[k], F, G, S)]

\* The references of a rewritten body are the rewritten references.
LEMMA MovedBody ==
  ASSUME NEW b \in Bodies, NEW F \in [Nat -> Nat], NEW G \in [Nat -> Nat], NEW S \in [Nat -> Nat]
  PROVE  /\ MoveBody(b, F, G, S) \in Bodies
         /\ MoveBody(b, F, G, S).id = b.id /\ MoveBody(b, F, G, S).argv = b.argv
         /\ \A q : q \in MoveBody(b, F, G, S).refs <=> \E r \in b.refs : q = Move(r, F, G, S)
<1>1. b = [id |-> b.id, argv |-> b.argv, refs |-> b.refs] /\ b.id \in Symbols /\ b.argv \in BOOLEAN
      /\ b.refs \subseteq Refs
  BY DEF Bodies
<1>2. PICK T : T = {Move(r, F, G, S) : r \in b.refs}  OBVIOUS
<1>3. \A q : q \in T <=> \E r \in b.refs : q = Move(r, F, G, S)  BY <1>2
<1>4. T \subseteq Refs  BY <1>1, <1>3, MoveWorks
<1>5. MoveBody(b, F, G, S) = [b EXCEPT !.refs = T]  BY <1>2 DEF MoveBody
<1>6. MoveBody(b, F, G, S) = [id |-> b.id, argv |-> b.argv, refs |-> T]  BY <1>1, <1>5
<1>7. QED  BY <1>1, <1>3, <1>4, <1>6 DEF Bodies

\* A rewritten export keeps its name.
LEMMA MovedExp ==
  ASSUME NEW b \in Exps, NEW F \in [Nat -> Nat], NEW G \in [Nat -> Nat], NEW S \in [Nat -> Nat]
  PROVE  /\ MoveExport(b, F, G, S) \in Exps /\ MoveExport(b, F, G, S).name = b.name
         /\ MoveExport(b, F, G, S).ref = Move(b.ref, F, G, S)
<1>1. b = [name |-> b.name, ref |-> b.ref] /\ b.name \in Text /\ b.ref \in Refs  BY DEF Exps
<1>2. PICK q : q = Move(b.ref, F, G, S)  OBVIOUS
<1>3. q \in Refs  BY <1>1, <1>2, MoveWorks
<1>5. MoveExport(b, F, G, S) = [b EXCEPT !.ref = q]  BY <1>2 DEF MoveExport
<1>6. MoveExport(b, F, G, S) = [name |-> b.name, ref |-> q]  BY <1>1, <1>5
<1>7. QED  BY <1>1, <1>2, <1>3, <1>6 DEF Exps

\* Rewriting the bodies: the same functions, their references rewritten.
LEMMA MovedFuncsWork ==
  ASSUME NEW F \in [Nat -> Nat], NEW G \in [Nat -> Nat], NEW S \in [Nat -> Nat],
         NEW s \in Seq(Bodies)
  PROVE  /\ MovedFuncs(s, F, G, S) \in Seq(Bodies) /\ Len(MovedFuncs(s, F, G, S)) = Len(s)
         /\ \A k \in 1 .. Len(s) :
              /\ MovedFuncs(s, F, G, S)[k].id = s[k].id
              /\ MovedFuncs(s, F, G, S)[k].argv = s[k].argv
              /\ \A q : q \in MovedFuncs(s, F, G, S)[k].refs <=> \E r \in s[k].refs : q = Move(r, F, G, S)
<1>1. DOMAIN s = 1 .. Len(s) /\ Len(s) \in Nat /\ \A k \in 1 .. Len(s) : s[k] \in Bodies
  BY Entries
<1>2. PICK f : f = MovedFuncs(s, F, G, S)  OBVIOUS
<1>3. f = [k \in 1 .. Len(s) |-> MoveBody(s[k], F, G, S)]  BY <1>1, <1>2 DEF MovedFuncs
<1>4. ASSUME NEW k \in 1 .. Len(s)
      PROVE  /\ f[k] \in Bodies /\ f[k].id = s[k].id /\ f[k].argv = s[k].argv
             /\ \A q : q \in f[k].refs <=> \E r \in s[k].refs : q = Move(r, F, G, S)
  <2>1. s[k] \in Bodies /\ f[k] = MoveBody(s[k], F, G, S)  BY <1>1, <1>3
  <2>2. PICK b \in Bodies : b = s[k]  BY <2>1
  <2>3. /\ MoveBody(b, F, G, S) \in Bodies
        /\ MoveBody(b, F, G, S).id = b.id /\ MoveBody(b, F, G, S).argv = b.argv
        /\ \A q : q \in MoveBody(b, F, G, S).refs <=> \E r \in b.refs : q = Move(r, F, G, S)
    BY MovedBody
  <2>4. PICK c : c = MoveBody(b, F, G, S)  OBVIOUS
  <2>5. f[k] = c /\ s[k] = b  BY <2>1, <2>2, <2>4
  <2>6. QED  BY <2>3, <2>4, <2>5
<1>5. f \in Seq(Bodies) /\ Len(f) = Len(s)
  <2>1. f = [k \in 1 .. Len(s) |-> f[k]]  BY <1>3
  <2>2. QED  BY <2>1, <1>1, <1>4
<1>6. QED  BY <1>2, <1>4, <1>5

\* Rewriting the exports: the same names, their references rewritten.
LEMMA MovedExpsWork ==
  ASSUME NEW F \in [Nat -> Nat], NEW G \in [Nat -> Nat], NEW S \in [Nat -> Nat],
         NEW s \in Seq(Exps)
  PROVE  /\ MovedExps(s, F, G, S) \in Seq(Exps) /\ Len(MovedExps(s, F, G, S)) = Len(s)
         /\ \A k \in 1 .. Len(s) : /\ MovedExps(s, F, G, S)[k].name = s[k].name
                                   /\ MovedExps(s, F, G, S)[k].ref = Move(s[k].ref, F, G, S)
<1>1. DOMAIN s = 1 .. Len(s) /\ Len(s) \in Nat /\ \A k \in 1 .. Len(s) : s[k] \in Exps
  BY Entries
<1>2. PICK f : f = MovedExps(s, F, G, S)  OBVIOUS
<1>3. f = [k \in 1 .. Len(s) |-> MoveExport(s[k], F, G, S)]  BY <1>1, <1>2 DEF MovedExps
<1>4. ASSUME NEW k \in 1 .. Len(s)
      PROVE  /\ f[k] \in Exps /\ f[k].name = s[k].name /\ f[k].ref = Move(s[k].ref, F, G, S)
  <2>1. s[k] \in Exps /\ f[k] = MoveExport(s[k], F, G, S)  BY <1>1, <1>3
  <2>2. PICK b \in Exps : b = s[k]  BY <2>1
  <2>3. /\ MoveExport(b, F, G, S) \in Exps /\ MoveExport(b, F, G, S).name = b.name
        /\ MoveExport(b, F, G, S).ref = Move(b.ref, F, G, S)
    BY MovedExp
  <2>4. PICK c : c = MoveExport(b, F, G, S)  OBVIOUS
  <2>5. f[k] = c /\ s[k] = b  BY <2>1, <2>2, <2>4
  <2>6. QED  BY <2>3, <2>4, <2>5
<1>5. f \in Seq(Exps) /\ Len(f) = Len(s)
  <2>1. f = [k \in 1 .. Len(s) |-> f[k]]  BY <1>3
  <2>2. QED  BY <2>1, <1>1, <1>4
<1>6. QED  BY <1>2, <1>4, <1>5

\* Rewriting the table, slot by slot.
LEMMA MovedTableWorks ==
  ASSUME NEW F \in [Nat -> Nat], NEW G \in [Nat -> Nat], NEW S \in [Nat -> Nat],
         NEW s \in Seq(Refs)
  PROVE  /\ MovedTable(s, F, G, S) \in Seq(Refs) /\ Len(MovedTable(s, F, G, S)) = Len(s)
         /\ \A k \in 1 .. Len(s) : MovedTable(s, F, G, S)[k] = Move(s[k], F, G, S)
<1>1. DOMAIN s = 1 .. Len(s) /\ Len(s) \in Nat /\ \A k \in 1 .. Len(s) : s[k] \in Refs
  BY Entries
<1>2. PICK f : f = MovedTable(s, F, G, S)  OBVIOUS
<1>3. f = [k \in 1 .. Len(s) |-> Move(s[k], F, G, S)]  BY <1>1, <1>2 DEF MovedTable
<1>4. \A k \in 1 .. Len(s) : Move(s[k], F, G, S) \in Refs  BY <1>1, MoveWorks
<1>5. f \in Seq(Refs) /\ Len(f) = Len(s) /\ \A k \in 1 .. Len(s) : f[k] = Move(s[k], F, G, S)
  BY <1>1, <1>3, <1>4
<1>6. QED  BY <1>2, <1>5

\* Reindex, field by field.
LEMMA ReindexIs ==
  ASSUME NEW m \in Modules, NEW F, NEW G, NEW S
  PROVE  Reindex(m, F, G, S) =
           [fimp |-> m.fimp, gimp |-> m.gimp, funcs |-> MovedFuncs(m.funcs, F, G, S), globs |-> m.globs,
            exps |-> MovedExps(m.exps, F, G, S), table |-> MovedTable(m.table, F, G, S),
            start |-> {F[i] : i \in m.start}]
<1>1. m = [fimp |-> m.fimp, gimp |-> m.gimp, funcs |-> m.funcs, globs |-> m.globs,
           exps |-> m.exps, table |-> m.table, start |-> m.start]
  BY DEF Modules
<1>2. Reindex(m, F, G, S) =
        [m EXCEPT !.funcs = MovedFuncs(m.funcs, F, G, S), !.exps = MovedExps(m.exps, F, G, S),
                  !.table = MovedTable(m.table, F, G, S), !.start = {F[i] : i \in m.start}]
  BY DEF Reindex, MovedFuncs, MovedExps, MovedTable
<1>3. QED  BY <1>1, <1>2

Renumber(m, F, G, S, fi, gi) ==
  [fimp |-> fi, gimp |-> gi, funcs |-> MovedFuncs(m.funcs, F, G, S), globs |-> m.globs,
   exps |-> MovedExps(m.exps, F, G, S), table |-> MovedTable(m.table, F, G, S),
   start |-> {F[i] : i \in m.start}]

Renumbers(n, m, F, G, S, fi, gi) ==
  /\ m \in Modules /\ F \in [Nat -> Nat] /\ G \in [Nat -> Nat] /\ S \in [Nat -> Nat]
  /\ fi \in Seq(Symbols) /\ gi \in Seq(Symbols) /\ n = Renumber(m, F, G, S, fi, gi)

\* What renumbering leaves alone, and what it does to the references.
LEMMA RenumberWorks ==
  ASSUME NEW m, NEW F, NEW G, NEW S, NEW fi, NEW gi, NEW n, Renumbers(n, m, F, G, S, fi, gi)
  PROVE  /\ n \in Modules /\ n.fimp = fi /\ n.gimp = gi /\ n.globs = m.globs
         /\ Ids(n) = Ids(m) /\ Len(n.funcs) = Len(m.funcs)
         /\ \A k \in 1 .. Len(m.funcs) : n.funcs[k].argv = m.funcs[k].argv
         /\ Len(n.exps) = Len(m.exps)
         /\ \A k \in 1 .. Len(m.exps) : /\ n.exps[k].name = m.exps[k].name
                                        /\ n.exps[k].ref = Move(m.exps[k].ref, F, G, S)
         /\ Len(n.table) = Len(m.table)
         /\ \A k \in 1 .. Len(m.table) : n.table[k] = Move(m.table[k], F, G, S)
         /\ InTable(m) => InTable(n)
         /\ n.start = {F[i] : i \in m.start}
         /\ \A q \in AllRefs(n) : \E r \in AllRefs(m) : q = Move(r, F, G, S)
<1>a. /\ m \in Modules /\ F \in [Nat -> Nat] /\ G \in [Nat -> Nat] /\ S \in [Nat -> Nat]
      /\ fi \in Seq(Symbols) /\ gi \in Seq(Symbols) /\ n = Renumber(m, F, G, S, fi, gi)
  BY DEF Renumbers
<1>1. PICK fs, es, tb, st : /\ fs = MovedFuncs(m.funcs, F, G, S) /\ es = MovedExps(m.exps, F, G, S)
                            /\ tb = MovedTable(m.table, F, G, S) /\ st = {F[i] : i \in m.start}
  OBVIOUS
<1>2. n = [fimp |-> fi, gimp |-> gi, funcs |-> fs, globs |-> m.globs, exps |-> es, table |-> tb, start |-> st]
  BY <1>a, <1>1 DEF Renumber
<1>3. /\ fs \in Seq(Bodies) /\ Len(fs) = Len(m.funcs)
      /\ \A k \in 1 .. Len(m.funcs) :
           /\ fs[k].id = m.funcs[k].id /\ fs[k].argv = m.funcs[k].argv
           /\ \A q : q \in fs[k].refs <=> \E r \in m.funcs[k].refs : q = Move(r, F, G, S)
  <2>1. PICK s \in Seq(Bodies) : s = m.funcs  BY <1>a, ModuleFields
  <2>2. fs = MovedFuncs(s, F, G, S)  BY <2>1, <1>1
  <2>3. PICK u : u = MovedFuncs(s, F, G, S)  OBVIOUS
  <2>4. /\ u \in Seq(Bodies) /\ Len(u) = Len(s)
        /\ \A k \in 1 .. Len(s) :
             /\ u[k].id = s[k].id /\ u[k].argv = s[k].argv
             /\ \A q : q \in u[k].refs <=> \E r \in s[k].refs : q = Move(r, F, G, S)
    <3>1. /\ MovedFuncs(s, F, G, S) \in Seq(Bodies) /\ Len(MovedFuncs(s, F, G, S)) = Len(s)
          /\ \A k \in 1 .. Len(s) :
              /\ MovedFuncs(s, F, G, S)[k].id = s[k].id
              /\ MovedFuncs(s, F, G, S)[k].argv = s[k].argv
              /\ \A q : q \in MovedFuncs(s, F, G, S)[k].refs <=> \E r \in s[k].refs : q = Move(r, F, G, S)
      BY <1>a, MovedFuncsWork
    <3>2. QED  BY <3>1, <2>3
  <2>5. QED  BY <2>1, <2>2, <2>3, <2>4
<1>4. /\ es \in Seq(Exps) /\ Len(es) = Len(m.exps)
      /\ \A k \in 1 .. Len(m.exps) : /\ es[k].name = m.exps[k].name
                                     /\ es[k].ref = Move(m.exps[k].ref, F, G, S)
  <2>1. PICK s \in Seq(Exps) : s = m.exps  BY <1>a, ModuleFields
  <2>2. es = MovedExps(s, F, G, S)  BY <2>1, <1>1
  <2>3. PICK u : u = MovedExps(s, F, G, S)  OBVIOUS
  <2>4. /\ u \in Seq(Exps) /\ Len(u) = Len(s)
        /\ \A k \in 1 .. Len(s) : u[k].name = s[k].name /\ u[k].ref = Move(s[k].ref, F, G, S)
    <3>1. /\ MovedExps(s, F, G, S) \in Seq(Exps) /\ Len(MovedExps(s, F, G, S)) = Len(s)
          /\ \A k \in 1 .. Len(s) : /\ MovedExps(s, F, G, S)[k].name = s[k].name
                                    /\ MovedExps(s, F, G, S)[k].ref = Move(s[k].ref, F, G, S)
      BY <1>a, MovedExpsWork, ZenonT(30)
    <3>2. QED  BY <3>1, <2>3
  <2>5. QED  BY <2>1, <2>2, <2>3, <2>4
<1>5. /\ tb \in Seq(Refs) /\ Len(tb) = Len(m.table)
      /\ \A k \in 1 .. Len(m.table) : tb[k] = Move(m.table[k], F, G, S)
  <2>1. PICK s \in Seq(Refs) : s = m.table  BY <1>a, ModuleFields
  <2>2. tb = MovedTable(s, F, G, S)  BY <2>1, <1>1
  <2>3. PICK u : u = MovedTable(s, F, G, S)  OBVIOUS
  <2>4. /\ u \in Seq(Refs) /\ Len(u) = Len(s)
        /\ \A k \in 1 .. Len(s) : u[k] = Move(s[k], F, G, S)
    <3>1. /\ MovedTable(s, F, G, S) \in Seq(Refs) /\ Len(MovedTable(s, F, G, S)) = Len(s)
          /\ \A k \in 1 .. Len(s) : MovedTable(s, F, G, S)[k] = Move(s[k], F, G, S)
      BY <1>a, MovedTableWorks
    <3>2. QED  BY <3>1, <2>3
  <2>5. QED  BY <2>1, <2>2, <2>3, <2>4
<1>6. st \in SUBSET Nat
  <2>1. m.start \subseteq Nat  BY <1>a, ModuleFields
  <2>2. QED  BY <1>a, <2>1, <1>1
<1>7. /\ n.fimp = fi /\ n.gimp = gi /\ n.globs = m.globs /\ n.funcs = fs /\ n.exps = es
      /\ n.table = tb /\ n.start = st
  BY <1>2
<1>8. n \in Modules
  <2>1. m.globs \in Seq(Symbols)  BY <1>a, ModuleFields
  <2>2. QED  BY <1>a, <2>1, <1>2, <1>3, <1>4, <1>5, <1>6 DEF Modules
<1>9. Ids(n) = Ids(m)
  <2>a. DOMAIN fs = 1 .. Len(fs)
    <3>1. fs \in Seq(Bodies)  BY <1>3
    <3>2. QED  BY <3>1, Entries
  <2>1. DOMAIN fs = 1 .. Len(m.funcs) /\ DOMAIN m.funcs = 1 .. Len(m.funcs)
    BY <1>a, <2>a, <1>3, ModuleFields
  <2>2. Ids(n) = [k \in 1 .. Len(m.funcs) |-> fs[k].id]  BY <1>7, <2>1 DEF Ids
  <2>3. Ids(m) = [k \in 1 .. Len(m.funcs) |-> m.funcs[k].id]  BY <2>1 DEF Ids
  <2>4. \A k \in 1 .. Len(m.funcs) : fs[k].id = m.funcs[k].id  BY <1>3
  <2>5. QED  BY <2>2, <2>3, <2>4
<1>10. InTable(m) => InTable(n)
  <2>1. SUFFICES ASSUME InTable(m), NEW k \in 1 .. Len(m.table) PROVE tb[k].kind = "func"
    <3>1. tb \in Seq(Refs)  BY <1>5
    <3>2. DOMAIN tb = 1 .. Len(tb)  BY <3>1, Entries
    <3>3. DOMAIN n.table = 1 .. Len(m.table)  BY <3>2, <1>5, <1>7
    <3>4. QED  BY <3>3, <1>7 DEF InTable
  <2>2. m.table[k] \in Refs /\ m.table[k].kind = "func"  BY <1>a, <2>1, ModuleFields DEF InTable
  <2>3. PICK r \in Refs : r = m.table[k]  BY <2>2
  <2>4. Move(r, F, G, S).kind = r.kind  BY <1>a, MoveKeeps
  <2>5. QED  BY <2>2, <2>3, <2>4, <1>5
<1>11. ASSUME NEW q \in AllRefs(n) PROVE \E r \in AllRefs(m) : q = Move(r, F, G, S)
  <2>1. CASE \E k \in 1 .. Len(n.funcs) : q \in n.funcs[k].refs
    <3>1. PICK k \in 1 .. Len(m.funcs) : q \in fs[k].refs  BY <2>1, <1>3, <1>7
    <3>2. PICK r \in m.funcs[k].refs : q = Move(r, F, G, S)  BY <3>1, <1>3
    <3>3. r \in AllRefs(m)  BY <1>a, <3>2, AllRefsAre
    <3>4. QED  BY <3>2, <3>3
  <2>2. CASE \E k \in 1 .. Len(n.table) : q = n.table[k]
    <3>1. PICK k \in 1 .. Len(m.table) : q = tb[k]  BY <2>2, <1>5, <1>7
    <3>2. m.table[k] \in AllRefs(m)  BY <1>a, AllRefsAre
    <3>3. QED  BY <3>1, <3>2, <1>5
  <2>3. CASE \E k \in 1 .. Len(n.exps) : q = n.exps[k].ref
    <3>1. PICK k \in 1 .. Len(m.exps) : q = es[k].ref  BY <2>3, <1>4, <1>7
    <3>2. m.exps[k].ref \in AllRefs(m)  BY <1>a, AllRefsAre
    <3>3. QED  BY <3>1, <3>2, <1>4
  <2>4. \/ \E k \in 1 .. Len(n.funcs) : q \in n.funcs[k].refs
        \/ \E k \in 1 .. Len(n.table) : q = n.table[k]
        \/ \E k \in 1 .. Len(n.exps) : q = n.exps[k].ref
    <3>1. \A r : r \in AllRefs(n) <=>
              \/ \E k \in 1 .. Len(n.funcs) : r \in n.funcs[k].refs
              \/ \E k \in 1 .. Len(n.table) : r = n.table[k]
              \/ \E k \in 1 .. Len(n.exps) : r = n.exps[k].ref
      <4>1. n \in Modules  BY <1>8
      <4>2. QED  BY <4>1, AllRefsAre, Zenon
    <3>2. q \in AllRefs(n)  OBVIOUS
    <3>3. QED  BY <3>1, <3>2
  <2>5. QED  BY <2>1, <2>2, <2>3, <2>4
<1>12. QED  BY <1>1, <1>3, <1>4, <1>5, <1>7, <1>8, <1>9, <1>10, <1>11

-----------------------------------------------------------------------------
\* Index spaces.
LEMMA NumberedAt ==
  ASSUME NEW S, NEW a \in Seq(S), NEW b \in Seq(S), NEW i \in Nat, i < Len(a) + Len(b)
  PROVE  /\ i < Len(a) => i + 1 \in 1 .. Len(a) /\ Numbered(a, b, i) = a[i + 1]
         /\ i >= Len(a) => i - Len(a) + 1 \in 1 .. Len(b) /\ Numbered(a, b, i) = b[i - Len(a) + 1]
         /\ Numbered(a, b, i) \in S
<1>1. /\ DOMAIN a = 1 .. Len(a) /\ Len(a) \in Nat /\ DOMAIN b = 1 .. Len(b) /\ Len(b) \in Nat
      /\ \A k \in 1 .. Len(a) : a[k] \in S /\ \A j \in 1 .. Len(b) : b[j] \in S
  BY Entries
<1>2. CASE i < Len(a)
  <2>1. i + 1 \in 1 .. Len(a)  BY <1>1, <1>2
  <2>2. Numbered(a, b, i) = a[i + 1]  BY <2>1, <1>1, <1>2 DEF Numbered, At
  <2>3. QED  BY <2>1, <2>2, <1>1, <1>2
<1>3. CASE i >= Len(a)
  <2>1. i - Len(a) + 1 \in 1 .. Len(b) /\ ~(i < Len(a))  BY <1>1, <1>3
  <2>2. Numbered(a, b, i) = b[i - Len(a) + 1]  BY <2>1, <1>1 DEF Numbered, At
  <2>3. b[i - Len(a) + 1] \in S
    <3>1. PICK j \in 1 .. Len(b) : j = i - Len(a) + 1  BY <2>1
    <3>2. b[j] \in S
      <4>1. b \in Seq(S)  OBVIOUS
      <4>2. QED  BY <4>1, <3>1, Entries
    <3>3. QED  BY <3>1, <3>2
  <2>4. QED  BY <2>1, <2>2, <2>3
<1>4. QED  BY <1>1, <1>2, <1>3

\* Imports dropped.
Leaves(S, a, b, drop, i) ==
  /\ a \in Seq(S) /\ b \in Seq(S) /\ drop \subseteq 0 .. Len(a) - 1
  /\ i \in Nat /\ i < Len(a) + Len(b) /\ i \notin drop

\* When imports are dropped, an element that stays is found under its new number.
LEMMA NumberedWithout ==
  ASSUME NEW S, NEW a, NEW b, NEW drop, NEW i, Leaves(S, a, b, drop, i)
  PROVE  /\ NewNumber(drop, i) \in Nat
         /\ NewNumber(drop, i) < Len(Without(a, drop)) + Len(b)
         /\ Numbered(Without(a, drop), b, NewNumber(drop, i)) = Numbered(a, b, i)
<1>0. /\ a \in Seq(S) /\ b \in Seq(S) /\ drop \subseteq 0 .. Len(a) - 1
      /\ i \in Nat /\ i < Len(a) + Len(b) /\ i \notin drop
  BY DEF Leaves
<1>1. PICK w, k : w = Without(a, drop) /\ k = NewNumber(drop, i)  OBVIOUS
<1>2. /\ w \in Seq(S) /\ Cardinality(drop) \in Nat /\ Len(w) = Len(a) - Cardinality(drop)
      /\ k \in Nat
      /\ i \in 0 .. Len(a) - 1 => k < Len(w) /\ w[k + 1] = a[i + 1]
      /\ i >= Len(a) => k = i - Cardinality(drop)
  BY <1>0, <1>1, WithoutWorks, ZenonT(30)
<1>3. Len(a) \in Nat /\ Len(b) \in Nat /\ Len(w) \in Nat  BY <1>0, <1>2, Entries
<1>4. CASE i < Len(a)
  <2>1. i \in 0 .. Len(a) - 1 /\ i \notin drop  BY <1>0, <1>4, <1>3
  <2>2. k < Len(w) /\ w[k + 1] = a[i + 1]  BY <2>1, <1>2
  <2>3. k < Len(w) + Len(b)  BY <1>0, <2>2, <1>2, <1>3
  <2>a. w \in Seq(S) /\ k \in Nat /\ k < Len(w) + Len(b) /\ k < Len(w)  BY <2>2, <2>3, <1>2
  <2>4. Numbered(w, b, k) = w[k + 1]  BY <1>0, <2>a, NumberedAt
  <2>5. Numbered(a, b, i) = a[i + 1]  BY <1>0, <1>4, NumberedAt
  <2>6. QED  BY <1>1, <1>2, <2>2, <2>3, <2>4, <2>5
<1>5. CASE i >= Len(a)
  <2>1. k = i - Cardinality(drop) /\ Len(w) = Len(a) - Cardinality(drop)  BY <1>2, <1>5
  <2>2. k >= Len(w) /\ k < Len(w) + Len(b) /\ k - Len(w) + 1 = i - Len(a) + 1
    BY <1>0, <2>1, <1>2, <1>3, <1>5
  <2>a. w \in Seq(S) /\ k \in Nat /\ k < Len(w) + Len(b) /\ k >= Len(w)  BY <2>2, <1>2
  <2>3. Numbered(w, b, k) = b[k - Len(w) + 1]  BY <1>0, <2>a, NumberedAt
  <2>4. Numbered(a, b, i) = b[i - Len(a) + 1]  BY <1>0, <1>5, NumberedAt
  <2>5. QED  BY <1>1, <1>2, <2>2, <2>3, <2>4
<1>6. QED  BY <1>0, <1>3, <1>4, <1>5

\* More imports and definitions behind: the first space's numbers.
Extends(S, a, b, c, d, i, j) ==
  /\ a \in Seq(S) /\ b \in Seq(S) /\ c \in Seq(S) /\ d \in Seq(S)
  /\ Len(c) >= Len(a) /\ \A k \in 1 .. Len(a) : c[k] = a[k]
  /\ i \in Nat /\ i < Len(a) + Len(b) /\ j = IF i >= Len(a) THEN i + (Len(c) - Len(a)) ELSE i

\* When imports and definitions are added behind, the shifted number finds the element.
LEMMA NumberedExtended ==
  ASSUME NEW S, NEW a, NEW b, NEW c, NEW d, NEW i, NEW j, Extends(S, a, b, c, d, i, j)
  PROVE  j \in Nat /\ j < Len(c) + Len(b \o d) /\ Numbered(c, b \o d, j) = Numbered(a, b, i)
<1>a. /\ a \in Seq(S) /\ b \in Seq(S) /\ c \in Seq(S) /\ d \in Seq(S)
      /\ Len(c) >= Len(a) /\ \A k \in 1 .. Len(a) : c[k] = a[k]
      /\ i \in Nat /\ i < Len(a) + Len(b) /\ j = IF i >= Len(a) THEN i + (Len(c) - Len(a)) ELSE i
  BY DEF Extends
<1>1. Len(a) \in Nat /\ Len(b) \in Nat /\ Len(c) \in Nat /\ Len(d) \in Nat  BY <1>a, Entries
<1>2. PICK e : e = b \o d  OBVIOUS
<1>3. e \in Seq(S) /\ Len(e) = Len(b) + Len(d) /\ \A k \in 1 .. Len(b) : e[k] = b[k]  BY <1>a, <1>2
<1>4. CASE i < Len(a)
  <2>1. j = i /\ j < Len(c) /\ j < Len(c) + Len(e) /\ i + 1 \in 1 .. Len(a)  BY <1>a, <1>1, <1>3, <1>4
  <2>a. c \in Seq(S) /\ e \in Seq(S) /\ j \in Nat /\ j < Len(c) + Len(e) /\ j < Len(c)  BY <1>a, <2>1, <1>3
  <2>2. Numbered(c, e, j) = c[j + 1]  BY <2>a, NumberedAt
  <2>b. a \in Seq(S) /\ b \in Seq(S) /\ i \in Nat /\ i < Len(a) + Len(b)  BY <1>a
  <2>3. Numbered(a, b, i) = a[i + 1]  BY <2>b, <1>4, NumberedAt
  <2>4. QED  BY <1>a, <1>2, <2>1, <2>2, <2>3
<1>5. CASE i >= Len(a)
  <2>1. /\ j \in Nat /\ j >= Len(c) /\ j < Len(c) + Len(e) /\ j - Len(c) + 1 = i - Len(a) + 1
        /\ i - Len(a) + 1 \in 1 .. Len(b)
    BY <1>a, <1>1, <1>3, <1>5
  <2>a. c \in Seq(S) /\ e \in Seq(S) /\ j \in Nat /\ j < Len(c) + Len(e) /\ j >= Len(c)  BY <1>a, <2>1, <1>3
  <2>2. Numbered(c, e, j) = e[j - Len(c) + 1]  BY <2>a, NumberedAt
  <2>b. a \in Seq(S) /\ b \in Seq(S) /\ i \in Nat /\ i < Len(a) + Len(b)  BY <1>a
  <2>3. Numbered(a, b, i) = b[i - Len(a) + 1]  BY <2>b, <1>5, NumberedAt
  <2>4. QED  BY <1>2, <1>3, <2>1, <2>2, <2>3
<1>6. QED  BY <1>a, <1>1, <1>4, <1>5

\* ... and those of a space joined to it.
Joins(S, a, b, c, d, i, j) ==
  /\ a \in Seq(S) /\ b \in Seq(S) /\ c \in Seq(S) /\ d \in Seq(S)
  /\ Range(a) \subseteq Range(c) /\ i \in Nat /\ i < Len(a) + Len(b)
  /\ j = IF i < Len(a) THEN PositionOf(c, a[i + 1]) ELSE Len(c) + Len(d) + i - Len(a)

\* The numbers of a space joined to another: imports by name, definitions behind.
LEMMA NumberedJoined ==
  ASSUME NEW S, NEW a, NEW b, NEW c, NEW d, NEW i, NEW j, Joins(S, a, b, c, d, i, j)
  PROVE  j \in Nat /\ j < Len(c) + Len(d \o b) /\ Numbered(c, d \o b, j) = Numbered(a, b, i)
<1>a. /\ a \in Seq(S) /\ b \in Seq(S) /\ c \in Seq(S) /\ d \in Seq(S)
      /\ Range(a) \subseteq Range(c) /\ i \in Nat /\ i < Len(a) + Len(b)
      /\ j = IF i < Len(a) THEN PositionOf(c, a[i + 1]) ELSE Len(c) + Len(d) + i - Len(a)
  BY DEF Joins
<1>1. Len(a) \in Nat /\ Len(b) \in Nat /\ Len(c) \in Nat /\ Len(d) \in Nat  BY <1>a, Entries
<1>2. PICK e : e = d \o b  OBVIOUS
<1>3. /\ e \in Seq(S) /\ Len(e) = Len(d) + Len(b)
      /\ \A k \in Len(d) + 1 .. Len(d) + Len(b) : e[k] = b[k - Len(d)]
  BY <1>a, <1>2
<1>4. CASE i < Len(a)
  <2>1. i + 1 \in 1 .. Len(a) /\ j = PositionOf(c, a[i + 1])  BY <1>a, <1>1, <1>4
  <2>2. a[i + 1] \in Range(c)
    <3>1. PICK k \in 1 .. Len(a) : k = i + 1  BY <2>1
    <3>2. a[k] \in Range(a)  BY <1>a, RangeOf
    <3>3. QED  BY <1>a, <3>1, <3>2
  <2>3. j \in 0 .. Len(c) - 1 /\ c[j + 1] = a[i + 1]
    <3>1. c \in Seq(S)  BY <1>a
    <3>2. QED  BY <3>1, <2>1, <2>2, PositionWorks
  <2>4. j \in Nat /\ j < Len(c) /\ j < Len(c) + Len(e)  BY <2>3, <1>1, <1>3
  <2>a. c \in Seq(S) /\ e \in Seq(S) /\ j \in Nat /\ j < Len(c) + Len(e) /\ j < Len(c)  BY <1>a, <2>4, <1>3
  <2>5. Numbered(c, e, j) = c[j + 1]  BY <2>a, NumberedAt
  <2>b. a \in Seq(S) /\ b \in Seq(S) /\ i \in Nat /\ i < Len(a) + Len(b)  BY <1>a
  <2>6. Numbered(a, b, i) = a[i + 1]  BY <2>b, <1>4, NumberedAt
  <2>7. QED  BY <1>2, <2>3, <2>4, <2>5, <2>6
<1>5. CASE i >= Len(a)
  <2>1. j = Len(c) + Len(d) + i - Len(a)  BY <1>a, <1>1, <1>5
  <2>2. /\ j \in Nat /\ j >= Len(c) /\ j < Len(c) + Len(e)
        /\ j - Len(c) + 1 \in Len(d) + 1 .. Len(d) + Len(b)
        /\ (j - Len(c) + 1) - Len(d) = i - Len(a) + 1
    BY <1>a, <2>1, <1>1, <1>3, <1>5
  <2>a. c \in Seq(S) /\ e \in Seq(S) /\ j \in Nat /\ j < Len(c) + Len(e) /\ j >= Len(c)  BY <1>a, <2>2, <1>3
  <2>3. Numbered(c, e, j) = e[j - Len(c) + 1]  BY <2>a, NumberedAt
  <2>4. e[j - Len(c) + 1] = b[i - Len(a) + 1]
    <3>1. PICK k \in Len(d) + 1 .. Len(d) + Len(b) : k = j - Len(c) + 1  BY <2>2
    <3>2. e[k] = b[k - Len(d)] /\ k - Len(d) = i - Len(a) + 1  BY <1>3, <3>1, <2>2
    <3>3. QED  BY <3>1, <3>2
  <2>b. a \in Seq(S) /\ b \in Seq(S) /\ i \in Nat /\ i < Len(a) + Len(b)  BY <1>a
  <2>5. Numbered(a, b, i) = b[i - Len(a) + 1]  BY <2>b, <1>5, NumberedAt
  <2>6. QED  BY <1>2, <2>2, <2>3, <2>4, <2>5
<1>6. QED  BY <1>a, <1>1, <1>4, <1>5

\* Every number of the module is in range.
Whole(m) ==
  /\ m \in Modules /\ InTable(m)
  /\ \A r \in AllRefs(m) : InRange(m, r)
  /\ \A i \in m.start : i < NFuncs(m)

\* In a whole module every function reference, also through a slot, reaches a function.
LEMMA WholeFuncNum ==
  ASSUME NEW m, Whole(m), NEW r \in AllRefs(m), r.kind # "glob"
  PROVE  FuncNum(m, r) \in Nat /\ FuncNum(m, r) < NFuncs(m)
<1>1. m \in Modules /\ r \in Refs /\ InRange(m, r)  BY AllRefsAre DEF Whole
<1>2. CASE r.kind = "func"
  BY <1>1, <1>2 DEF FuncNum, InRange, Refs
<1>3. CASE r.kind = "slot"
  <2>1. r.idx \in Nat /\ r.idx < Len(m.table)  BY <1>1, <1>3 DEF InRange, Refs
  <2>2. /\ Len(m.table) \in Nat /\ DOMAIN m.table = 1 .. Len(m.table)
        /\ \A k \in 1 .. Len(m.table) : m.table[k] \in Refs
    BY <1>1, ModuleFields
  <2>3. PICK k \in 1 .. Len(m.table) : k = r.idx + 1
    <3>1. PICK i, L : i = r.idx /\ L = Len(m.table)  OBVIOUS
    <3>2. i \in Nat /\ L \in Nat /\ i < L  BY <2>1, <2>2, <3>1
    <3>3. i + 1 \in 1 .. L  BY <3>2
    <3>4. QED  BY <3>1, <3>3
  <2>4. PICK e : e = m.table[k]  OBVIOUS
  <2>5. e \in AllRefs(m) /\ e.kind = "func" /\ e \in Refs
    <3>1. e \in AllRefs(m)  BY <1>1, <2>3, <2>4, AllRefsAre
    <3>2. QED  BY <3>1, <2>2, <2>3, <2>4 DEF Whole, InTable
  <2>6. InRange(m, e)  BY <2>5 DEF Whole
  <2>7. e.idx \in Nat /\ e.idx < NFuncs(m)  BY <2>5, <2>6 DEF InRange, Refs
  <2>8. FuncNum(m, r) = e.idx  BY <1>3, <2>3, <2>4 DEF FuncNum
  <2>9. QED  BY <2>7, <2>8
<1>4. QED  BY <1>1, <1>2, <1>3 DEF Refs

\* A reference keeps what it denotes when the numbers it goes through do.
Carries(m, n, F, G, S, U, V) ==
  /\ Whole(m) /\ n \in Modules /\ F \in [Nat -> Nat] /\ G \in [Nat -> Nat] /\ S \in [Nat -> Nat]
  /\ TableMoved(m, n, F, G, S)
  /\ \A i \in Nat : i < NFuncs(m) /\ i \in U => F[i] < NFuncs(n) /\ FuncAt(n, F[i]) = FuncAt(m, i)
  /\ \A i \in Nat : i < NGlobs(m) /\ i \in V => G[i] < NGlobs(n) /\ GlobAt(n, G[i]) = GlobAt(m, i)

\* A reference denotes the same when the number it goes through does.
LEMMA Preserved ==
  ASSUME NEW m, NEW n, NEW F, NEW G, NEW S, NEW U, NEW V, Carries(m, n, F, G, S, U, V),
         NEW r \in AllRefs(m), r.kind # "glob" => FuncNum(m, r) \in U, r.kind = "glob" => r.idx \in V
  PROVE  /\ Move(r, F, G, S) \in Refs /\ InRange(n, Move(r, F, G, S))
         /\ Denotes(n, Move(r, F, G, S)) = Denotes(m, r)
<1>a. /\ Whole(m) /\ n \in Modules /\ F \in [Nat -> Nat] /\ G \in [Nat -> Nat] /\ S \in [Nat -> Nat]
      /\ TableMoved(m, n, F, G, S)
      /\ \A i \in Nat : i < NFuncs(m) /\ i \in U => F[i] < NFuncs(n) /\ FuncAt(n, F[i]) = FuncAt(m, i)
      /\ \A i \in Nat : i < NGlobs(m) /\ i \in V => G[i] < NGlobs(n) /\ GlobAt(n, G[i]) = GlobAt(m, i)
  BY DEF Carries
<1>1. m \in Modules /\ r \in Refs /\ InRange(m, r) /\ InTable(m)  BY <1>a, AllRefsAre DEF Whole
<1>2. CASE r.kind = "glob"
  <2>1. r.idx \in Nat /\ r.idx < NGlobs(m)  BY <1>1, <1>2 DEF InRange, Refs
  <2>2. G[r.idx] < NGlobs(n) /\ GlobAt(n, G[r.idx]) = GlobAt(m, r.idx)  BY <2>1, <1>2, <1>a
  <2>3. /\ Move(r, F, G, S) \in Refs /\ InRange(n, Move(r, F, G, S))
        /\ Denotes(n, Move(r, F, G, S)) = GlobAt(n, G[r.idx])
    BY <1>a, <1>1, <1>2, <2>2, MovedDenotes
  <2>4. Denotes(m, r) = GlobAt(m, r.idx)  BY <1>1, <1>2, DenotesIs
  <2>5. QED  BY <2>2, <2>3, <2>4
<1>3. CASE r.kind # "glob"
  <2>1. PICK i : i = FuncNum(m, r)  OBVIOUS
  <2>2. i \in Nat /\ i < NFuncs(m) /\ i \in U  BY <1>a, <1>3, <2>1, WholeFuncNum
  <2>3. F[i] < NFuncs(n) /\ FuncAt(n, F[i]) = FuncAt(m, i)  BY <1>a, <2>2
  <2>4. r.kind = "func" => F[r.idx] < NFuncs(n)  BY <2>1, <2>3 DEF FuncNum
  <2>5. /\ Move(r, F, G, S) \in Refs /\ InRange(n, Move(r, F, G, S))
        /\ Denotes(n, Move(r, F, G, S)) = FuncAt(n, F[FuncNum(m, r)])
    BY <1>a, <1>1, <1>3, <2>4, MovedDenotes
  <2>6. Denotes(m, r) = FuncAt(m, FuncNum(m, r))  BY <1>1, <1>3, DenotesIs
  <2>7. QED  BY <2>1, <2>3, <2>5, <2>6
<1>4. QED  BY <1>2, <1>3

-----------------------------------------------------------------------------
\* Joining two modules.
Joined(fi, gi, a, b, gl) ==
  [fimp |-> fi, gimp |-> gi, funcs |-> a.funcs \o b.funcs, globs |-> gl,
   exps |-> a.exps \o b.exps, table |-> a.table \o b.table, start |-> a.start]

\* The entries of a concatenation.
LEMMA ConcatAt ==
  ASSUME NEW S, NEW s \in Seq(S), NEW t \in Seq(S)
  PROVE  /\ s \o t \in Seq(S) /\ Len(s \o t) = Len(s) + Len(t) /\ Len(s) \in Nat /\ Len(t) \in Nat
         /\ \A k \in 1 .. Len(s) : k \in 1 .. Len(s) + Len(t) /\ (s \o t)[k] = s[k]
         /\ \A k \in 1 .. Len(t) : Len(s) + k \in 1 .. Len(s) + Len(t) /\ (s \o t)[Len(s) + k] = t[k]
         /\ \A k \in 1 .. Len(s) + Len(t) :
              \/ k \in 1 .. Len(s) /\ (s \o t)[k] = s[k]
              \/ \E j \in 1 .. Len(t) : k = Len(s) + j /\ (s \o t)[k] = t[j]
<1>1. Len(s) \in Nat /\ Len(t) \in Nat  OBVIOUS
<1>2. PICK u : u = s \o t  OBVIOUS
<1>3. /\ u \in Seq(S) /\ Len(u) = Len(s) + Len(t)
      /\ \A k \in 1 .. Len(s) : u[k] = s[k]
      /\ \A k \in Len(s) + 1 .. Len(s) + Len(t) : u[k] = t[k - Len(s)]
  BY <1>2
<1>4. \A k \in 1 .. Len(s) : k \in 1 .. Len(s) + Len(t)  BY <1>1
<1>5. ASSUME NEW k \in 1 .. Len(t)
      PROVE  Len(s) + k \in 1 .. Len(s) + Len(t) /\ u[Len(s) + k] = t[k]
  <2>1. PICK j : j = Len(s) + k  OBVIOUS
  <2>2. j \in Len(s) + 1 .. Len(s) + Len(t) /\ j - Len(s) = k /\ j \in 1 .. Len(s) + Len(t)
    BY <1>1, <2>1
  <2>3. QED  BY <2>1, <2>2, <1>3
<1>6. ASSUME NEW k \in 1 .. Len(s) + Len(t)
      PROVE  \/ k \in 1 .. Len(s) /\ u[k] = s[k]
             \/ \E j \in 1 .. Len(t) : k = Len(s) + j /\ u[k] = t[j]
  <2>1. CASE k <= Len(s)  BY <2>1, <1>1, <1>3
  <2>2. CASE k > Len(s)
    <3>1. PICK j : j = k - Len(s)  OBVIOUS
    <3>2. j \in 1 .. Len(t) /\ k = Len(s) + j  BY <2>2, <3>1, <1>1
    <3>3. QED  BY <3>2, <1>5
  <2>3. QED  BY <2>1, <2>2, <1>1
<1>7. QED  BY <1>1, <1>2, <1>3, <1>4, <1>5, <1>6

\* u is s followed by t, entry by entry.
Concats(u, S, s, t) ==
  /\ u \in Seq(S) /\ Len(u) = Len(s) + Len(t) /\ Len(s) \in Nat /\ Len(t) \in Nat
  /\ \A k \in 1 .. Len(s) : k \in 1 .. Len(u) /\ u[k] = s[k]
  /\ \A k \in 1 .. Len(t) : Len(s) + k \in 1 .. Len(u) /\ u[Len(s) + k] = t[k]
  /\ \A k \in 1 .. Len(u) : \/ k \in 1 .. Len(s) /\ u[k] = s[k]
                            \/ \E j \in 1 .. Len(t) : k = Len(s) + j /\ u[k] = t[j]

\* A concatenation, as one fact.
LEMMA ConcatIs ==
  ASSUME NEW S, NEW s \in Seq(S), NEW t \in Seq(S)
  PROVE  Concats(s \o t, S, s, t)
<1>1. /\ s \o t \in Seq(S) /\ Len(s \o t) = Len(s) + Len(t) /\ Len(s) \in Nat /\ Len(t) \in Nat
      /\ \A k \in 1 .. Len(s) : k \in 1 .. Len(s) + Len(t) /\ (s \o t)[k] = s[k]
      /\ \A k \in 1 .. Len(t) : Len(s) + k \in 1 .. Len(s) + Len(t) /\ (s \o t)[Len(s) + k] = t[k]
      /\ \A k \in 1 .. Len(s) + Len(t) :
           \/ k \in 1 .. Len(s) /\ (s \o t)[k] = s[k]
           \/ \E j \in 1 .. Len(t) : k = Len(s) + j /\ (s \o t)[k] = t[j]
  BY ConcatAt
<1>2. PICK u : u = s \o t  OBVIOUS
<1>3. Concats(u, S, s, t)  BY <1>1, <1>2 DEF Concats
<1>4. QED  BY <1>2, <1>3

Cat(s, t) == s \o t
JoinedFrom(n, fi, gi, a, b, gl) ==
  /\ a \in Modules /\ b \in Modules /\ fi \in Seq(Symbols) /\ gi \in Seq(Symbols) /\ gl \in Seq(Symbols)
  /\ n = Joined(fi, gi, a, b, gl)

\* The fields and the references of a joined module.
LEMMA JoinedIs ==
  ASSUME NEW a, NEW b, NEW fi, NEW gi, NEW gl, NEW n, JoinedFrom(n, fi, gi, a, b, gl)
  PROVE  /\ n \in Modules /\ n.fimp = fi /\ n.gimp = gi /\ n.globs = gl /\ n.start = a.start
         /\ n.exps = Cat(a.exps, b.exps) /\ n.table = Cat(a.table, b.table)
         /\ Ids(n) = Ids(a) \o Ids(b)
         /\ AllRefs(n) = AllRefs(a) \cup AllRefs(b)
<1>a. /\ a \in Modules /\ b \in Modules /\ fi \in Seq(Symbols) /\ gi \in Seq(Symbols) /\ gl \in Seq(Symbols)
      /\ n = Joined(fi, gi, a, b, gl)
  BY DEF JoinedFrom
<1>1. /\ a.funcs \in Seq(Bodies) /\ b.funcs \in Seq(Bodies) /\ a.exps \in Seq(Exps) /\ b.exps \in Seq(Exps)
      /\ a.table \in Seq(Refs) /\ b.table \in Seq(Refs) /\ a.start \in SUBSET Nat
  BY <1>a, ModuleFields
<1>2. PICK fa, fb, ea, eb, ta, tb : /\ fa = a.funcs /\ fb = b.funcs /\ ea = a.exps /\ eb = b.exps
                                    /\ ta = a.table /\ tb = b.table
  OBVIOUS
<1>3. /\ fa \in Seq(Bodies) /\ fb \in Seq(Bodies) /\ ea \in Seq(Exps) /\ eb \in Seq(Exps)
      /\ ta \in Seq(Refs) /\ tb \in Seq(Refs)
  BY <1>1, <1>2
<1>4. PICK f, e, t : f = fa \o fb /\ e = ea \o eb /\ t = ta \o tb  OBVIOUS
<1>5. /\ f \in Seq(Bodies) /\ Len(f) = Len(fa) + Len(fb) /\ Len(fa) \in Nat /\ Len(fb) \in Nat
      /\ \A k \in 1 .. Len(fa) : k \in 1 .. Len(fa) + Len(fb) /\ f[k] = fa[k]
      /\ \A k \in 1 .. Len(fb) : Len(fa) + k \in 1 .. Len(fa) + Len(fb) /\ f[Len(fa) + k] = fb[k]
      /\ \A k \in 1 .. Len(fa) + Len(fb) :
              \/ k \in 1 .. Len(fa) /\ f[k] = fa[k]
              \/ \E j \in 1 .. Len(fb) : k = Len(fa) + j /\ f[k] = fb[j]
  BY <1>3, <1>4, ConcatAt, SMTT(20)
<1>6. /\ e \in Seq(Exps) /\ Len(e) = Len(ea) + Len(eb) /\ Len(ea) \in Nat /\ Len(eb) \in Nat
      /\ \A k \in 1 .. Len(ea) : k \in 1 .. Len(ea) + Len(eb) /\ e[k] = ea[k]
      /\ \A k \in 1 .. Len(eb) : Len(ea) + k \in 1 .. Len(ea) + Len(eb) /\ e[Len(ea) + k] = eb[k]
      /\ \A k \in 1 .. Len(ea) + Len(eb) :
              \/ k \in 1 .. Len(ea) /\ e[k] = ea[k]
              \/ \E j \in 1 .. Len(eb) : k = Len(ea) + j /\ e[k] = eb[j]
  BY <1>3, <1>4, ConcatAt, SMTT(20)
<1>7. /\ t \in Seq(Refs) /\ Len(t) = Len(ta) + Len(tb) /\ Len(ta) \in Nat /\ Len(tb) \in Nat
      /\ \A k \in 1 .. Len(ta) : k \in 1 .. Len(ta) + Len(tb) /\ t[k] = ta[k]
      /\ \A k \in 1 .. Len(tb) : Len(ta) + k \in 1 .. Len(ta) + Len(tb) /\ t[Len(ta) + k] = tb[k]
      /\ \A k \in 1 .. Len(ta) + Len(tb) :
              \/ k \in 1 .. Len(ta) /\ t[k] = ta[k]
              \/ \E j \in 1 .. Len(tb) : k = Len(ta) + j /\ t[k] = tb[j]
  BY <1>3, <1>4, ConcatAt, SMTT(20)
<1>8. n = [fimp |-> fi, gimp |-> gi, funcs |-> f, globs |-> gl, exps |-> e, table |-> t, start |-> a.start]
  BY <1>a, <1>2, <1>4 DEF Joined
<1>9. /\ n.fimp = fi /\ n.gimp = gi /\ n.globs = gl /\ n.start = a.start
      /\ n.funcs = f /\ n.exps = e /\ n.table = t
  BY <1>8
<1>10. n \in Modules
  BY <1>a, <1>1, <1>5, <1>6, <1>7, <1>8 DEF Modules
<1>11. Ids(n) = Ids(a) \o Ids(b)
  <2>1. PICK ia, ib, i : ia = Ids(a) /\ ib = Ids(b) /\ i = Ids(n)  OBVIOUS
  <2>2. /\ ia \in Seq(Symbols) /\ Len(ia) = Len(fa) /\ \A k \in 1 .. Len(fa) : ia[k] = fa[k].id
        /\ ib \in Seq(Symbols) /\ Len(ib) = Len(fb) /\ \A k \in 1 .. Len(fb) : ib[k] = fb[k].id
    BY <1>a, <2>1, <1>2, IdsOf
  <2>3. i \in Seq(Symbols) /\ Len(i) = Len(f) /\ \A k \in 1 .. Len(f) : i[k] = f[k].id
    BY <2>1, <1>9, <1>10, IdsOf
  <2>4. PICK j : j = ia \o ib  OBVIOUS
  <2>5. /\ j \in Seq(Symbols) /\ Len(j) = Len(fa) + Len(fb)
        /\ \A k \in 1 .. Len(fa) : j[k] = ia[k]
        /\ \A k \in 1 .. Len(fb) : j[Len(fa) + k] = ib[k]
    <3>1. /\ ia \o ib \in Seq(Symbols) /\ Len(ia \o ib) = Len(ia) + Len(ib)
          /\ \A k \in 1 .. Len(ia) : (ia \o ib)[k] = ia[k]
          /\ \A k \in 1 .. Len(ib) : (ia \o ib)[Len(ia) + k] = ib[k]
      <4>1. ia \in Seq(Symbols) /\ ib \in Seq(Symbols)  BY <2>2
      <4>2. QED  BY <4>1, ConcatAt
    <3>2. QED  BY <3>1, <2>2, <2>4
  <2>6. ASSUME NEW k \in 1 .. Len(fa) + Len(fb) PROVE i[k] = j[k]
    <3>1. i[k] = f[k].id  BY <2>3, <1>5
    <3>2. CASE k \in 1 .. Len(fa) /\ f[k] = fa[k]  BY <3>1, <3>2, <2>2, <2>5
    <3>3. CASE \E h \in 1 .. Len(fb) : k = Len(fa) + h /\ f[k] = fb[h]
      BY <3>1, <3>3, <2>2, <2>5
    <3>4. QED  BY <3>2, <3>3, <1>5
  <2>7. i = j
    <3>1. i = [k \in 1 .. Len(fa) + Len(fb) |-> i[k]] /\ j = [k \in 1 .. Len(fa) + Len(fb) |-> j[k]]
      BY <2>3, <2>5, <1>5
    <3>2. QED  BY <3>1, <2>6
  <2>8. QED  BY <2>1, <2>4, <2>7
<1>12. ASSUME NEW q PROVE q \in AllRefs(n) <=> q \in AllRefs(a) \/ q \in AllRefs(b)
  <2>1. q \in AllRefs(n) <=> \/ \E k \in 1 .. Len(fa) + Len(fb) : q \in f[k].refs
                             \/ \E k \in 1 .. Len(ta) + Len(tb) : q = t[k]
                             \/ \E k \in 1 .. Len(ea) + Len(eb) : q = e[k].ref
    <3>1. n \in Modules  BY <1>10
    <3>2. q \in AllRefs(n) <=>
            \/ \E k \in 1 .. Len(n.funcs) : q \in n.funcs[k].refs
            \/ \E k \in 1 .. Len(n.table) : q = n.table[k]
            \/ \E k \in 1 .. Len(n.exps) : q = n.exps[k].ref
      BY <3>1, AllRefsAre
    <3>3. /\ n.funcs = f /\ n.exps = e /\ n.table = t /\ Len(f) = Len(fa) + Len(fb)
          /\ Len(t) = Len(ta) + Len(tb) /\ Len(e) = Len(ea) + Len(eb)
      BY <1>5, <1>6, <1>7, <1>9
    <3>4. QED  BY <3>2, <3>3
  <2>2. q \in AllRefs(a) <=> \/ \E k \in 1 .. Len(fa) : q \in fa[k].refs
                             \/ \E k \in 1 .. Len(ta) : q = ta[k]
                             \/ \E k \in 1 .. Len(ea) : q = ea[k].ref
    BY <1>a, <1>2, AllRefsAre
  <2>3. q \in AllRefs(b) <=> \/ \E k \in 1 .. Len(fb) : q \in fb[k].refs
                             \/ \E k \in 1 .. Len(tb) : q = tb[k]
                             \/ \E k \in 1 .. Len(eb) : q = eb[k].ref
    BY <1>a, <1>2, AllRefsAre
  <2>4. (\E k \in 1 .. Len(fa) + Len(fb) : q \in f[k].refs)
          <=> (\E k \in 1 .. Len(fa) : q \in fa[k].refs) \/ (\E k \in 1 .. Len(fb) : q \in fb[k].refs)
    BY <1>5
  <2>5. (\E k \in 1 .. Len(ta) + Len(tb) : q = t[k])
          <=> (\E k \in 1 .. Len(ta) : q = ta[k]) \/ (\E k \in 1 .. Len(tb) : q = tb[k])
    BY <1>7
  <2>6. (\E k \in 1 .. Len(ea) + Len(eb) : q = e[k].ref)
          <=> (\E k \in 1 .. Len(ea) : q = ea[k].ref) \/ (\E k \in 1 .. Len(eb) : q = eb[k].ref)
    BY <1>6, ZenonT(30)
  <2>7. QED  BY <2>1, <2>2, <2>3, <2>4, <2>5, <2>6
<1>13. AllRefs(n) = AllRefs(a) \cup AllRefs(b)  BY <1>12
<1>14. n.exps = Cat(a.exps, b.exps) /\ n.table = Cat(a.table, b.table)
  <2>1. e = Cat(a.exps, b.exps) /\ t = Cat(a.table, b.table)  BY <1>2, <1>4 DEF Cat
  <2>2. QED  BY <2>1, <1>9
<1>15. QED  BY <1>9, <1>10, <1>11, <1>13, <1>14

\* Every number denotes what the source meant.
Named(m) == \A r \in AllRefs(m) : Denotes(m, r) = r.sym

\* The renumberings of a merge of b into a.
MergesBy(a, b, n, fi, gi, F, G, H, J, K) ==
  /\ fi \in Seq(Symbols) /\ gi \in Seq(Symbols)
  /\ fi = Dedup(a.fimp, b.fimp) /\ gi = Dedup(a.gimp, b.gimp)
  /\ F \in [Nat -> Nat] /\ G \in [Nat -> Nat] /\ H \in [Nat -> Nat] /\ J \in [Nat -> Nat] /\ K \in [Nat -> Nat]
  /\ Same \in [Nat -> Nat]
  /\ \A i \in Nat : /\ F[i] = IF i >= Len(a.fimp) THEN i + (Len(fi) - Len(a.fimp)) ELSE i
                    /\ G[i] = IF i >= Len(a.gimp) THEN i + (Len(gi) - Len(a.gimp)) ELSE i
                    /\ H[i] = IF i < Len(b.fimp) THEN PositionOf(fi, b.fimp[i + 1])
                                                 ELSE Len(fi) + Len(a.funcs) + i - Len(b.fimp)
                    /\ J[i] = IF i < Len(b.gimp) THEN PositionOf(gi, b.gimp[i + 1])
                                                 ELSE Len(gi) + Len(a.globs) + i - Len(b.gimp)
                    /\ K[i] = Len(a.table) + i
  /\ n = Joined(fi, gi, Renumber(a, F, G, Same, a.fimp, a.gimp),
                Renumber(b, H, J, K, b.fimp, b.gimp), a.globs \o b.globs)

\* MergeOne is a renumbering of both modules, joined.
LEMMA MergeParts ==
  ASSUME NEW a \in Modules, NEW b \in Modules, NEW n, n = MergeOne(a, b)
  PROVE  \E fi, gi, F, G, H, J, K : MergesBy(a, b, n, fi, gi, F, G, H, J, K)
<1>1. /\ a.fimp \in Seq(Symbols) /\ a.gimp \in Seq(Symbols) /\ b.fimp \in Seq(Symbols) /\ b.gimp \in Seq(Symbols)
      /\ Len(a.fimp) \in Nat /\ Len(a.gimp) \in Nat /\ Len(b.fimp) \in Nat /\ Len(b.gimp) \in Nat
      /\ Len(a.funcs) \in Nat /\ Len(a.globs) \in Nat /\ Len(a.table) \in Nat
  BY ModuleFields
<1>2. PICK fi, gi : fi = Dedup(a.fimp, b.fimp) /\ gi = Dedup(a.gimp, b.gimp)  OBVIOUS
<1>3. /\ fi \in Seq(Symbols) /\ Range(fi) = Range(a.fimp) \cup Range(b.fimp) /\ Len(fi) >= Len(a.fimp)
  <2>1. PICK s, t : s = a.fimp /\ t = b.fimp  OBVIOUS
  <2>2. s \in Seq(Symbols) /\ t \in Seq(Symbols)  BY <1>1, <2>1
  <2>3. Dedup(s, t) \in Seq(Symbols) /\ Range(Dedup(s, t)) = Range(s) \cup Range(t) /\ Len(Dedup(s, t)) >= Len(s)
    BY <2>2, DedupWorks
  <2>4. QED  BY <1>2, <2>1, <2>3
<1>4. /\ gi \in Seq(Symbols) /\ Range(gi) = Range(a.gimp) \cup Range(b.gimp) /\ Len(gi) >= Len(a.gimp)
  <2>1. PICK s, t : s = a.gimp /\ t = b.gimp  OBVIOUS
  <2>2. s \in Seq(Symbols) /\ t \in Seq(Symbols)  BY <1>1, <2>1
  <2>3. Dedup(s, t) \in Seq(Symbols) /\ Range(Dedup(s, t)) = Range(s) \cup Range(t) /\ Len(Dedup(s, t)) >= Len(s)
    BY <2>2, DedupWorks
  <2>4. QED  BY <1>2, <2>1, <2>3
<1>5. Len(fi) \in Nat /\ Len(gi) \in Nat  BY <1>3, <1>4
<1>6. PICK F : F = [i \in Nat |-> IF i >= Len(a.fimp) THEN i + (Len(fi) - Len(a.fimp)) ELSE i]  OBVIOUS
<1>7. PICK G : G = [i \in Nat |-> IF i >= Len(a.gimp) THEN i + (Len(gi) - Len(a.gimp)) ELSE i]  OBVIOUS
<1>8. PICK H : H = [i \in Nat |-> IF i < Len(b.fimp) THEN PositionOf(fi, b.fimp[i + 1])
                                                     ELSE Len(fi) + Len(a.funcs) + i - Len(b.fimp)]
  OBVIOUS
<1>9. PICK J : J = [i \in Nat |-> IF i < Len(b.gimp) THEN PositionOf(gi, b.gimp[i + 1])
                                                     ELSE Len(gi) + Len(a.globs) + i - Len(b.gimp)]
  OBVIOUS
<1>10. PICK K : K = [i \in Nat |-> Len(a.table) + i]  OBVIOUS
<1>11. F \in [Nat -> Nat] /\ G \in [Nat -> Nat]
  <2>1. Len(fi) - Len(a.fimp) \in Nat /\ Len(gi) - Len(a.gimp) \in Nat  BY <1>1, <1>3, <1>4, <1>5
  <2>2. QED  BY <2>1, <1>6, <1>7
<1>12. H \in [Nat -> Nat]
  <2>1. ASSUME NEW i \in Nat, i < Len(b.fimp) PROVE PositionOf(fi, b.fimp[i + 1]) \in Nat
    <3>1. PICK t : t = b.fimp  OBVIOUS
    <3>2. t \in Seq(Symbols) /\ i + 1 \in 1 .. Len(t)  BY <2>1, <3>1, <1>1
    <3>3. t[i + 1] \in Range(t)
      <4>1. PICK k \in 1 .. Len(t) : k = i + 1  BY <3>2
      <4>2. t[k] \in Range(t)  BY <3>2, RangeOf
      <4>3. QED  BY <4>1, <4>2
    <3>4. t[i + 1] \in Range(fi)  BY <3>1, <3>3, <1>3
    <3>5. PositionOf(fi, t[i + 1]) \in 0 .. Len(fi) - 1
      <4>1. fi \in Seq(Symbols)  BY <1>3
      <4>2. QED  BY <4>1, <3>4, PositionWorks
    <3>6. QED  BY <3>1, <3>5, <1>5
  <2>2. ASSUME NEW i \in Nat, ~(i < Len(b.fimp)) PROVE Len(fi) + Len(a.funcs) + i - Len(b.fimp) \in Nat
    BY <2>2, <1>1, <1>5
  <2>3. QED  BY <2>1, <2>2, <1>8
<1>13. J \in [Nat -> Nat]
  <2>1. ASSUME NEW i \in Nat, i < Len(b.gimp) PROVE PositionOf(gi, b.gimp[i + 1]) \in Nat
    <3>1. PICK t : t = b.gimp  OBVIOUS
    <3>2. t \in Seq(Symbols) /\ i + 1 \in 1 .. Len(t)  BY <2>1, <3>1, <1>1
    <3>3. t[i + 1] \in Range(t)
      <4>1. PICK k \in 1 .. Len(t) : k = i + 1  BY <3>2
      <4>2. t[k] \in Range(t)  BY <3>2, RangeOf
      <4>3. QED  BY <4>1, <4>2
    <3>4. t[i + 1] \in Range(gi)  BY <3>1, <3>3, <1>4
    <3>5. PositionOf(gi, t[i + 1]) \in 0 .. Len(gi) - 1
      <4>1. gi \in Seq(Symbols)  BY <1>4
      <4>2. QED  BY <4>1, <3>4, PositionWorks
    <3>6. QED  BY <3>1, <3>5, <1>5
  <2>2. ASSUME NEW i \in Nat, ~(i < Len(b.gimp)) PROVE Len(gi) + Len(a.globs) + i - Len(b.gimp) \in Nat
    BY <2>2, <1>1, <1>5
  <2>3. QED  BY <2>1, <2>2, <1>9
<1>14. K \in [Nat -> Nat] /\ Same \in [Nat -> Nat]  BY <1>1, <1>10 DEF Same
<1>15. Shift(a, Len(fi) - Len(a.fimp), Len(gi) - Len(a.gimp)) = Renumber(a, F, G, Same, a.fimp, a.gimp)
  <2>1. Shift(a, Len(fi) - Len(a.fimp), Len(gi) - Len(a.gimp)) = Reindex(a, F, G, Same)
    BY <1>6, <1>7 DEF Shift
  <2>2. QED  BY <2>1, ReindexIs DEF Renumber
<1>16. Relocate(a, b, fi, gi) = Renumber(b, H, J, K, b.fimp, b.gimp)
  <2>1. Relocate(a, b, fi, gi) = Reindex(b, H, J, K)
    BY <1>8, <1>9, <1>10 DEF Relocate
  <2>2. QED  BY <2>1, ReindexIs DEF Renumber
<1>17. PICK o, w : /\ o = Renumber(a, F, G, Same, a.fimp, a.gimp)
                   /\ w = Renumber(b, H, J, K, b.fimp, b.gimp)
  OBVIOUS
<1>18. o.start = {F[i] : i \in a.start}  BY <1>17 DEF Renumber
<1>19. n = Joined(fi, gi, o, w, a.globs \o b.globs)
  BY <1>2, <1>15, <1>16, <1>17, Zenon DEF MergeOne, Joined
<1>20. \A i \in Nat : /\ F[i] = IF i >= Len(a.fimp) THEN i + (Len(fi) - Len(a.fimp)) ELSE i
                      /\ G[i] = IF i >= Len(a.gimp) THEN i + (Len(gi) - Len(a.gimp)) ELSE i
                      /\ H[i] = IF i < Len(b.fimp) THEN PositionOf(fi, b.fimp[i + 1])
                                                   ELSE Len(fi) + Len(a.funcs) + i - Len(b.fimp)
                      /\ J[i] = IF i < Len(b.gimp) THEN PositionOf(gi, b.gimp[i + 1])
                                                   ELSE Len(gi) + Len(a.globs) + i - Len(b.gimp)
                      /\ K[i] = Len(a.table) + i
  BY <1>6, <1>7, <1>8, <1>9, <1>10
<1>21. MergesBy(a, b, n, fi, gi, F, G, H, J, K)
  BY <1>2, <1>3, <1>4, <1>11, <1>12, <1>13, <1>14, <1>17, <1>19, <1>20 DEF MergesBy
<1>22. QED  BY <1>21

Offer(e) == <<e.name, e.ref.kind, e.ref.sym>>
SameOffers(s, t) == Len(s) = Len(t) /\ \A k \in 1 .. Len(s) : Offer(s[k]) = Offer(t[k])

\* The exports of n are those of m under new numbers.
Reoffers(n, m, F, G, S) ==
  /\ m \in Modules /\ Len(n.exps) = Len(m.exps)
  /\ \A k \in 1 .. Len(m.exps) : /\ n.exps[k].name = m.exps[k].name
                                  /\ n.exps[k].ref = Move(m.exps[k].ref, F, G, S)

\* A renumbering changes no export's name, kind or meaning.
LEMMA RenumberOffers ==
  ASSUME NEW m, NEW n, NEW F, NEW G, NEW S, Reoffers(n, m, F, G, S)
  PROVE  SameOffers(n.exps, m.exps)
<1>a. /\ m \in Modules /\ Len(n.exps) = Len(m.exps)
      /\ \A k \in 1 .. Len(m.exps) : /\ n.exps[k].name = m.exps[k].name
                                      /\ n.exps[k].ref = Move(m.exps[k].ref, F, G, S)
  BY DEF Reoffers
<1>1. SUFFICES ASSUME NEW k \in 1 .. Len(m.exps) PROVE Offer(n.exps[k]) = Offer(m.exps[k])
  BY <1>a DEF SameOffers
<1>2. m.exps[k].ref \in Refs  BY <1>a, ModuleFields DEF Exps
<1>3. PICK r \in Refs : r = m.exps[k].ref  BY <1>2
<1>4. Move(r, F, G, S).kind = r.kind /\ Move(r, F, G, S).sym = r.sym  BY MoveKeeps
<1>5. n.exps[k].name = m.exps[k].name /\ n.exps[k].ref = Move(r, F, G, S)  BY <1>a, <1>3
<1>6. QED  BY <1>3, <1>4, <1>5 DEF Offer

Merged(a, b, n, fi, gi, F, G, H, J, K) ==
  /\ a \in Modules /\ b \in Modules /\ n \in Modules /\ MergesBy(a, b, n, fi, gi, F, G, H, J, K)
  /\ n.fimp = fi /\ n.gimp = gi /\ n.globs = a.globs \o b.globs /\ Ids(n) = Ids(a) \o Ids(b)

\* After a merge the renumberings find every function and global of both modules.
LEMMA SpacesExtended ==
  ASSUME NEW a, NEW b, NEW n, NEW fi, NEW gi, NEW F, NEW G, NEW H, NEW J, NEW K,
         Merged(a, b, n, fi, gi, F, G, H, J, K)
  PROVE  /\ \A i \in Nat : i < NFuncs(a) => F[i] < NFuncs(n) /\ FuncAt(n, F[i]) = FuncAt(a, i)
         /\ \A i \in Nat : i < NGlobs(a) => G[i] < NGlobs(n) /\ GlobAt(n, G[i]) = GlobAt(a, i)
         /\ \A i \in Nat : i < NFuncs(b) => H[i] < NFuncs(n) /\ FuncAt(n, H[i]) = FuncAt(b, i)
         /\ \A i \in Nat : i < NGlobs(b) => J[i] < NGlobs(n) /\ GlobAt(n, J[i]) = GlobAt(b, i)
<1>a. /\ a \in Modules /\ b \in Modules /\ n \in Modules /\ MergesBy(a, b, n, fi, gi, F, G, H, J, K)
      /\ n.fimp = fi /\ n.gimp = gi /\ n.globs = a.globs \o b.globs /\ Ids(n) = Ids(a) \o Ids(b)
  BY DEF Merged
<1>1. PICK fa, fb, ga, gb, ia, ib, da, db :
        /\ fa = a.fimp /\ fb = b.fimp /\ ga = a.gimp /\ gb = b.gimp
        /\ ia = Ids(a) /\ ib = Ids(b) /\ da = a.globs /\ db = b.globs
  OBVIOUS
<1>2. /\ fa \in Seq(Symbols) /\ fb \in Seq(Symbols) /\ ga \in Seq(Symbols) /\ gb \in Seq(Symbols)
      /\ ia \in Seq(Symbols) /\ ib \in Seq(Symbols) /\ da \in Seq(Symbols) /\ db \in Seq(Symbols)
      /\ Len(ia) = Len(a.funcs) /\ Len(ib) = Len(b.funcs)
  BY <1>a, <1>1, ModuleFields, IdsOf
<1>3. fi \in Seq(Symbols) /\ gi \in Seq(Symbols) /\ fi = Dedup(fa, fb) /\ gi = Dedup(ga, gb)
  BY <1>a, <1>1 DEF MergesBy
<1>4. /\ Range(fi) = Range(fa) \cup Range(fb) /\ Len(fi) >= Len(fa) /\ \A k \in 1 .. Len(fa) : fi[k] = fa[k]
  BY <1>2, <1>3, DedupWorks
<1>5. /\ Range(gi) = Range(ga) \cup Range(gb) /\ Len(gi) >= Len(ga) /\ \A k \in 1 .. Len(ga) : gi[k] = ga[k]
  BY <1>2, <1>3, DedupWorks
<1>6. NFuncs(n) = Len(fi) + Len(ia \o ib) /\ NGlobs(n) = Len(gi) + Len(da \o db)
  <2>1. Len(Ids(n)) = Len(n.funcs)  BY <1>a, IdsOf
  <2>2. QED  BY <1>a, <2>1, <1>1 DEF NFuncs, NGlobs
<1>7. /\ NFuncs(a) = Len(fa) + Len(ia) /\ NFuncs(b) = Len(fb) + Len(ib)
      /\ NGlobs(a) = Len(ga) + Len(da) /\ NGlobs(b) = Len(gb) + Len(db)
  BY <1>1, <1>2 DEF NFuncs, NGlobs
<1>8. \A i \in Nat : /\ F[i] = IF i >= Len(fa) THEN i + (Len(fi) - Len(fa)) ELSE i
                     /\ G[i] = IF i >= Len(ga) THEN i + (Len(gi) - Len(ga)) ELSE i
                     /\ H[i] = IF i < Len(fb) THEN PositionOf(fi, fb[i + 1]) ELSE Len(fi) + Len(ia) + i - Len(fb)
                     /\ J[i] = IF i < Len(gb) THEN PositionOf(gi, gb[i + 1]) ELSE Len(gi) + Len(da) + i - Len(gb)
  BY <1>a, <1>1, <1>2 DEF MergesBy
<1>9. /\ \A i : FuncAt(n, i) = Numbered(fi, ia \o ib, i) /\ GlobAt(n, i) = Numbered(gi, da \o db, i)
      /\ \A i : FuncAt(a, i) = Numbered(fa, ia, i) /\ GlobAt(a, i) = Numbered(ga, da, i)
      /\ \A i : FuncAt(b, i) = Numbered(fb, ib, i) /\ GlobAt(b, i) = Numbered(gb, db, i)
  BY <1>a, <1>1 DEF FuncAt, GlobAt
<1>10. ASSUME NEW i \in Nat, i < NFuncs(a) PROVE F[i] < NFuncs(n) /\ FuncAt(n, F[i]) = FuncAt(a, i)
  <2>1. PICK j : j = F[i]  OBVIOUS
  <2>2. j = IF i >= Len(fa) THEN i + (Len(fi) - Len(fa)) ELSE i  BY <2>1, <1>8
  <2>3. i < Len(fa) + Len(ia)  BY <1>7, <1>10
  <2>4. j \in Nat /\ j < Len(fi) + Len(ia \o ib) /\ Numbered(fi, ia \o ib, j) = Numbered(fa, ia, i)
    <3>1. Extends(Symbols, fa, ia, fi, ib, i, j)
      BY <2>2, <2>3, <1>2, <1>3, <1>4, <1>5 DEF Extends
    <3>2. QED  BY <3>1, NumberedExtended
  <2>5. QED  BY <2>1, <2>4, <1>6, <1>9
<1>11. ASSUME NEW i \in Nat, i < NGlobs(a) PROVE G[i] < NGlobs(n) /\ GlobAt(n, G[i]) = GlobAt(a, i)
  <2>1. PICK j : j = G[i]  OBVIOUS
  <2>2. j = IF i >= Len(ga) THEN i + (Len(gi) - Len(ga)) ELSE i  BY <2>1, <1>8
  <2>3. i < Len(ga) + Len(da)  BY <1>7, <1>11
  <2>4. j \in Nat /\ j < Len(gi) + Len(da \o db) /\ Numbered(gi, da \o db, j) = Numbered(ga, da, i)
    <3>1. Extends(Symbols, ga, da, gi, db, i, j)
      BY <2>2, <2>3, <1>2, <1>3, <1>4, <1>5 DEF Extends
    <3>2. QED  BY <3>1, NumberedExtended
  <2>5. QED  BY <2>1, <2>4, <1>6, <1>9
<1>12. ASSUME NEW i \in Nat, i < NFuncs(b) PROVE H[i] < NFuncs(n) /\ FuncAt(n, H[i]) = FuncAt(b, i)
  <2>1. PICK j : j = H[i]  OBVIOUS
  <2>2. j = IF i < Len(fb) THEN PositionOf(fi, fb[i + 1]) ELSE Len(fi) + Len(ia) + i - Len(fb)  BY <2>1, <1>8
  <2>3. i < Len(fb) + Len(ib) /\ Range(fb) \subseteq Range(fi)  BY <1>4, <1>7, <1>12
  <2>4. j \in Nat /\ j < Len(fi) + Len(ia \o ib) /\ Numbered(fi, ia \o ib, j) = Numbered(fb, ib, i)
    <3>1. Joins(Symbols, fb, ib, fi, ia, i, j)
      BY <2>2, <2>3, <1>2, <1>3 DEF Joins
    <3>2. QED  BY <3>1, NumberedJoined
  <2>5. QED  BY <2>1, <2>4, <1>6, <1>9
<1>13. ASSUME NEW i \in Nat, i < NGlobs(b) PROVE J[i] < NGlobs(n) /\ GlobAt(n, J[i]) = GlobAt(b, i)
  <2>1. PICK j : j = J[i]  OBVIOUS
  <2>2. j = IF i < Len(gb) THEN PositionOf(gi, gb[i + 1]) ELSE Len(gi) + Len(da) + i - Len(gb)  BY <2>1, <1>8
  <2>3. i < Len(gb) + Len(db) /\ Range(gb) \subseteq Range(gi)  BY <1>5, <1>7, <1>13
  <2>4. j \in Nat /\ j < Len(gi) + Len(da \o db) /\ Numbered(gi, da \o db, j) = Numbered(gb, db, i)
    <3>1. Joins(Symbols, gb, db, gi, da, i, j)
      BY <2>2, <2>3, <1>2, <1>3 DEF Joins
    <3>2. QED  BY <3>1, NumberedJoined
  <2>5. QED  BY <2>1, <2>4, <1>6, <1>9
<1>14. QED  BY <1>10, <1>11, <1>12, <1>13

JoinOffers(e, p, q) == \E s, t \in Seq(Exps) : e = s \o t /\ SameOffers(s, p) /\ SameOffers(t, q)

\* Merging two modules whose numbers denote what they mean gives one of which this is true.
LEMMA MergeWorks ==
  ASSUME NEW a, Whole(a), Named(a), a.start = {}, NEW b, Whole(b), Named(b), NEW n, n = MergeOne(a, b)
  PROVE  /\ Whole(n) /\ Named(n) /\ n.start = {}
         /\ n.fimp = Dedup(a.fimp, b.fimp) /\ n.gimp = Dedup(a.gimp, b.gimp)
         /\ n.globs = a.globs \o b.globs /\ Ids(n) = Ids(a) \o Ids(b)
         /\ JoinOffers(n.exps, a.exps, b.exps)
<1>1. a \in Modules /\ b \in Modules /\ InTable(a) /\ InTable(b)  BY DEF Whole
<1>2. PICK fi, gi, F, G, H, J, K : MergesBy(a, b, n, fi, gi, F, G, H, J, K)  BY <1>1, MergeParts
<1>3. PICK o : o = Renumber(a, F, G, Same, a.fimp, a.gimp)  OBVIOUS
<1>4. PICK w : w = Renumber(b, H, J, K, b.fimp, b.gimp)  OBVIOUS
<1>5. PICK gl : gl = a.globs \o b.globs  OBVIOUS
<1>6. /\ fi \in Seq(Symbols) /\ gi \in Seq(Symbols) /\ fi = Dedup(a.fimp, b.fimp) /\ gi = Dedup(a.gimp, b.gimp)
      /\ F \in [Nat -> Nat] /\ G \in [Nat -> Nat] /\ H \in [Nat -> Nat] /\ J \in [Nat -> Nat] /\ K \in [Nat -> Nat]
      /\ Same \in [Nat -> Nat] /\ n = Joined(fi, gi, o, w, gl) /\ \A i \in Nat : K[i] = Len(a.table) + i
  BY <1>2, <1>3, <1>4, <1>5 DEF MergesBy
<1>7. /\ a.fimp \in Seq(Symbols) /\ a.gimp \in Seq(Symbols) /\ b.fimp \in Seq(Symbols) /\ b.gimp \in Seq(Symbols)
      /\ a.globs \in Seq(Symbols) /\ b.globs \in Seq(Symbols)
  BY <1>1, ModuleFields
<1>8. gl \in Seq(Symbols)  BY <1>5, <1>7
<1>9. /\ o \in Modules /\ Ids(o) = Ids(a) /\ Len(o.exps) = Len(a.exps)
      /\ \A k \in 1 .. Len(a.exps) : /\ o.exps[k].name = a.exps[k].name
                                     /\ o.exps[k].ref = Move(a.exps[k].ref, F, G, Same)
      /\ Len(o.table) = Len(a.table)
      /\ \A k \in 1 .. Len(a.table) : o.table[k] = Move(a.table[k], F, G, Same)
      /\ InTable(o) /\ o.start = {F[i] : i \in a.start}
      /\ \A q \in AllRefs(o) : \E r \in AllRefs(a) : q = Move(r, F, G, Same)
  <2>1. Renumbers(o, a, F, G, Same, a.fimp, a.gimp)  BY <1>1, <1>3, <1>6, <1>7 DEF Renumbers
  <2>2. QED  BY <1>1, <2>1, RenumberWorks
<1>10. /\ w \in Modules /\ Ids(w) = Ids(b) /\ Len(w.exps) = Len(b.exps)
       /\ \A k \in 1 .. Len(b.exps) : /\ w.exps[k].name = b.exps[k].name
                                      /\ w.exps[k].ref = Move(b.exps[k].ref, H, J, K)
       /\ Len(w.table) = Len(b.table)
       /\ \A k \in 1 .. Len(b.table) : w.table[k] = Move(b.table[k], H, J, K)
       /\ InTable(w)
       /\ \A q \in AllRefs(w) : \E r \in AllRefs(b) : q = Move(r, H, J, K)
  <2>1. Renumbers(w, b, H, J, K, b.fimp, b.gimp)  BY <1>1, <1>4, <1>6, <1>7 DEF Renumbers
  <2>2. QED  BY <1>1, <2>1, RenumberWorks
<1>11. /\ n \in Modules /\ n.fimp = fi /\ n.gimp = gi /\ n.globs = gl /\ n.start = o.start
       /\ n.exps = o.exps \o w.exps /\ n.table = o.table \o w.table
       /\ Ids(n) = Ids(o) \o Ids(w)
       /\ AllRefs(n) = AllRefs(o) \cup AllRefs(w)
  <2>1. JoinedFrom(n, fi, gi, o, w, gl)  BY <1>6, <1>8, <1>9, <1>10 DEF JoinedFrom
  <2>2. n \in Modules /\ n.fimp = fi /\ n.gimp = gi /\ n.globs = gl /\ n.start = o.start  BY <2>1, JoinedIs
  <2>3. n.exps = o.exps \o w.exps /\ n.table = o.table \o w.table
    <3>1. n.exps = Cat(o.exps, w.exps) /\ n.table = Cat(o.table, w.table)  BY <2>1, JoinedIs
    <3>2. QED  BY <3>1 DEF Cat
  <2>4. Ids(n) = Ids(o) \o Ids(w)  BY <2>1, JoinedIs
  <2>5. AllRefs(n) = AllRefs(o) \cup AllRefs(w)  BY <2>1, JoinedIs
  <2>6. QED  BY <2>2, <2>3, <2>4, <2>5
<1>12. /\ n.globs = a.globs \o b.globs /\ Ids(n) = Ids(a) \o Ids(b)
  BY <1>5, <1>9, <1>10, <1>11
<1>13. /\ \A i \in Nat : i < NFuncs(a) => F[i] < NFuncs(n) /\ FuncAt(n, F[i]) = FuncAt(a, i)
       /\ \A i \in Nat : i < NGlobs(a) => G[i] < NGlobs(n) /\ GlobAt(n, G[i]) = GlobAt(a, i)
       /\ \A i \in Nat : i < NFuncs(b) => H[i] < NFuncs(n) /\ FuncAt(n, H[i]) = FuncAt(b, i)
       /\ \A i \in Nat : i < NGlobs(b) => J[i] < NGlobs(n) /\ GlobAt(n, J[i]) = GlobAt(b, i)
  <2>1. Merged(a, b, n, fi, gi, F, G, H, J, K)  BY <1>1, <1>2, <1>11, <1>12 DEF Merged
  <2>2. QED  BY <2>1, SpacesExtended
<1>14. PICK to, tw, t : to = o.table /\ tw = w.table /\ t = n.table  OBVIOUS
<1>15. /\ t = to \o tw /\ to \in Seq(Refs) /\ tw \in Seq(Refs)
       /\ Len(to) = Len(a.table) /\ Len(tw) = Len(b.table)
       /\ \A k \in 1 .. Len(to) : to[k] = Move(a.table[k], F, G, Same)
       /\ \A k \in 1 .. Len(tw) : tw[k] = Move(b.table[k], H, J, K)
  <2>1. o.table \in Seq(Refs) /\ w.table \in Seq(Refs)  BY <1>9, <1>10, ModuleFields
  <2>2. QED  BY <2>1, <1>9, <1>10, <1>11, <1>14
<1>16. /\ t \in Seq(Refs) /\ Len(t) = Len(to) + Len(tw) /\ Len(to) \in Nat /\ Len(tw) \in Nat
       /\ \A k \in 1 .. Len(to) : k \in 1 .. Len(to) + Len(tw) /\ t[k] = to[k]
       /\ \A k \in 1 .. Len(tw) : Len(to) + k \in 1 .. Len(to) + Len(tw) /\ t[Len(to) + k] = tw[k]
       /\ \A k \in 1 .. Len(to) + Len(tw) :
            \/ k \in 1 .. Len(to) /\ t[k] = to[k]
            \/ \E j \in 1 .. Len(tw) : k = Len(to) + j /\ t[k] = tw[j]
  <2>1. to \in Seq(Refs) /\ tw \in Seq(Refs)  BY <1>15
  <2>2. /\ to \o tw \in Seq(Refs) /\ Len(to \o tw) = Len(to) + Len(tw) /\ Len(to) \in Nat /\ Len(tw) \in Nat
        /\ \A k \in 1 .. Len(to) : k \in 1 .. Len(to) + Len(tw) /\ (to \o tw)[k] = to[k]
        /\ \A k \in 1 .. Len(tw) : Len(to) + k \in 1 .. Len(to) + Len(tw) /\ (to \o tw)[Len(to) + k] = tw[k]
        /\ \A k \in 1 .. Len(to) + Len(tw) :
             \/ k \in 1 .. Len(to) /\ (to \o tw)[k] = to[k]
             \/ \E j \in 1 .. Len(tw) : k = Len(to) + j /\ (to \o tw)[k] = tw[j]
    BY <2>1, ConcatAt
  <2>3. QED  BY <2>2, <1>15
<1>17. TableMoved(a, n, F, G, Same)
  <2>1. ASSUME NEW i \in 0 .. Len(a.table) - 1
        PROVE  Same[i] < Len(t) /\ t[Same[i] + 1] = Move(a.table[i + 1], F, G, Same)
    <3>1. PICK k : k = i + 1  OBVIOUS
    <3>a. Len(a.table) = Len(to) /\ Len(to) \in Nat /\ Len(tw) \in Nat /\ Len(t) = Len(to) + Len(tw)
      BY <1>15, <1>16
    <3>2. i \in Nat /\ k \in 1 .. Len(to) /\ i < Len(t)  BY <3>1, <3>a
    <3>3. Same[i] = i  BY <3>2 DEF Same
    <3>4. t[k] = Move(a.table[k], F, G, Same)  BY <3>2, <1>15, <1>16
    <3>5. QED  BY <3>1, <3>2, <3>3, <3>4
  <2>2. QED  BY <2>1, <1>14 DEF TableMoved
<1>18. TableMoved(b, n, H, J, K)
  <2>1. ASSUME NEW i \in 0 .. Len(b.table) - 1
        PROVE  K[i] < Len(t) /\ t[K[i] + 1] = Move(b.table[i + 1], H, J, K)
    <3>1. PICK k : k = i + 1  OBVIOUS
    <3>2. i \in Nat /\ k \in 1 .. Len(tw)  BY <3>1, <1>15, <1>16
    <3>a. /\ K[i] = Len(to) + i /\ Len(to) \in Nat /\ Len(tw) \in Nat /\ Len(t) = Len(to) + Len(tw)
      BY <3>2, <1>6, <1>15, <1>16
    <3>3. K[i] = Len(to) + i /\ K[i] < Len(t) /\ K[i] + 1 = Len(to) + k
      BY <3>1, <3>2, <3>a
    <3>4. t[Len(to) + k] = Move(b.table[k], H, J, K)  BY <3>2, <1>15, <1>16
    <3>5. QED  BY <3>1, <3>2, <3>3, <3>4
  <2>2. QED  BY <2>1, <1>14 DEF TableMoved
<1>19. ASSUME NEW q \in AllRefs(n) PROVE InRange(n, q) /\ Denotes(n, q) = q.sym
  <2>1. CASE q \in AllRefs(o)
    <3>1. PICK r \in AllRefs(a) : q = Move(r, F, G, Same)  BY <2>1, <1>9
    <3>2. InRange(n, Move(r, F, G, Same)) /\ Denotes(n, Move(r, F, G, Same)) = Denotes(a, r)
      <4>1. Carries(a, n, F, G, Same, Nat, Nat)
        BY <1>6, <1>11, <1>13, <1>17 DEF Carries
      <4>2. r.kind # "glob" => FuncNum(a, r) \in Nat  BY WholeFuncNum
      <4>3. r.kind = "glob" => r.idx \in Nat  BY <1>1, AllRefsAre DEF Refs
      <4>4. QED  BY <4>1, <4>2, <4>3, Preserved
    <3>3. r \in Refs  BY <1>1, AllRefsAre
    <3>a. F \in [Nat -> Nat] /\ G \in [Nat -> Nat] /\ Same \in [Nat -> Nat]  BY <1>6
    <3>4. Move(r, F, G, Same).sym = r.sym  BY <3>3, <3>a, MoveKeeps
    <3>5. QED  BY <3>1, <3>2, <3>4 DEF Named
  <2>2. CASE q \in AllRefs(w)
    <3>1. PICK r \in AllRefs(b) : q = Move(r, H, J, K)  BY <2>2, <1>10
    <3>2. InRange(n, Move(r, H, J, K)) /\ Denotes(n, Move(r, H, J, K)) = Denotes(b, r)
      <4>1. Carries(b, n, H, J, K, Nat, Nat)
        BY <1>6, <1>11, <1>13, <1>18 DEF Carries
      <4>2. r.kind # "glob" => FuncNum(b, r) \in Nat  BY WholeFuncNum
      <4>3. r.kind = "glob" => r.idx \in Nat  BY <1>1, AllRefsAre DEF Refs
      <4>4. QED  BY <4>1, <4>2, <4>3, Preserved
    <3>3. r \in Refs  BY <1>1, AllRefsAre
    <3>a. H \in [Nat -> Nat] /\ J \in [Nat -> Nat] /\ K \in [Nat -> Nat]  BY <1>6
    <3>4. Move(r, H, J, K).sym = r.sym  BY <3>3, <3>a, MoveKeeps
    <3>5. QED  BY <3>1, <3>2, <3>4 DEF Named
  <2>3. QED  BY <2>1, <2>2, <1>11
<1>20. InTable(n)
  <2>1. ASSUME NEW k \in DOMAIN t PROVE t[k].kind = "func"
    <3>1. k \in 1 .. Len(to) + Len(tw)  BY <1>16
    <3>2. CASE k \in 1 .. Len(to) /\ t[k] = to[k]
      <4>1. k \in DOMAIN to  BY <3>2, <1>15
      <4>2. QED  BY <4>1, <3>2, <1>9, <1>14 DEF InTable
    <3>3. CASE \E j \in 1 .. Len(tw) : k = Len(to) + j /\ t[k] = tw[j]
      <4>1. PICK j \in DOMAIN tw : t[k] = tw[j]  BY <3>3, <1>15
      <4>2. QED  BY <4>1, <1>10, <1>14 DEF InTable
    <3>4. QED  BY <3>1, <3>2, <3>3, <1>16
  <2>2. QED  BY <2>1, <1>14 DEF InTable
<1>21. n.start = {}  BY <1>9, <1>11
<1>22. SameOffers(o.exps, a.exps) /\ SameOffers(w.exps, b.exps)
  <2>1. SameOffers(o.exps, a.exps)
    <3>1. /\ F \in [Nat -> Nat] /\ G \in [Nat -> Nat] /\ Same \in [Nat -> Nat] /\ a \in Modules
          /\ Len(o.exps) = Len(a.exps)
          /\ \A k \in 1 .. Len(a.exps) : /\ o.exps[k].name = a.exps[k].name
                                         /\ o.exps[k].ref = Move(a.exps[k].ref, F, G, Same)
      BY <1>1, <1>6, <1>9
    <3>2. Reoffers(o, a, F, G, Same)  BY <3>1 DEF Reoffers
    <3>3. QED  BY <3>2, RenumberOffers
  <2>2. SameOffers(w.exps, b.exps)
    <3>1. /\ H \in [Nat -> Nat] /\ J \in [Nat -> Nat] /\ K \in [Nat -> Nat] /\ b \in Modules
          /\ Len(w.exps) = Len(b.exps)
          /\ \A k \in 1 .. Len(b.exps) : /\ w.exps[k].name = b.exps[k].name
                                         /\ w.exps[k].ref = Move(b.exps[k].ref, H, J, K)
      BY <1>1, <1>6, <1>10
    <3>2. Reoffers(w, b, H, J, K)  BY <3>1 DEF Reoffers
    <3>3. QED  BY <3>2, RenumberOffers
  <2>3. QED  BY <2>1, <2>2
<1>23. o.exps \in Seq(Exps) /\ w.exps \in Seq(Exps)  BY <1>9, <1>10, ModuleFields
<1>24. Whole(n) /\ Named(n)  BY <1>11, <1>19, <1>20, <1>21 DEF Whole, Named
<1>25. JoinOffers(n.exps, a.exps, b.exps)  BY <1>11, <1>22, <1>23 DEF JoinOffers
<1>26. QED  BY <1>6, <1>11, <1>12, <1>21, <1>24, <1>25

\* A sequence whose elements are in a smaller set.
LEMMA Retyped ==
  ASSUME NEW S, NEW s \in Seq(S), NEW T, \A k \in 1 .. Len(s) : s[k] \in T
  PROVE  s \in Seq(T)
<1>1. Len(s) \in Nat /\ s = [k \in 1 .. Len(s) |-> s[k]]  OBVIOUS
<1>2. s \in [1 .. Len(s) -> T]  BY <1>1
<1>3. QED  BY <1>1, <1>2

\* The elements Kept keeps, when those are in a smaller set.
LEMMA KeptOf ==
  ASSUME NEW S, NEW s \in Seq(S), NEW K, K \subseteq DOMAIN s, NEW T, \A k \in K : s[k] \in T
  PROVE  /\ Kept(s, K) \in Seq(T)
         /\ \A n \in 1 .. Len(Kept(s, K)) : \E k \in K : Kept(s, K)[n] = s[k]
         /\ \A k \in K : \E n \in 1 .. Len(Kept(s, K)) : Kept(s, K)[n] = s[k]
<1>1. PICK u : u = Kept(s, K)  OBVIOUS
<1>2. /\ u \in Seq(S)
      /\ \A k \in K : Nth(K, k) \in 1 .. Len(u) /\ u[Nth(K, k)] = s[k]
      /\ \A n \in 1 .. Len(u) : \E k \in K : u[n] = s[k] /\ Nth(K, k) = n
  <2>1. /\ Kept(s, K) \in Seq(S)
        /\ \A k \in K : Nth(K, k) \in 1 .. Len(Kept(s, K)) /\ Kept(s, K)[Nth(K, k)] = s[k]
        /\ \A n \in 1 .. Len(Kept(s, K)) : \E k \in K : Kept(s, K)[n] = s[k] /\ Nth(K, k) = n
    BY KeptWorks
  <2>2. QED  BY <2>1, <1>1
<1>3. u \in Seq(T)
  <2>1. \A n \in 1 .. Len(u) : u[n] \in T  BY <1>2
  <2>2. QED  BY <2>1, <1>2, Retyped
<1>4. QED  BY <1>1, <1>2, <1>3

\* The declarations of a translation unit, by kind.
LEMMA DeclsAre ==
  ASSUME NEW tu \in TranslationUnit
  PROVE  /\ Decls(tu, "func") \in Seq(FunctionDef) /\ Decls(tu, "proto") \in Seq(Prototype)
         /\ Decls(tu, "obj") \in Seq(ObjectDef) /\ Decls(tu, "extern") \in Seq(ExternDecl)
         /\ tu.name \in Text
<1>1. tu.decls \in Seq(Declaration) /\ tu.name \in Text  BY DEF TranslationUnit, Text
<1>2. PICK s \in Seq(Declaration) : s = tu.decls  BY <1>1
<1>3. DOMAIN s = 1 .. Len(s) /\ \A k \in 1 .. Len(s) : s[k] \in Declaration  BY Entries
<1>4. \A x \in Declaration : /\ x.decl = "func" => x \in FunctionDef
                             /\ x.decl = "proto" => x \in Prototype
                             /\ x.decl = "obj" => x \in ObjectDef
                             /\ x.decl = "extern" => x \in ExternDecl
  <2>1. \A x \in FunctionDef : x.decl = "func"  BY DEF FunctionDef
  <2>2. \A x \in Prototype : x.decl = "proto"  BY DEF Prototype
  <2>3. \A x \in ObjectDef : x.decl = "obj"  BY DEF ObjectDef
  <2>4. \A x \in ExternDecl : x.decl = "extern"  BY DEF ExternDecl
  <2>5. QED  BY <2>1, <2>2, <2>3, <2>4 DEF Declaration
<1>5. ASSUME NEW d, NEW T, \A x \in Declaration : x.decl = d => x \in T PROVE Decls(tu, d) \in Seq(T)
  <2>1. PICK K : K = {k \in DOMAIN s : s[k].decl = d}  OBVIOUS
  <2>2. K \subseteq DOMAIN s /\ \A k \in K : s[k] \in T  BY <2>1, <1>3, <1>5
  <2>3. Kept(s, K) \in Seq(T)  BY <2>2, KeptOf
  <2>4. Decls(tu, d) = Kept(s, K)  BY <1>2, <2>1 DEF Decls
  <2>5. QED  BY <2>3, <2>4
<1>6. QED  BY <1>1, <1>4, <1>5

\* The names of a sequence of declarations.
LEMMA NamesAre ==
  ASSUME NEW T, NEW s \in Seq(T), \A x \in T : x.name \in Text
  PROVE  /\ NamesOf(s) \in Seq(Text) /\ Len(NamesOf(s)) = Len(s)
         /\ \A k \in 1 .. Len(s) : NamesOf(s)[k] = s[k].name
         /\ \A x : x \in Names(s) <=> \E k \in 1 .. Len(s) : s[k].name = x
<1>1. DOMAIN s = 1 .. Len(s) /\ Len(s) \in Nat /\ \A k \in 1 .. Len(s) : s[k] \in T  BY Entries
<1>2. PICK u : u = NamesOf(s)  OBVIOUS
<1>3. u = [k \in 1 .. Len(s) |-> s[k].name]  BY <1>1, <1>2 DEF NamesOf
<1>4. \A k \in 1 .. Len(s) : s[k].name \in Text  BY <1>1
<1>5. u \in Seq(Text) /\ Len(u) = Len(s) /\ \A k \in 1 .. Len(s) : u[k] = s[k].name
  BY <1>1, <1>3, <1>4
<1>6. \A x : x \in Range(u) <=> \E k \in 1 .. Len(u) : u[k] = x  BY <1>5, RangeOf
<1>7. \A x : x \in Names(s) <=> \E k \in 1 .. Len(s) : s[k].name = x
  BY <1>2, <1>5, <1>6 DEF Names
<1>8. QED  BY <1>2, <1>5, <1>7

\* The declarations of each kind, and their names.
LEMMA DeclNames ==
  ASSUME NEW tu \in TranslationUnit
  PROVE  /\ NamesOf(Decls(tu, "func")) \in Seq(Text)
         /\ Len(NamesOf(Decls(tu, "func"))) = Len(Decls(tu, "func"))
         /\ \A k \in 1 .. Len(Decls(tu, "func")) : NamesOf(Decls(tu, "func"))[k] = Decls(tu, "func")[k].name
         /\ \A x : x \in Defined(tu) <=> \E k \in 1 .. Len(Decls(tu, "func")) : Decls(tu, "func")[k].name = x
         /\ \A x : x \in Names(Decls(tu, "proto"))
                     <=> \E k \in 1 .. Len(Decls(tu, "proto")) : Decls(tu, "proto")[k].name = x
         /\ NamesOf(Decls(tu, "obj")) \in Seq(Text) /\ NamesOf(Decls(tu, "extern")) \in Seq(Text)
         /\ Defined(tu) \subseteq Text
<1>1. /\ \A x \in FunctionDef : x.name \in Text
      /\ \A x \in Prototype : x.name \in Text
      /\ \A x \in ObjectDef : x.name \in Text
      /\ \A x \in ExternDecl : x.name \in Text
  BY DEF FunctionDef, Prototype, ObjectDef, ExternDecl, Text
<1>2. PICK f, p, o, e : /\ f = Decls(tu, "func") /\ p = Decls(tu, "proto")
                        /\ o = Decls(tu, "obj") /\ e = Decls(tu, "extern")
  OBVIOUS
<1>3. f \in Seq(FunctionDef) /\ p \in Seq(Prototype) /\ o \in Seq(ObjectDef) /\ e \in Seq(ExternDecl)
  BY <1>2, DeclsAre
<1>4. /\ NamesOf(f) \in Seq(Text) /\ Len(NamesOf(f)) = Len(f)
      /\ \A k \in 1 .. Len(f) : NamesOf(f)[k] = f[k].name
      /\ \A x : x \in Names(f) <=> \E k \in 1 .. Len(f) : f[k].name = x
  BY <1>1, <1>3, NamesAre
<1>5. \A x : x \in Names(p) <=> \E k \in 1 .. Len(p) : p[k].name = x
  BY <1>1, <1>3, NamesAre
<1>6. NamesOf(o) \in Seq(Text)  BY <1>1, <1>3, NamesAre
<1>7. NamesOf(e) \in Seq(Text)  BY <1>1, <1>3, NamesAre
<1>8. Names(f) \subseteq Text  BY <1>1, <1>3, <1>4, Entries
<1>9. QED  BY <1>2, <1>4, <1>5, <1>6, <1>7, <1>8 DEF Defined

\* The prototypes that import.
LEMMA ProtosAre ==
  ASSUME NEW tu \in TranslationUnit
  PROVE  /\ Protos(tu) \in Seq(Prototype)
         /\ \A k \in 1 .. Len(Protos(tu)) :
              Protos(tu)[k].name \notin Defined(tu) /\ Protos(tu)[k] \in Range(Decls(tu, "proto"))
         /\ \A x \in Declared(tu) \ Defined(tu) : \E k \in 1 .. Len(Protos(tu)) : Protos(tu)[k].name = x
<1>1. PICK p : p = Decls(tu, "proto")  OBVIOUS
<1>2. p \in Seq(Prototype)  BY <1>1, DeclsAre
<1>3. DOMAIN p = 1 .. Len(p) /\ \A k \in 1 .. Len(p) : p[k] \in Prototype  BY <1>2, Entries
<1>4. PICK K : K = {k \in DOMAIN p : p[k].name \notin Defined(tu)}  OBVIOUS
<1>5. PICK u : u = Kept(p, K)  OBVIOUS
<1>6. Protos(tu) = u  BY <1>1, <1>4, <1>5 DEF Protos
<1>7. K \subseteq DOMAIN p /\ \A k \in K : p[k] \in Prototype  BY <1>3, <1>4
<1>8. /\ u \in Seq(Prototype)
      /\ \A n \in 1 .. Len(u) : \E k \in K : u[n] = p[k]
      /\ \A k \in K : \E n \in 1 .. Len(u) : u[n] = p[k]
  <2>1. /\ Kept(p, K) \in Seq(Prototype)
        /\ \A n \in 1 .. Len(Kept(p, K)) : \E k \in K : Kept(p, K)[n] = p[k]
        /\ \A k \in K : \E n \in 1 .. Len(Kept(p, K)) : Kept(p, K)[n] = p[k]
    BY <1>2, <1>7, KeptOf
  <2>2. QED  BY <2>1, <1>5
<1>9. \A x \in Declared(tu) \ Defined(tu) : \E k \in K : p[k].name = x
  <2>1. \A x \in Declared(tu) \ Defined(tu) : \E k \in 1 .. Len(p) : p[k].name = x
    BY <1>1, DeclNames DEF Declared
  <2>2. QED  BY <2>1, <1>3, <1>4
<1>10. \A k \in K : p[k].name \notin Defined(tu) /\ p[k] \in Range(p)
  BY <1>3, <1>4, <1>2, RangeOf
<1>11. QED  BY <1>1, <1>6, <1>8, <1>9, <1>10

\* LastPositionOf finds an element of the sequence.
LEMMA LastWorks ==
  ASSUME NEW S, NEW s \in Seq(S), NEW x, \E k \in 1 .. Len(s) : s[k] = x
  PROVE  /\ LastPositionOf(s, x) \in Nat
         /\ LastPositionOf(s, x) + 1 \in 1 .. Len(s) /\ s[LastPositionOf(s, x) + 1] = x
<1> DEFINE I == {i \in 1 .. Len(s) : s[i] = x}
           T == {Len(s) - i : i \in I}
<1>1. Len(s) \in Nat /\ I # {}  OBVIOUS
<1>2. T \subseteq Nat /\ T # {}  BY <1>1
<1>3. PICK t \in T : \A y \in T : t <= y
  <2> HIDE DEF T
  <2>1. QED  BY <1>2, Least
<1>4. PICK m \in I : t = Len(s) - m  OBVIOUS
<1>5. ASSUME NEW j \in I PROVE m >= j
  <2>1. Len(s) - j \in T  OBVIOUS
  <2>2. t <= Len(s) - j  BY <2>1, <1>3
  <2>3. j \in Nat /\ m \in Nat  OBVIOUS
  <2>4. QED  BY <1>1, <1>4, <2>2, <2>3
<1>6. Max(I) \in I  BY <1>5 DEF Max
<1>7. LastPositionOf(s, x) = Max(I) - 1  BY <1>1 DEF LastPositionOf, SelectLastInSeq
<1> HIDE DEF I
<1>8. QED  BY <1>6, <1>7 DEF I

\* The functions of a unit's object: its imports, its definitions.
FimpOf(tu) == [k \in DOMAIN Protos(tu) |-> Symbol(Protos(tu)[k].mod, Protos(tu)[k].import)]
DefsOf(tu) == [k \in DOMAIN Decls(tu, "func") |-> Symbol(tu.name, Decls(tu, "func")[k].name)]

\* A symbol is made of a module and a name.
LEMMA SymbolIs ==
  ASSUME NEW m \in Text, NEW n \in Text
  PROVE  Symbol(m, n) \in Symbols /\ Symbol(m, n).mod = m /\ Symbol(m, n).name = n
BY DEF Symbol, Symbols

\* The imported and the defined functions of a unit.
LEMMA FunctionSpaces ==
  ASSUME NEW tu \in TranslationUnit
  PROVE  /\ FimpOf(tu) \in Seq(Symbols) /\ Len(FimpOf(tu)) = Len(Protos(tu))
         /\ \A k \in 1 .. Len(Protos(tu)) : FimpOf(tu)[k] = Symbol(Protos(tu)[k].mod, Protos(tu)[k].import)
         /\ DefsOf(tu) \in Seq(Symbols) /\ Len(DefsOf(tu)) = Len(Decls(tu, "func"))
         /\ \A k \in 1 .. Len(Decls(tu, "func")) : DefsOf(tu)[k] = Symbol(tu.name, Decls(tu, "func")[k].name)
<1>1. PICK p, f : p = Protos(tu) /\ f = Decls(tu, "func")  OBVIOUS
<1>2. p \in Seq(Prototype) /\ f \in Seq(FunctionDef) /\ tu.name \in Text  BY <1>1, ProtosAre, DeclsAre
<1>3. /\ DOMAIN p = 1 .. Len(p) /\ Len(p) \in Nat /\ \A k \in 1 .. Len(p) : p[k] \in Prototype
      /\ DOMAIN f = 1 .. Len(f) /\ Len(f) \in Nat /\ \A k \in 1 .. Len(f) : f[k] \in FunctionDef
  BY <1>2, Entries
<1>4. PICK a, b : a = FimpOf(tu) /\ b = DefsOf(tu)  OBVIOUS
<1>5. a = [k \in 1 .. Len(p) |-> Symbol(p[k].mod, p[k].import)]  BY <1>1, <1>3, <1>4 DEF FimpOf
<1>6. b = [k \in 1 .. Len(f) |-> Symbol(tu.name, f[k].name)]  BY <1>1, <1>3, <1>4 DEF DefsOf
<1>7. ASSUME NEW k \in 1 .. Len(p) PROVE Symbol(p[k].mod, p[k].import) \in Symbols
  <2>1. p[k].mod \in Text /\ p[k].import \in Text  BY <1>3 DEF Prototype, Text
  <2>2. QED  BY <2>1, SymbolIs
<1>8. ASSUME NEW k \in 1 .. Len(f) PROVE Symbol(tu.name, f[k].name) \in Symbols
  <2>1. f[k].name \in Text  BY <1>3 DEF FunctionDef, Text
  <2>2. QED  BY <2>1, <1>2, SymbolIs
<1>9. a \in Seq(Symbols) /\ Len(a) = Len(p) /\ \A k \in 1 .. Len(p) : a[k] = Symbol(p[k].mod, p[k].import)
  BY <1>3, <1>5, <1>7
<1>10. b \in Seq(Symbols) /\ Len(b) = Len(f) /\ \A k \in 1 .. Len(f) : b[k] = Symbol(tu.name, f[k].name)
  BY <1>3, <1>6, <1>8
<1>11. QED  BY <1>1, <1>4, <1>9, <1>10

\* lookupFunction finds the function that is meant.
LEMMA FuncWorks ==
  ASSUME NEW tu \in TranslationUnit, NEW x \in Declared(tu)
  PROVE  /\ FuncIndex(tu, x) \in Nat /\ FuncIndex(tu, x) < Len(FimpOf(tu)) + Len(DefsOf(tu))
         /\ Numbered(FimpOf(tu), DefsOf(tu), FuncIndex(tu, x)) = FuncSymbol(tu, x)
         /\ FuncSymbol(tu, x) \in Symbols
         /\ x \in Defined(tu) => FuncSymbol(tu, x) = Symbol(tu.name, x)
         /\ x \notin Defined(tu) => FuncSymbol(tu, x) \in Range(FimpOf(tu))
<1>1. PICK p, f, a, b, i : /\ p = Protos(tu) /\ f = Decls(tu, "func") /\ a = FimpOf(tu) /\ b = DefsOf(tu)
                           /\ i = FuncIndex(tu, x)
  OBVIOUS
<1>2. /\ a \in Seq(Symbols) /\ Len(a) = Len(p) /\ b \in Seq(Symbols) /\ Len(b) = Len(f)
      /\ \A k \in 1 .. Len(p) : a[k] = Symbol(p[k].mod, p[k].import)
      /\ \A k \in 1 .. Len(f) : b[k] = Symbol(tu.name, f[k].name)
  BY <1>1, FunctionSpaces
<1>3. Len(a) \in Nat /\ Len(b) \in Nat  BY <1>2
<1>4. CASE x \in Defined(tu)
  <2>1. PICK s : s = NamesOf(f)  OBVIOUS
  <2>2. s \in Seq(Text) /\ Len(s) = Len(f) /\ \A k \in 1 .. Len(f) : s[k] = f[k].name
    BY <1>1, <2>1, DeclNames
  <2>3. x \in Range(s)  BY <1>1, <1>4, <2>1 DEF Defined, Names
  <2>4. PICK j : j = PositionOf(s, x)  OBVIOUS
  <2>5. j \in 0 .. Len(s) - 1 /\ s[j + 1] = x  BY <2>2, <2>3, <2>4, PositionWorks
  <2>6. i = Len(p) + j  BY <1>1, <1>4, <2>1, <2>4 DEF FuncIndex
  <2>7. /\ i \in Nat /\ i >= Len(a) /\ i < Len(a) + Len(b) /\ i - Len(a) + 1 = j + 1
        /\ j + 1 \in 1 .. Len(f)
    BY <1>2, <1>3, <2>2, <2>5, <2>6
  <2>8. Numbered(a, b, i) = b[j + 1]
    <3>1. Numbered(a, b, i) = b[i - Len(a) + 1]  BY <1>2, <2>7, NumberedAt
    <3>2. QED  BY <3>1, <2>7
  <2>9. b[j + 1] = Symbol(tu.name, x) /\ b[j + 1] \in Symbols
    <3>1. PICK k \in 1 .. Len(f) : k = j + 1  BY <2>7
    <3>2. b[k] = Symbol(tu.name, f[k].name) /\ s[k] = f[k].name  BY <1>2, <2>2
    <3>3. b[k] \in Symbols  BY <3>1, <1>2, Entries
    <3>4. QED  BY <3>1, <3>2, <3>3, <2>5
  <2>10. FuncSymbol(tu, x) = Symbol(tu.name, x)  BY <1>4 DEF FuncSymbol
  <2>11. QED  BY <1>1, <1>4, <2>7, <2>8, <2>9, <2>10
<1>5. CASE x \notin Defined(tu)
  <2>1. \E k \in 1 .. Len(p) : p[k].name = x  BY <1>1, <1>5, ProtosAre
  <2>2. p \in Seq(Prototype)  BY <1>1, ProtosAre
  <2>3. PICK s : s = NamesOf(p)  OBVIOUS
  <2>4. s \in Seq(Text) /\ Len(s) = Len(p) /\ \A k \in 1 .. Len(p) : s[k] = p[k].name
    <3>1. \A y \in Prototype : y.name \in Text  BY DEF Prototype, Text
    <3>2. QED  BY <3>1, <2>2, <2>3, NamesAre
  <2>5. PICK j : j = LastPositionOf(s, x) + 1  OBVIOUS
  <2>6. j \in 1 .. Len(s) /\ s[j] = x /\ LastPositionOf(s, x) \in Nat
    <3>1. s \in Seq(Text) /\ \E k \in 1 .. Len(s) : s[k] = x  BY <2>1, <2>4
    <3>2. QED  BY <3>1, <2>5, LastWorks
  <2>7. i = j - 1
    <3>1. i = LastPositionOf(s, x)  BY <1>1, <1>5, <2>3 DEF FuncIndex
    <3>2. QED  BY <3>1, <2>5, <2>6
  <2>8. i \in Nat /\ i < Len(a) /\ i < Len(a) + Len(b) /\ i + 1 = j /\ j \in 1 .. Len(p)
    BY <1>2, <1>3, <2>4, <2>6, <2>7
  <2>9. Numbered(a, b, i) = a[j]
    <3>1. Numbered(a, b, i) = a[i + 1]  BY <1>2, <2>8, NumberedAt
    <3>2. QED  BY <3>1, <2>8
  <2>10. FuncSymbol(tu, x) = Symbol(p[j].mod, p[j].import)
    <3>1. FuncSymbol(tu, x) = Symbol(p[i + 1].mod, p[i + 1].import)  BY <1>1, <1>5 DEF FuncSymbol
    <3>2. QED  BY <3>1, <2>8
  <2>11. a[j] = Symbol(p[j].mod, p[j].import) /\ a[j] \in Symbols /\ a[j] \in Range(a)
    <3>1. a[j] = Symbol(p[j].mod, p[j].import)  BY <1>2, <2>8
    <3>2. j \in 1 .. Len(a)  BY <1>2, <2>8
    <3>3. a[j] \in Symbols  BY <3>2, <1>2, Entries
    <3>4. a[j] \in Range(a)  BY <3>2, <1>2, RangeOf
    <3>5. QED  BY <3>1, <3>3, <3>4
  <2>12. QED  BY <1>1, <1>5, <2>8, <2>9, <2>10, <2>11
<1>6. QED  BY <1>4, <1>5

-----------------------------------------------------------------------------
\* The function addresses the bodies take.
Uses(tu, k) == {j \in DOMAIN Decls(tu, "func")[k].uses : Decls(tu, "func")[k].uses[j].use = "addr"}
UsesAt(tu, k) == {<<k, j>> : j \in Uses(tu, k)}
AllUses(tu) == UNION {UsesAt(tu, k) : k \in DOMAIN Decls(tu, "func")}

\* Uses are ordered by where they stand in the unit.
LEMMA ReadingOrders ==
  ASSUME NEW K, K \subseteq Nat \X Nat
  PROVE  Orders(Reading, K)
<1>1. \A j, k \in K : <<j, k>> \in Reading <=> j[1] < k[1] \/ (j[1] = k[1] /\ j[2] <= k[2])
  BY DEF Reading
<1>2. \A k \in K : k[1] \in Nat /\ k[2] \in Nat /\ k = <<k[1], k[2]>>  OBVIOUS
<1>3. \A k \in K : <<k, k>> \in Reading  BY <1>1, <1>2
<1>4. ASSUME NEW j \in K, NEW k \in K PROVE <<j, k>> \in Reading \/ <<k, j>> \in Reading
  <2>1. PICK a, b, c, d : a = j[1] /\ b = j[2] /\ c = k[1] /\ d = k[2]  OBVIOUS
  <2>2. a \in Nat /\ b \in Nat /\ c \in Nat /\ d \in Nat  BY <2>1, <1>2
  <2>3. a < c \/ (a = c /\ b <= d) \/ c < a \/ (c = a /\ d <= b)  BY <2>2
  <2>4. QED  BY <2>1, <2>3, <1>1
<1>5. \A j, k \in K : <<j, k>> \in Reading /\ <<k, j>> \in Reading => j = k
  <2>1. SUFFICES ASSUME NEW j \in K, NEW k \in K, <<j, k>> \in Reading, <<k, j>> \in Reading PROVE j = k
    OBVIOUS
  <2>2. j[1] = k[1] /\ j[2] = k[2]  BY <2>1, <1>1, <1>2
  <2>3. QED  BY <2>2, <1>2
<1>6. \A i, j, k \in K : <<i, j>> \in Reading /\ <<j, k>> \in Reading => <<i, k>> \in Reading
  BY <1>1, <1>2
<1>7. QED  BY <1>3, <1>4, <1>5, <1>6 DEF Orders

\* A unit takes finitely many function addresses.
LEMMA UsesFinite ==
  ASSUME NEW tu \in TranslationUnit
  PROVE  IsFiniteSet(AllUses(tu)) /\ AllUses(tu) \subseteq Nat \X Nat
<1>1. PICK f : f = Decls(tu, "func")  OBVIOUS
<1>2. f \in Seq(FunctionDef)  BY <1>1, DeclsAre
<1>3. DOMAIN f = 1 .. Len(f) /\ Len(f) \in Nat /\ \A k \in 1 .. Len(f) : f[k] \in FunctionDef  BY <1>2, Entries
<1>4. ASSUME NEW k \in 1 .. Len(f) PROVE IsFiniteSet(UsesAt(tu, k)) /\ UsesAt(tu, k) \subseteq Nat \X Nat
  <2>1. f[k].uses \in Seq(Use)  BY <1>3 DEF FunctionDef
  <2>2. PICK n \in Nat : DOMAIN f[k].uses = 1 .. n
    <3>1. PICK u \in Seq(Use) : u = f[k].uses  BY <2>1
    <3>2. QED  BY <3>1, Entries
  <2>3. Uses(tu, k) \subseteq 1 .. n  BY <1>1, <2>2 DEF Uses
  <2>4. UsesAt(tu, k) \subseteq (1 .. Len(f)) \X (1 .. n)  BY <2>3 DEF UsesAt
  <2>5. IsFiniteSet(1 .. Len(f)) /\ IsFiniteSet(1 .. n)  BY <1>3, FS_Interval
  <2>6. IsFiniteSet((1 .. Len(f)) \X (1 .. n))  BY <2>5, FS_Product
  <2>7. IsFiniteSet(UsesAt(tu, k))  BY <2>4, <2>6, FS_Subset
  <2>8. UsesAt(tu, k) \subseteq Nat \X Nat  BY <2>3 DEF UsesAt
  <2>9. QED  BY <2>7, <2>8
<1>5. PICK T : T = {UsesAt(tu, k) : k \in 1 .. Len(f)}  OBVIOUS
<1>6. IsFiniteSet(T)
  <2>1. PICK g : g = [k \in 1 .. Len(f) |-> UsesAt(tu, k)]  OBVIOUS
  <2>2. g \in Surjection(1 .. Len(f), T)  BY <1>5, <2>1 DEF Surjection
  <2>3. IsFiniteSet(1 .. Len(f))  BY <1>3, FS_Interval
  <2>4. QED  BY <2>2, <2>3, FS_Surjection
<1>7. \A t \in T : IsFiniteSet(t)  BY <1>4, <1>5
<1>8. IsFiniteSet(UNION T)  BY <1>6, <1>7, FS_UNION
<1>9. AllUses(tu) = UNION T  BY <1>1, <1>3, <1>5 DEF AllUses
<1>10. QED  BY <1>4, <1>5, <1>8, <1>9

\* Each function whose address is taken has a slot, and a slot holds a declared function.
LEMMA TakenWorks ==
  ASSUME NEW tu \in TranslationUnit, WellFormed(tu)
  PROVE  /\ Slots(tu) \in Seq(Text) /\ Range(Slots(tu)) \subseteq Declared(tu)
         /\ \A k \in 1 .. Len(Decls(tu, "func")) : \A j \in Uses(tu, k) :
              Decls(tu, "func")[k].uses[j].name \in Range(Slots(tu))
<1>1. PICK f : f = Decls(tu, "func")  OBVIOUS
<1>2. f \in Seq(FunctionDef)  BY <1>1, DeclsAre
<1>3. DOMAIN f = 1 .. Len(f) /\ Len(f) \in Nat /\ \A k \in 1 .. Len(f) : f[k] \in FunctionDef  BY <1>2, Entries
<1>4. PICK A : A = AllUses(tu)  OBVIOUS
<1>5. IsFiniteSet(A) /\ Orders(Reading, A)  BY <1>4, UsesFinite, ReadingOrders
<1>6. PICK at : at = Listed(A, Reading)  OBVIOUS
<1>7. /\ at \in [1 .. Cardinality(A) -> A]
      /\ \A k \in A : /\ Place(A, Reading, k) \in 1 .. Cardinality(A)
                      /\ at[Place(A, Reading, k)] = k
  <2>1. /\ Listed(A, Reading) \in [1 .. Cardinality(A) -> A]
        /\ \A k \in A : /\ Place(A, Reading, k) \in 1 .. Cardinality(A)
                        /\ Listed(A, Reading)[Place(A, Reading, k)] = k
    BY <1>5, ListedWorks
  <2>2. QED  BY <2>1, <1>6
<1>8. Cardinality(A) \in Nat  BY <1>5, FS_CardinalityType
<1>9. A = AddressUses(tu)  BY <1>4 DEF AllUses, UsesAt, Uses, AddressUses
<1>10. PICK t : t = Taken(tu)  OBVIOUS
<1>11. t = [n \in 1 .. Cardinality(A) |-> f[at[n][1]].uses[at[n][2]].name]
  <2>1. t = [n \in DOMAIN at |-> f[at[n][1]].uses[at[n][2]].name]
    BY <1>1, <1>6, <1>9, <1>10 DEF Taken
  <2>2. QED  BY <2>1, <1>7
<1>12. ASSUME NEW p \in A
       PROVE  /\ f[p[1]].uses[p[2]].name \in Text
              /\ f[p[1]].uses[p[2]].name \in Declared(tu)
  <2>1. PICK k \in 1 .. Len(f) : p \in UsesAt(tu, k)  BY <1>1, <1>3, <1>4 DEF AllUses
  <2>2. PICK j \in Uses(tu, k) : p = <<k, j>>  BY <2>1 DEF UsesAt
  <2>3. PICK u : u = f[k].uses  OBVIOUS
  <2>4. u \in Seq(Use)  BY <1>3, <2>3 DEF FunctionDef
  <2>5. j \in 1 .. Len(u) /\ u[j].use = "addr"
    <3>1. j \in DOMAIN u /\ u[j].use = "addr"  BY <1>1, <2>3 DEF Uses
    <3>2. QED  BY <3>1, <2>4, Entries
  <2>6. u[j] \in Use  BY <2>4, <2>5, Entries
  <2>7. u[j].name \in Text  BY <2>6 DEF Use, Text
  <2>8. u[j].name \in Declared(tu)
    <3>1. f[k] \in Range(f)  BY <1>2, RangeOf
    <3>2. u[j] \in Range(u)  BY <2>4, <2>5, RangeOf
    <3>3. QED  BY <1>1, <3>1, <3>2, <2>3, <2>5 DEF WellFormed
  <2>9. p[1] = k /\ p[2] = j  BY <2>2
  <2>10. QED  BY <2>3, <2>7, <2>8, <2>9
<1>13. t \in Seq(Text) /\ Len(t) = Cardinality(A)
       /\ \A n \in 1 .. Len(t) : t[n] = f[at[n][1]].uses[at[n][2]].name
  <2>1. \A n \in 1 .. Cardinality(A) : at[n] \in A  BY <1>7
  <2>2. \A n \in 1 .. Cardinality(A) : f[at[n][1]].uses[at[n][2]].name \in Text  BY <2>1, <1>12
  <2>3. QED  BY <2>2, <1>8, <1>11
<1>14. Range(t) \subseteq Declared(tu)
  <2>1. ASSUME NEW x \in Range(t) PROVE x \in Declared(tu)
    <3>1. PICK n \in 1 .. Len(t) : t[n] = x  BY <1>13, RangeOf
    <3>2. at[n] \in A  BY <3>1, <1>7, <1>13
    <3>3. QED  BY <3>1, <3>2, <1>12, <1>13
  <2>2. QED  BY <2>1
<1>15. ASSUME NEW k \in 1 .. Len(f), NEW j \in Uses(tu, k) PROVE f[k].uses[j].name \in Range(t)
  <2>1. PICK p : p = <<k, j>>  OBVIOUS
  <2>2. p \in A  BY <1>1, <1>3, <1>4, <2>1 DEF AllUses, UsesAt
  <2>3. PICK n \in 1 .. Len(t) : at[n] = p  BY <2>2, <1>7, <1>13
  <2>4. t[n] = f[k].uses[j].name  BY <2>1, <2>3, <1>13
  <2>5. QED  BY <2>4, <1>13, RangeOf
<1>16. Slots(tu) \in Seq(Text) /\ Range(Slots(tu)) = Range(t)
  <2>1. Firsts(t, {}) \in Seq(Text) /\ Range(Firsts(t, {})) = Range(t) \ {}  BY <1>13, FirstsWorks
  <2>2. QED  BY <2>1, <1>10 DEF Slots
<1>17. QED  BY <1>1, <1>14, <1>15, <1>16

\* The objects of a unit: defined, extern, imported.
GlobsOf(tu) == [k \in DOMAIN Objects(tu) |-> Symbol(tu.name, Objects(tu)[k])]

\* The objects a unit defines and those it imports: disjoint, and none is a runtime global.
LEMMA ObjectsAre ==
  ASSUME NEW tu \in TranslationUnit
  PROVE  /\ Objects(tu) \in Seq(Text) /\ Externs(tu) \in Seq(Text)
         /\ Range(Objects(tu)) \cap {StackPointer, HeapBase} = {}
         /\ Range(Externs(tu)) \cap {StackPointer, HeapBase} = {}
         /\ Range(Externs(tu)) \cap Range(Objects(tu)) = {}
         /\ \A i, j \in 1 .. Len(Externs(tu)) : Externs(tu)[i] = Externs(tu)[j] => i = j
         /\ Range(Objects(tu)) = Names(Decls(tu, "obj")) \ {StackPointer, HeapBase}
<1>1. PICK o, e : o = NamesOf(Decls(tu, "obj")) /\ e = NamesOf(Decls(tu, "extern"))  OBVIOUS
<1>2. o \in Seq(Text) /\ e \in Seq(Text)  BY <1>1, DeclNames
<1>3. PICK S, T : S = {StackPointer, HeapBase} /\ T = S \cup Range(Objects(tu))  OBVIOUS
<1>4. Objects(tu) = Firsts(o, S)  BY <1>1, <1>3 DEF Objects
<1>5. Externs(tu) = Firsts(e, T)  BY <1>1, <1>3 DEF Externs
<1>6. Firsts(o, S) \in Seq(Text) /\ Range(Firsts(o, S)) = Range(o) \ S  BY <1>2, FirstsWorks
<1>7. /\ Firsts(e, T) \in Seq(Text) /\ Range(Firsts(e, T)) = Range(e) \ T
      /\ \A i, j \in 1 .. Len(Firsts(e, T)) : Firsts(e, T)[i] = Firsts(e, T)[j] => i = j
  BY <1>2, FirstsWorks
<1>8. Range(Objects(tu)) = Range(o) \ S /\ Range(Externs(tu)) = Range(e) \ T
  BY <1>4, <1>5, <1>6, <1>7
<1>9. Range(Objects(tu)) = Names(Decls(tu, "obj")) \ {StackPointer, HeapBase}
  BY <1>1, <1>3, <1>8 DEF Names
<1>10. /\ Objects(tu) \in Seq(Text) /\ Externs(tu) \in Seq(Text)
       /\ \A i, j \in 1 .. Len(Externs(tu)) : Externs(tu)[i] = Externs(tu)[j] => i = j
  BY <1>4, <1>5, <1>6, <1>7
<1>11. QED  BY <1>3, <1>8, <1>9, <1>10

\* The imported and the defined globals of a unit: the runtime's come first.
LEMMA GlobalSpaces ==
  ASSUME NEW tu \in TranslationUnit
  PROVE  /\ Gimp(tu) \in Seq(Symbols) /\ Len(Gimp(tu)) >= 2
         /\ Gimp(tu)[1] = Symbol(Env, StackPointer) /\ Gimp(tu)[2] = Symbol(Env, HeapBase)
         /\ Range(Gimp(tu)) = StateImports \cup {Symbol(Env, x) : x \in Range(Externs(tu))}
         /\ \A i, j \in 1 .. Len(Gimp(tu)) : Gimp(tu)[i] = Gimp(tu)[j] => i = j
         /\ GlobsOf(tu) \in Seq(Symbols) /\ Len(GlobsOf(tu)) = Len(Objects(tu))
         /\ \A k \in 1 .. Len(Objects(tu)) : GlobsOf(tu)[k] = Symbol(tu.name, Objects(tu)[k])
<1>1. PICK e, o, g : e = Externs(tu) /\ o = Objects(tu) /\ g = Gimp(tu)  OBVIOUS
<1>2. /\ e \in Seq(Text) /\ o \in Seq(Text) /\ tu.name \in Text
      /\ \A i, j \in 1 .. Len(e) : e[i] = e[j] => i = j
      /\ StackPointer \notin Range(e) /\ HeapBase \notin Range(e)
  BY <1>1, ObjectsAre, DeclsAre
<1>3. /\ DOMAIN e = 1 .. Len(e) /\ Len(e) \in Nat /\ \A k \in 1 .. Len(e) : e[k] \in Text
      /\ DOMAIN o = 1 .. Len(o) /\ Len(o) \in Nat /\ \A k \in 1 .. Len(o) : o[k] \in Text
  BY <1>2, Entries
<1>4. Env \in Text /\ StackPointer \in Text /\ HeapBase \in Text /\ StackPointer # HeapBase
  BY DEF Text, Env, StackPointer, HeapBase
<1>5. PICK x : x = [k \in 1 .. Len(e) |-> Symbol(Env, e[k])]  OBVIOUS
<1>6. /\ x \in Seq(Symbols) /\ Len(x) = Len(e) /\ \A k \in 1 .. Len(e) : x[k] = Symbol(Env, e[k])
  <2>1. \A k \in 1 .. Len(e) : Symbol(Env, e[k]) \in Symbols  BY <1>3, <1>4, SymbolIs
  <2>2. QED  BY <2>1, <1>3, <1>5
<1>7. PICK sp, hb : sp = Symbol(Env, StackPointer) /\ hb = Symbol(Env, HeapBase)  OBVIOUS
<1>8. sp \in Symbols /\ hb \in Symbols /\ sp.name = StackPointer /\ hb.name = HeapBase
  BY <1>4, <1>7, SymbolIs
<1>9. PICK r : r = <<sp, hb>>  OBVIOUS
<1>10. r \in Seq(Symbols) /\ Len(r) = 2 /\ r[1] = sp /\ r[2] = hb  BY <1>8, <1>9
<1>11. g = r \o x
  <2>1. g = RuntimeGlobals \o [k \in DOMAIN e |-> Symbol(Env, e[k])]  BY <1>1 DEF Gimp
  <2>2. RuntimeGlobals = r  BY <1>7, <1>9 DEF RuntimeGlobals
  <2>3. QED  BY <2>1, <2>2, <1>3, <1>5
<1>12. /\ g \in Seq(Symbols) /\ Len(g) = 2 + Len(e) /\ g[1] = sp /\ g[2] = hb
       /\ \A k \in 1 .. Len(e) : k + 2 \in 1 .. Len(g) /\ g[k + 2] = Symbol(Env, e[k])
       /\ \A k \in 1 .. Len(g) : k = 1 \/ k = 2 \/ (k - 2 \in 1 .. Len(e) /\ g[k] = Symbol(Env, e[k - 2]))
  <2>1. /\ g \in Seq(Symbols) /\ Len(g) = 2 + Len(e)
        /\ \A k \in 1 .. 2 : g[k] = r[k]
        /\ \A k \in 3 .. 2 + Len(e) : g[k] = x[k - 2]
    <3>1. r \in Seq(Symbols) /\ x \in Seq(Symbols)  BY <1>6, <1>10
    <3>2. /\ r \o x \in Seq(Symbols) /\ Len(r \o x) = Len(r) + Len(x)
          /\ \A k \in 1 .. Len(r) : (r \o x)[k] = r[k]
          /\ \A k \in 1 .. Len(x) : (r \o x)[Len(r) + k] = x[k]
      BY <3>1, ConcatAt
    <3>3. ASSUME NEW k \in 3 .. 2 + Len(e) PROVE g[k] = x[k - 2]
      <4>1. PICK i : i = k - 2  OBVIOUS
      <4>2. i \in 1 .. Len(x) /\ k = Len(r) + i  BY <4>1, <1>3, <1>6, <1>10
      <4>3. QED  BY <3>2, <4>1, <4>2, <1>11
    <3>4. QED  BY <3>2, <3>3, <1>6, <1>10, <1>11
  <2>2. 1 \in 1 .. 2 /\ 2 \in 1 .. 2  OBVIOUS
  <2>3. g[1] = sp /\ g[2] = hb  BY <2>1, <2>2, <1>10
  <2>4. ASSUME NEW k \in 1 .. Len(e) PROVE k + 2 \in 1 .. Len(g) /\ g[k + 2] = Symbol(Env, e[k])
    <3>1. PICK i : i = k + 2  OBVIOUS
    <3>2. i \in 3 .. 2 + Len(e) /\ i \in 1 .. Len(g) /\ i - 2 = k  BY <1>3, <2>1, <3>1
    <3>3. QED  BY <3>1, <3>2, <2>1, <1>6
  <2>5. ASSUME NEW k \in 1 .. Len(g), k # 1, k # 2 PROVE k - 2 \in 1 .. Len(e) /\ g[k] = Symbol(Env, e[k - 2])
    <3>1. k \in 3 .. 2 + Len(e) /\ k - 2 \in 1 .. Len(e)  BY <2>1, <2>5, <1>3
    <3>2. QED  BY <3>1, <2>1, <1>6
  <2>6. QED  BY <2>1, <2>3, <2>4, <2>5
<1>13. Range(g) = StateImports \cup {Symbol(Env, y) : y \in Range(e)}
  <2>1. \A y : y \in Range(g) <=> \E k \in 1 .. Len(g) : g[k] = y  BY <1>12, RangeOf
  <2>2. \A y : y \in Range(e) <=> \E k \in 1 .. Len(e) : e[k] = y  BY <1>2, RangeOf
  <2>3. StateImports = {sp, hb}  BY <1>7 DEF StateImports
  <2>4. 1 \in 1 .. Len(g) /\ 2 \in 1 .. Len(g)  BY <1>3, <1>12
  <2>5. \A y : y \in Range(g) <=> y = sp \/ y = hb \/ \E k \in 1 .. Len(e) : y = Symbol(Env, e[k])
    BY <2>1, <2>4, <1>12
  <2>6. QED  BY <2>2, <2>3, <2>5
<1>14. \A i, j \in 1 .. Len(g) : g[i] = g[j] => i = j
  <2>1. ASSUME NEW i \in 1 .. Len(g), NEW j \in 1 .. Len(g), g[i] = g[j], i # j PROVE FALSE
    <3>1. /\ Symbol(Env, StackPointer).name = StackPointer /\ Symbol(Env, HeapBase).name = HeapBase
          /\ \A k \in 1 .. Len(e) : Symbol(Env, e[k]).name = e[k]
      BY <1>3, <1>4, SymbolIs
    <3>2. \A k \in 1 .. Len(e) : e[k] # StackPointer /\ e[k] # HeapBase
      <4>1. \A k \in 1 .. Len(e) : e[k] \in Range(e)  BY <1>2, RangeOf
      <4>2. QED  BY <4>1, <1>2
    <3>3. i \in Nat /\ j \in Nat  OBVIOUS
    <3>4. CASE i - 2 \in 1 .. Len(e) /\ g[i] = Symbol(Env, e[i - 2])
      <4>1. CASE j - 2 \in 1 .. Len(e) /\ g[j] = Symbol(Env, e[j - 2])
        <5>1. e[i - 2] = e[j - 2]  BY <2>1, <3>1, <3>4, <4>1
        <5>2. i - 2 = j - 2  BY <5>1, <1>2, <3>4, <4>1
        <5>3. QED  BY <5>2, <2>1, <3>3
      <4>2. CASE j = 1 \/ j = 2
        <5>a. g[j] = sp \/ g[j] = hb  BY <4>2, <1>12
        <5>1. e[i - 2] = StackPointer \/ e[i - 2] = HeapBase  BY <5>a, <2>1, <3>1, <3>4, <1>7
        <5>2. QED  BY <5>1, <3>2, <3>4
      <4>3. QED  BY <4>1, <4>2, <1>12
    <3>5. CASE i = 1 \/ i = 2
      <4>1. CASE j - 2 \in 1 .. Len(e) /\ g[j] = Symbol(Env, e[j - 2])
        <5>a. g[i] = sp \/ g[i] = hb  BY <3>5, <1>12
        <5>1. e[j - 2] = StackPointer \/ e[j - 2] = HeapBase  BY <5>a, <4>1, <2>1, <3>1, <1>7
        <5>2. QED  BY <5>1, <3>2, <4>1
      <4>2. CASE j = 1 \/ j = 2
        <5>1. sp = hb  BY <4>2, <3>5, <2>1, <1>12
        <5>2. QED  BY <5>1, <1>4, <1>8
      <4>3. QED  BY <4>1, <4>2, <1>12
    <3>6. QED  BY <3>4, <3>5, <1>12
  <2>2. QED  BY <2>1
<1>15. PICK d : d = GlobsOf(tu)  OBVIOUS
<1>16. /\ d \in Seq(Symbols) /\ Len(d) = Len(o) /\ \A k \in 1 .. Len(o) : d[k] = Symbol(tu.name, o[k])
  <2>1. d = [k \in 1 .. Len(o) |-> Symbol(tu.name, o[k])]  BY <1>1, <1>3, <1>15 DEF GlobsOf
  <2>2. \A k \in 1 .. Len(o) : Symbol(tu.name, o[k]) \in Symbols  BY <1>2, <1>3, SymbolIs
  <2>3. QED  BY <2>1, <2>2, <1>3
<1>17. Len(g) >= 2  BY <1>3, <1>12
<1>18. QED  BY <1>1, <1>7, <1>12, <1>13, <1>14, <1>15, <1>16, <1>17

\* The linker's own names are names.
LEMMA TextIs ==
  /\ Env \in Text /\ StackPointer \in Text /\ HeapBase \in Text /\ Main \in Text
  /\ Exit \in Text /\ StdioExit \in Text
BY DEF Text

\* A reference is made of a kind, a number and a symbol.
LEMMA RefIs ==
  ASSUME NEW k \in {"func", "glob", "slot"}, NEW i \in Nat, NEW s \in Symbols
  PROVE  /\ Ref(k, i, s) \in Refs /\ Ref(k, i, s).kind = k /\ Ref(k, i, s).idx = i /\ Ref(k, i, s).sym = s
BY DEF Ref, Refs

\* A reference to a declared function.
LEMMA FuncRefIs ==
  ASSUME NEW tu \in TranslationUnit, NEW x \in Declared(tu)
  PROVE  /\ FuncRef(tu, x) \in Refs /\ FuncRef(tu, x).kind = "func"
         /\ FuncRef(tu, x).idx = FuncIndex(tu, x) /\ FuncRef(tu, x).sym = FuncSymbol(tu, x)
<1>1. FuncIndex(tu, x) \in Nat /\ FuncSymbol(tu, x) \in Symbols  BY FuncWorks
<1>2. QED  BY <1>1, RefIs DEF FuncRef

\* The three sorts of references of a body.
Calling(tu, r)  == \E x \in Declared(tu) : r = FuncRef(tu, x)
Pointing(tu, r) == \E x \in Range(Slots(tu)) : r = Ref("slot", PositionOf(Slots(tu), x), FuncSymbol(tu, x))
Loading(tu, r)  == \E k \in 1 .. Len(Gimp(tu)) : r = Ref("glob", k - 1, Gimp(tu)[k])

\* A compiled body only calls declared functions, uses slots and loads imported globals.
LEMMA BodyWorks ==
  ASSUME NEW tu \in TranslationUnit, WellFormed(tu), NEW k \in 1 .. Len(Decls(tu, "func"))
  PROVE  /\ \A r \in Body(tu, Decls(tu, "func")[k]).refs :
              r \in Refs /\ (Calling(tu, r) \/ Pointing(tu, r) \/ Loading(tu, r))
         /\ Body(tu, Decls(tu, "func")[k]) \in Bodies
         /\ Body(tu, Decls(tu, "func")[k]).id = Symbol(tu.name, Decls(tu, "func")[k].name)
<1>1. PICK fs : fs = Decls(tu, "func")  OBVIOUS
<1>2. fs \in Seq(FunctionDef) /\ tu.name \in Text  BY <1>1, DeclsAre
<1>3. PICK f \in FunctionDef : f = fs[k]  BY <1>1, <1>2, Entries
<1>4. f.name \in Text /\ f.argv \in BOOLEAN /\ f.uses \in Seq(Use)  BY DEF FunctionDef, Text
<1>5. PICK u : u = f.uses  OBVIOUS
<1>6. DOMAIN u = 1 .. Len(u) /\ Len(u) \in Nat /\ \A j \in 1 .. Len(u) : u[j] \in Use
  BY <1>4, <1>5, Entries
<1>7. ASSUME NEW j \in 1 .. Len(u), NEW r \in UseRefs(tu, u[j])
      PROVE  r \in Refs /\ (Calling(tu, r) \/ Pointing(tu, r) \/ Loading(tu, r))
  <2>1. PICK w \in Use : w = u[j]  BY <1>6
  <2>2. w.use \in {"call", "addr", "obj"}  BY DEF Use
  <2>3. w.use # "obj" => w.name \in Declared(tu)
    <3>1. f \in Range(fs)  BY <1>1, <1>2, <1>3, RangeOf
    <3>2. w \in Range(u)  BY <1>4, <1>5, <2>1, RangeOf
    <3>3. QED  BY <1>1, <1>5, <3>1, <3>2 DEF WellFormed
  <2>4. CASE w.use = "call"
    <3>1. r = FuncRef(tu, w.name)  BY <2>1, <2>4 DEF UseRefs
    <3>2. w.name \in Declared(tu)  BY <2>3, <2>4
    <3>3. QED  BY <3>1, <3>2, FuncRefIs DEF Calling
  <2>5. CASE w.use = "addr"
    <3>1. r = Ref("slot", PositionOf(Slots(tu), w.name), FuncSymbol(tu, w.name))
      BY <2>1, <2>5 DEF UseRefs
    <3>2. w.name \in Declared(tu)  BY <2>3, <2>5
    <3>3. j \in Uses(tu, k)  BY <1>1, <1>3, <1>5, <1>6, <2>1, <2>5 DEF Uses
    <3>4. w.name \in Range(Slots(tu))  BY <1>1, <1>3, <1>5, <2>1, <3>3, TakenWorks
    <3>5. Slots(tu) \in Seq(Text)  BY TakenWorks
    <3>6. PositionOf(Slots(tu), w.name) \in Nat
      <4>1. PositionOf(Slots(tu), w.name) \in 0 .. Len(Slots(tu)) - 1  BY <3>4, <3>5, PositionWorks
      <4>2. QED  BY <4>1
    <3>7. FuncSymbol(tu, w.name) \in Symbols  BY <3>2, FuncWorks
    <3>8. r \in Refs  BY <3>1, <3>6, <3>7, RefIs
    <3>9. QED  BY <3>1, <3>4, <3>8 DEF Pointing
  <2>6. CASE w.use = "obj"
    <3>1. Gimp(tu) \in Seq(Symbols)  BY GlobalSpaces
    <3>2. PICK i \in 1 .. Len(Gimp(tu)) : r = Ref("glob", i - 1, Gimp(tu)[i])
      <4>1. DOMAIN Gimp(tu) = 1 .. Len(Gimp(tu))  BY <3>1, Entries
      <4>2. QED  BY <2>1, <2>6, <4>1 DEF UseRefs
    <3>3. Gimp(tu)[i] \in Symbols /\ i - 1 \in Nat  BY <3>1, Entries
    <3>4. r \in Refs  BY <3>2, <3>3, RefIs
    <3>5. QED  BY <3>2, <3>4 DEF Loading
  <2>7. QED  BY <2>2, <2>4, <2>5, <2>6
<1>8. PICK R : R = UNION {UseRefs(tu, f.uses[j]) : j \in DOMAIN f.uses}  OBVIOUS
<1>9. Body(tu, f) = [id |-> Symbol(tu.name, f.name), argv |-> f.argv, refs |-> R]  BY <1>8 DEF Body
<1>10. \A r \in R : \E j \in 1 .. Len(u) : r \in UseRefs(tu, u[j])  BY <1>5, <1>6, <1>8
<1>11. \A r \in R : r \in Refs /\ (Calling(tu, r) \/ Pointing(tu, r) \/ Loading(tu, r))
  BY <1>7, <1>10
<1>12. Symbol(tu.name, f.name) \in Symbols  BY <1>2, <1>4, SymbolIs
<1>13. Body(tu, f) \in Bodies  BY <1>4, <1>9, <1>11, <1>12 DEF Bodies
<1>14. QED  BY <1>1, <1>3, <1>9, <1>11, <1>13

-----------------------------------------------------------------------------
\* What a unit exports: the names of a kind.
Offered(tu, kind) ==
  IF kind = "func" THEN {f.name : f \in {g \in Range(Decls(tu, "func")) : ~g.static \/ g.name = Main}}
                   ELSE Range(Objects(tu))

\* The functions a unit exports: those that are not static, and main.
LEMMA ExternalWorks ==
  ASSUME NEW tu \in TranslationUnit
  PROVE  /\ External(tu) \in Seq(FunctionDef)
         /\ \A k \in 1 .. Len(External(tu)) : External(tu)[k].name \in Offered(tu, "func")
         /\ \A x \in Offered(tu, "func") : \E k \in 1 .. Len(External(tu)) : External(tu)[k].name = x
         /\ Offered(tu, "func") \subseteq Defined(tu)
<1>1. PICK f : f = Decls(tu, "func")  OBVIOUS
<1>2. f \in Seq(FunctionDef)  BY <1>1, DeclsAre
<1>3. DOMAIN f = 1 .. Len(f) /\ \A k \in 1 .. Len(f) : f[k] \in FunctionDef  BY <1>2, Entries
<1>4. PICK K : K = {k \in DOMAIN f : ~f[k].static \/ f[k].name = Main}  OBVIOUS
<1>5. K \subseteq DOMAIN f /\ \A k \in K : f[k] \in FunctionDef  BY <1>3, <1>4
<1>6. PICK u : u = Kept(f, K)  OBVIOUS
<1>7. External(tu) = u  BY <1>1, <1>4, <1>6 DEF External
<1>8. /\ u \in Seq(FunctionDef)
      /\ \A n \in 1 .. Len(u) : \E k \in K : u[n] = f[k]
      /\ \A k \in K : \E n \in 1 .. Len(u) : u[n] = f[k]
  <2>1. /\ Kept(f, K) \in Seq(FunctionDef)
        /\ \A n \in 1 .. Len(Kept(f, K)) : \E k \in K : Kept(f, K)[n] = f[k]
        /\ \A k \in K : \E n \in 1 .. Len(Kept(f, K)) : Kept(f, K)[n] = f[k]
    BY <1>2, <1>5, KeptOf
  <2>2. QED  BY <2>1, <1>6
<1>9. \A x : x \in Offered(tu, "func") <=> \E k \in K : f[k].name = x
  <2>1. \A g : g \in Range(f) <=> \E k \in 1 .. Len(f) : f[k] = g  BY <1>2, RangeOf
  <2>2. Offered(tu, "func") = {g.name : g \in {h \in Range(f) : ~h.static \/ h.name = Main}}
    BY <1>1 DEF Offered
  <2>3. QED  BY <2>1, <2>2, <1>3, <1>4
<1>10. Offered(tu, "func") \subseteq Defined(tu)
  BY <1>1, <1>3, <1>4, <1>9, DeclNames
<1>11. ASSUME NEW n \in 1 .. Len(u) PROVE u[n].name \in Offered(tu, "func")
  <2>1. PICK k \in K : u[n] = f[k]  BY <1>8
  <2>2. f[k].name \in Offered(tu, "func")  BY <1>9
  <2>3. QED  BY <2>1, <2>2
<1>12. ASSUME NEW x \in Offered(tu, "func") PROVE \E n \in 1 .. Len(u) : u[n].name = x
  <2>1. PICK k \in K : f[k].name = x  BY <1>9
  <2>2. PICK n \in 1 .. Len(u) : u[n] = f[k]  BY <1>8
  <2>3. u[n].name = x  BY <2>1, <2>2
  <2>4. QED  BY <2>3
<1>13. QED  BY <1>7, <1>8, <1>10, <1>11, <1>12

FuncExp(tu, x) == [name |-> x, ref |-> FuncRef(tu, x)]
ObjExp(tu, k) == [name |-> Objects(tu)[k], ref |-> ObjRef(tu, k)]

\* An export is made of a name and a reference.
LEMMA ExpIs ==
  ASSUME NEW n \in Text, NEW r \in Refs, NEW e, e = [name |-> n, ref |-> r]
  PROVE  e \in Exps /\ e.name = n /\ e.ref = r
BY DEF Exps

\* A reference to a defined object.
LEMMA ObjRefIs ==
  ASSUME NEW tu \in TranslationUnit, NEW k \in 1 .. Len(Objects(tu))
  PROVE  /\ ObjRef(tu, k) \in Refs /\ ObjRef(tu, k).kind = "glob"
         /\ ObjRef(tu, k).idx = Len(Gimp(tu)) + k - 1
         /\ ObjRef(tu, k).sym = Symbol(tu.name, Objects(tu)[k])
         /\ Objects(tu)[k] \in Text /\ Objects(tu)[k] \in Offered(tu, "glob")
<1>1. PICK o, n : o = Objects(tu) /\ n = Len(Gimp(tu))  OBVIOUS
<1>2. o \in Seq(Text) /\ tu.name \in Text  BY <1>1, ObjectsAre, DeclsAre
<1>3. o[k] \in Text /\ k \in Nat /\ k >= 1  BY <1>1, <1>2, Entries
<1>4. n \in Nat
  <2>1. Gimp(tu) \in Seq(Symbols)  BY GlobalSpaces
  <2>2. QED  BY <2>1, <1>1
<1>5. n + k - 1 \in Nat  BY <1>3, <1>4
<1>6. Symbol(tu.name, o[k]) \in Symbols  BY <1>2, <1>3, SymbolIs
<1>7. ObjRef(tu, k) = Ref("glob", n + k - 1, Symbol(tu.name, o[k]))  BY <1>1 DEF ObjRef
<1>8. o[k] \in Range(o)  BY <1>1, <1>2, RangeOf
<1>9. Offered(tu, "glob") = Range(o)  BY <1>1 DEF Offered
<1>10. QED  BY <1>1, <1>3, <1>5, <1>6, <1>7, <1>8, <1>9, RefIs

\* A unit exports its external functions and its objects, and nothing else.
LEMMA ExportsWork ==
  ASSUME NEW tu \in TranslationUnit
  PROVE  /\ Exports(tu) \in Seq(Exps)
         /\ \A k \in 1 .. Len(Exports(tu)) :
              \/ \E x \in Offered(tu, "func") : Exports(tu)[k] = FuncExp(tu, x)
              \/ \E j \in 1 .. Len(Objects(tu)) : Exports(tu)[k] = ObjExp(tu, j)
         /\ \A x \in Offered(tu, "func") : \E k \in 1 .. Len(Exports(tu)) : Exports(tu)[k] = FuncExp(tu, x)
         /\ \A j \in 1 .. Len(Objects(tu)) : \E k \in 1 .. Len(Exports(tu)) : Exports(tu)[k] = ObjExp(tu, j)
<1>1. PICK f, o : f = External(tu) /\ o = Objects(tu)  OBVIOUS
<1>2. /\ f \in Seq(FunctionDef) /\ o \in Seq(Text)
      /\ \A k \in 1 .. Len(f) : f[k].name \in Offered(tu, "func")
      /\ \A x \in Offered(tu, "func") : \E k \in 1 .. Len(f) : f[k].name = x
      /\ Offered(tu, "func") \subseteq Declared(tu) /\ Offered(tu, "func") \subseteq Text
  BY <1>1, ExternalWorks, ObjectsAre, DeclNames DEF Declared
<1>3. /\ DOMAIN f = 1 .. Len(f) /\ Len(f) \in Nat
      /\ DOMAIN o = 1 .. Len(o) /\ Len(o) \in Nat
  BY <1>2, Entries
<1>4. PICK a : a = [k \in 1 .. Len(f) |-> FuncExp(tu, f[k].name)]  OBVIOUS
<1>5. PICK b : b = [k \in 1 .. Len(o) |-> ObjExp(tu, k)]  OBVIOUS
<1>6. a \in Seq(Exps) /\ Len(a) = Len(f) /\ \A k \in 1 .. Len(f) : a[k] = FuncExp(tu, f[k].name)
  <2>1. ASSUME NEW k \in 1 .. Len(f) PROVE FuncExp(tu, f[k].name) \in Exps
    <3>1. PICK x \in Offered(tu, "func") : x = f[k].name  BY <1>2
    <3>2. FuncRef(tu, x) \in Refs /\ x \in Text  BY <1>2, FuncRefIs
    <3>3. FuncExp(tu, x) \in Exps  BY <3>2 DEF FuncExp, Exps
    <3>4. QED  BY <3>1, <3>3
  <2>2. QED  BY <2>1, <1>3, <1>4
<1>7. b \in Seq(Exps) /\ Len(b) = Len(o) /\ \A k \in 1 .. Len(o) : b[k] = ObjExp(tu, k)
  <2>1. ASSUME NEW k \in 1 .. Len(o) PROVE ObjExp(tu, k) \in Exps
    <3>1. ObjRef(tu, k) \in Refs /\ o[k] \in Text  BY <1>1, ObjRefIs
    <3>2. QED  BY <1>1, <3>1 DEF ObjExp, Exps
  <2>2. QED  BY <2>1, <1>3, <1>5
<1>8. PICK e : e = a \o b  OBVIOUS
<1>9. Exports(tu) = e
  <2>1. a = [k \in DOMAIN f |-> [name |-> f[k].name, ref |-> FuncRef(tu, f[k].name)]]
    BY <1>3, <1>4 DEF FuncExp
  <2>2. b = [k \in DOMAIN o |-> [name |-> o[k], ref |-> ObjRef(tu, k)]]
    BY <1>1, <1>3, <1>5 DEF ObjExp
  <2>3. QED  BY <2>1, <2>2, <1>1, <1>8 DEF Exports
<1>10. /\ e \in Seq(Exps) /\ Len(e) = Len(a) + Len(b)
       /\ \A k \in 1 .. Len(a) : k \in 1 .. Len(a) + Len(b) /\ e[k] = a[k]
       /\ \A k \in 1 .. Len(b) : Len(a) + k \in 1 .. Len(a) + Len(b) /\ e[Len(a) + k] = b[k]
       /\ \A k \in 1 .. Len(a) + Len(b) : \/ k \in 1 .. Len(a) /\ e[k] = a[k]
                                         \/ \E j \in 1 .. Len(b) : k = Len(a) + j /\ e[k] = b[j]
  <2>1. a \in Seq(Exps) /\ b \in Seq(Exps)  BY <1>6, <1>7
  <2>2. /\ a \o b \in Seq(Exps) /\ Len(a \o b) = Len(a) + Len(b)
        /\ \A k \in 1 .. Len(a) : k \in 1 .. Len(a) + Len(b) /\ (a \o b)[k] = a[k]
        /\ \A k \in 1 .. Len(b) : Len(a) + k \in 1 .. Len(a) + Len(b) /\ (a \o b)[Len(a) + k] = b[k]
        /\ \A k \in 1 .. Len(a) + Len(b) : \/ k \in 1 .. Len(a) /\ (a \o b)[k] = a[k]
                                          \/ \E j \in 1 .. Len(b) : k = Len(a) + j /\ (a \o b)[k] = b[j]
    BY <2>1, ConcatAt
  <2>3. QED  BY <2>2, <1>8
<1>11. ASSUME NEW k \in 1 .. Len(e)
       PROVE  \/ \E x \in Offered(tu, "func") : e[k] = FuncExp(tu, x)
              \/ \E j \in 1 .. Len(o) : e[k] = ObjExp(tu, j)
  <2>1. CASE k \in 1 .. Len(a) /\ e[k] = a[k]
    <3>1. f[k].name \in Offered(tu, "func") /\ e[k] = FuncExp(tu, f[k].name)  BY <2>1, <1>2, <1>6
    <3>2. QED  BY <3>1
  <2>2. CASE \E j \in 1 .. Len(b) : k = Len(a) + j /\ e[k] = b[j]  BY <2>2, <1>7
  <2>3. QED  BY <2>1, <2>2, <1>10
<1>12. ASSUME NEW x \in Offered(tu, "func") PROVE \E k \in 1 .. Len(e) : e[k] = FuncExp(tu, x)
  <2>1. PICK k \in 1 .. Len(f) : f[k].name = x  BY <1>2
  <2>2. k \in 1 .. Len(e) /\ e[k] = FuncExp(tu, x)  BY <2>1, <1>6, <1>10
  <2>3. QED  BY <2>2
<1>13. ASSUME NEW j \in 1 .. Len(o) PROVE \E k \in 1 .. Len(e) : e[k] = ObjExp(tu, j)
  <2>1. Len(a) + j \in 1 .. Len(e) /\ e[Len(a) + j] = ObjExp(tu, j)  BY <1>7, <1>10
  <2>2. QED  BY <2>1
<1>14. QED  BY <1>1, <1>9, <1>10, <1>11, <1>12, <1>13

\* The offers of a unit's exports.
Offers(tu, s) ==
  /\ \A k \in 1 .. Len(s) : /\ s[k].ref.kind \in {"func", "glob"}
                            /\ s[k].name \in Offered(tu, s[k].ref.kind)
                            /\ s[k].ref.sym = Symbol(tu.name, s[k].name)
  /\ \A kind \in {"func", "glob"} : \A x \in Offered(tu, kind) :
       \E k \in 1 .. Len(s) : s[k].name = x /\ s[k].ref.kind = kind

\* The exports of a unit are what it offers.
LEMMA ExportsOffer ==
  ASSUME NEW tu \in TranslationUnit
  PROVE  Offers(tu, Exports(tu))
<1>1. PICK e, o : e = Exports(tu) /\ o = Objects(tu)  OBVIOUS
<1>2. ASSUME NEW x \in Offered(tu, "func")
      PROVE  /\ FuncExp(tu, x).name = x /\ FuncExp(tu, x).ref.kind = "func"
             /\ FuncExp(tu, x).ref.sym = Symbol(tu.name, x)
  <2>1. x \in Declared(tu) /\ x \in Defined(tu)  BY ExternalWorks DEF Declared
  <2>2. FuncRef(tu, x).kind = "func" /\ FuncRef(tu, x).sym = FuncSymbol(tu, x)  BY <2>1, FuncRefIs
  <2>3. FuncSymbol(tu, x) = Symbol(tu.name, x)  BY <2>1, FuncWorks
  <2>4. QED  BY <2>2, <2>3 DEF FuncExp
<1>3. ASSUME NEW j \in 1 .. Len(o)
      PROVE  /\ ObjExp(tu, j).name = o[j] /\ ObjExp(tu, j).ref.kind = "glob"
             /\ ObjExp(tu, j).ref.sym = Symbol(tu.name, o[j]) /\ o[j] \in Offered(tu, "glob")
  <2>1. ObjRef(tu, j).kind = "glob" /\ ObjRef(tu, j).sym = Symbol(tu.name, o[j])
        /\ o[j] \in Offered(tu, "glob")
    BY <1>1, ObjRefIs
  <2>2. QED  BY <1>1, <2>1 DEF ObjExp
<1>4. /\ \A k \in 1 .. Len(e) : \/ \E x \in Offered(tu, "func") : e[k] = FuncExp(tu, x)
                               \/ \E j \in 1 .. Len(o) : e[k] = ObjExp(tu, j)
      /\ \A x \in Offered(tu, "func") : \E k \in 1 .. Len(e) : e[k] = FuncExp(tu, x)
      /\ \A j \in 1 .. Len(o) : \E k \in 1 .. Len(e) : e[k] = ObjExp(tu, j)
  BY <1>1, ExportsWork
<1>5. ASSUME NEW k \in 1 .. Len(e)
      PROVE  /\ e[k].ref.kind \in {"func", "glob"}
             /\ e[k].name \in Offered(tu, e[k].ref.kind)
             /\ e[k].ref.sym = Symbol(tu.name, e[k].name)
  <2>1. CASE \E x \in Offered(tu, "func") : e[k] = FuncExp(tu, x)
    <3>1. PICK x \in Offered(tu, "func") : e[k] = FuncExp(tu, x)  BY <2>1
    <3>2. e[k].name = x /\ e[k].ref.kind = "func" /\ e[k].ref.sym = Symbol(tu.name, x)  BY <3>1, <1>2
    <3>3. QED  BY <3>2
  <2>2. CASE \E j \in 1 .. Len(o) : e[k] = ObjExp(tu, j)
    <3>1. PICK j \in 1 .. Len(o) : e[k] = ObjExp(tu, j)  BY <2>2
    <3>2. e[k].name = o[j] /\ e[k].ref.kind = "glob" /\ e[k].ref.sym = Symbol(tu.name, o[j])
          /\ o[j] \in Offered(tu, "glob")
      BY <3>1, <1>3
    <3>3. QED  BY <3>2
  <2>3. QED  BY <2>1, <2>2, <1>4
<1>6. ASSUME NEW x \in Offered(tu, "func")
      PROVE  \E k \in 1 .. Len(e) : e[k].name = x /\ e[k].ref.kind = "func"
  BY <1>2, <1>4
<1>7. ASSUME NEW x \in Offered(tu, "glob")
      PROVE  \E k \in 1 .. Len(e) : e[k].name = x /\ e[k].ref.kind = "glob"
  <2>1. x \in Range(o)  BY <1>1 DEF Offered
  <2>2. o \in Seq(Text)  BY <1>1, ObjectsAre
  <2>3. PICK j \in 1 .. Len(o) : o[j] = x  BY <2>1, <2>2, RangeOf
  <2>4. QED  BY <2>3, <1>3, <1>4
<1>8. QED  BY <1>1, <1>5, <1>6, <1>7 DEF Offers

BodiesOf(tu) == [k \in DOMAIN Decls(tu, "func") |-> Body(tu, Decls(tu, "func")[k])]
TableOf(tu)  == [k \in DOMAIN Slots(tu) |-> FuncRef(tu, Slots(tu)[k])]

\* Compile, field by field.
LEMMA CompileIs ==
  ASSUME NEW tu
  PROVE  Compile(tu) = [fimp |-> FimpOf(tu), gimp |-> Gimp(tu), funcs |-> BodiesOf(tu), globs |-> GlobsOf(tu),
                        exps |-> Exports(tu), table |-> TableOf(tu), start |-> {}]
BY DEF Compile, FimpOf, BodiesOf, GlobsOf, TableOf

\* The compiled bodies of a unit.
LEMMA BodiesWork ==
  ASSUME NEW tu \in TranslationUnit, WellFormed(tu)
  PROVE  /\ BodiesOf(tu) \in Seq(Bodies) /\ Len(BodiesOf(tu)) = Len(Decls(tu, "func"))
         /\ \A k \in 1 .. Len(Decls(tu, "func")) :
              /\ BodiesOf(tu)[k].id = DefsOf(tu)[k]
              /\ BodiesOf(tu)[k].argv = Decls(tu, "func")[k].argv
              /\ \A r \in BodiesOf(tu)[k].refs : Calling(tu, r) \/ Pointing(tu, r) \/ Loading(tu, r)
<1>1. PICK f, b : f = Decls(tu, "func") /\ b = BodiesOf(tu)  OBVIOUS
<1>2. f \in Seq(FunctionDef)  BY <1>1, DeclsAre
<1>3. DOMAIN f = 1 .. Len(f) /\ Len(f) \in Nat  BY <1>2, Entries
<1>4. \A k \in 1 .. Len(f) : /\ Body(tu, f[k]) \in Bodies /\ Body(tu, f[k]).id = Symbol(tu.name, f[k].name)
                             /\ \A r \in Body(tu, f[k]).refs : Calling(tu, r) \/ Pointing(tu, r) \/ Loading(tu, r)
  BY <1>1, BodyWorks
<1>5. b = [k \in 1 .. Len(f) |-> Body(tu, f[k])]  BY <1>1, <1>3 DEF BodiesOf
<1>6. b \in Seq(Bodies) /\ Len(b) = Len(f) /\ \A k \in 1 .. Len(f) : b[k] = Body(tu, f[k])
  BY <1>3, <1>4, <1>5
<1>7. \A k \in 1 .. Len(f) : DefsOf(tu)[k] = Symbol(tu.name, f[k].name)  BY <1>1, FunctionSpaces
<1>8. \A k \in 1 .. Len(f) : Body(tu, f[k]).argv = f[k].argv  BY DEF Body
<1>9. QED  BY <1>1, <1>4, <1>6, <1>7, <1>8

\* The table of a unit: one slot for each function whose address is taken.
LEMMA TableWorks ==
  ASSUME NEW tu \in TranslationUnit, WellFormed(tu)
  PROVE  /\ TableOf(tu) \in Seq(Refs) /\ Len(TableOf(tu)) = Len(Slots(tu))
         /\ \A k \in 1 .. Len(Slots(tu)) : TableOf(tu)[k] = FuncRef(tu, Slots(tu)[k]) /\ Slots(tu)[k] \in Declared(tu)
<1>1. PICK s, t : s = Slots(tu) /\ t = TableOf(tu)  OBVIOUS
<1>2. s \in Seq(Text) /\ Range(s) \subseteq Declared(tu)  BY <1>1, TakenWorks
<1>3. DOMAIN s = 1 .. Len(s) /\ Len(s) \in Nat  BY <1>2, Entries
<1>4. \A k \in 1 .. Len(s) : s[k] \in Declared(tu)  BY <1>2, RangeOf
<1>5. \A k \in 1 .. Len(s) : FuncRef(tu, s[k]) \in Refs  BY <1>4, FuncRefIs
<1>6. t = [k \in 1 .. Len(s) |-> FuncRef(tu, s[k])]  BY <1>1, <1>3 DEF TableOf
<1>7. t \in Seq(Refs) /\ Len(t) = Len(s) /\ \A k \in 1 .. Len(s) : t[k] = FuncRef(tu, s[k])
  BY <1>3, <1>5, <1>6
<1>8. QED  BY <1>1, <1>4, <1>7

\* The fields of a compiled unit.
LEMMA CompileFields ==
  ASSUME NEW tu \in TranslationUnit, WellFormed(tu), NEW c, c = Compile(tu)
  PROVE  /\ c \in Modules /\ c.fimp = FimpOf(tu) /\ c.gimp = Gimp(tu) /\ c.globs = GlobsOf(tu)
         /\ c.exps = Exports(tu) /\ c.table = TableOf(tu) /\ c.start = {} /\ c.funcs = BodiesOf(tu)
         /\ Ids(c) = DefsOf(tu)
<1>1. PICK fi, gi, fs, gl, ex, ta : /\ fi = FimpOf(tu) /\ gi = Gimp(tu) /\ fs = BodiesOf(tu)
                                    /\ gl = GlobsOf(tu) /\ ex = Exports(tu) /\ ta = TableOf(tu)
  OBVIOUS
<1>2. /\ fi \in Seq(Symbols) /\ gi \in Seq(Symbols) /\ fs \in Seq(Bodies) /\ gl \in Seq(Symbols)
      /\ ex \in Seq(Exps) /\ ta \in Seq(Refs)
  BY <1>1, FunctionSpaces, GlobalSpaces, BodiesWork, ExportsWork, TableWorks
<1>3. c = [fimp |-> fi, gimp |-> gi, funcs |-> fs, globs |-> gl, exps |-> ex, table |-> ta, start |-> {}]
  BY <1>1, CompileIs
<1>4. c \in Modules /\ c.fimp = fi /\ c.gimp = gi /\ c.globs = gl /\ c.exps = ex /\ c.table = ta /\ c.start = {}
      /\ c.funcs = fs
  BY <1>2, <1>3 DEF Modules
<1>5. PICK ids, d : ids = Ids(c) /\ d = DefsOf(tu)  OBVIOUS
<1>6. ids \in Seq(Symbols) /\ Len(ids) = Len(fs) /\ \A k \in 1 .. Len(fs) : ids[k] = fs[k].id
  BY <1>4, <1>5, IdsOf
<1>7. d \in Seq(Symbols) /\ Len(d) = Len(fs) /\ \A k \in 1 .. Len(fs) : fs[k].id = d[k]
  BY <1>1, <1>5, FunctionSpaces, BodiesWork
<1>8. ids = d  BY <1>6, <1>7
<1>9. QED  BY <1>1, <1>4, <1>5, <1>8

\* In a compiled unit every number is in range and denotes what the source meant.
LEMMA CompileWorks ==
  ASSUME NEW tu \in TranslationUnit, WellFormed(tu), NEW c, c = Compile(tu)
  PROVE  Whole(c) /\ Named(c) /\ c.start = {}
<1>1. /\ c \in Modules /\ c.fimp = FimpOf(tu) /\ c.gimp = Gimp(tu) /\ c.globs = GlobsOf(tu)
      /\ c.exps = Exports(tu) /\ c.table = TableOf(tu) /\ c.start = {} /\ c.funcs = BodiesOf(tu)
      /\ Ids(c) = DefsOf(tu)
  BY CompileFields
<1>2. PICK s, t, gi, gl : s = Slots(tu) /\ t = TableOf(tu) /\ gi = Gimp(tu) /\ gl = GlobsOf(tu)  OBVIOUS
<1>3. t \in Seq(Refs) /\ Len(t) = Len(s) /\ \A k \in 1 .. Len(s) : t[k] = FuncRef(tu, s[k]) /\ s[k] \in Declared(tu)
  BY <1>2, TableWorks
<1>4. NFuncs(c) = Len(FimpOf(tu)) + Len(DefsOf(tu)) /\ NGlobs(c) = Len(gi) + Len(gl)
  BY <1>1, <1>2, IdsOf DEF NFuncs, NGlobs
<1>5. \A x \in Declared(tu) :
        /\ FuncIndex(tu, x) \in Nat /\ FuncIndex(tu, x) < NFuncs(c) /\ FuncAt(c, FuncIndex(tu, x)) = FuncSymbol(tu, x)
        /\ FuncRef(tu, x) \in Refs /\ FuncRef(tu, x).kind = "func"
        /\ FuncRef(tu, x).idx = FuncIndex(tu, x) /\ FuncRef(tu, x).sym = FuncSymbol(tu, x)
  BY <1>1, <1>4, FuncWorks, FuncRefIs DEF FuncAt
<1>6. InTable(c)
  <2>1. DOMAIN t = 1 .. Len(s)  BY <1>3
  <2>2. QED  BY <1>1, <1>2, <1>3, <1>5, <2>1 DEF InTable
<1>7. gi \in Seq(Symbols) /\ gl \in Seq(Symbols)  BY <1>2, GlobalSpaces
<1>8. ASSUME NEW r, Calling(tu, r) PROVE r \in Refs /\ InRange(c, r) /\ Denotes(c, r) = r.sym
  <2>1. PICK x \in Declared(tu) : r = FuncRef(tu, x)  BY <1>8 DEF Calling
  <2>2. r \in Refs /\ r.kind = "func" /\ r.idx < NFuncs(c) /\ FuncAt(c, r.idx) = r.sym  BY <2>1, <1>5
  <2>3. InRange(c, r)  BY <2>2 DEF InRange
  <2>4. Denotes(c, r) = FuncAt(c, r.idx)  BY <1>1, <2>2, <2>3, DenotesIs DEF FuncNum
  <2>5. QED  BY <2>2, <2>3, <2>4
<1>9. ASSUME NEW r, Pointing(tu, r) PROVE r \in Refs /\ InRange(c, r) /\ Denotes(c, r) = r.sym
  <2>1. PICK x \in Range(s) : r = Ref("slot", PositionOf(s, x), FuncSymbol(tu, x))
    BY <1>2, <1>9 DEF Pointing
  <2>2. s \in Seq(Text) /\ x \in Declared(tu)  BY <1>2, TakenWorks
  <2>3. PICK i : i = PositionOf(s, x)  OBVIOUS
  <2>4. i \in 0 .. Len(s) - 1 /\ s[i + 1] = x  BY <2>2, <2>3, PositionWorks
  <2>5. i \in Nat /\ i + 1 \in 1 .. Len(s) /\ i < Len(s)  BY <2>2, <2>4
  <2>6. FuncSymbol(tu, x) \in Symbols  BY <2>2, FuncWorks
  <2>7. r \in Refs /\ r.kind = "slot" /\ r.idx = i /\ r.sym = FuncSymbol(tu, x)
    BY <2>1, <2>3, <2>5, <2>6, RefIs
  <2>8. Len(c.table) = Len(s) /\ c.table[i + 1] = FuncRef(tu, x)  BY <1>1, <1>2, <1>3, <2>4, <2>5
  <2>9. InRange(c, r)  BY <2>5, <2>7, <2>8 DEF InRange
  <2>10. FuncNum(c, r) = FuncIndex(tu, x)  BY <2>2, <2>7, <2>8, <1>5 DEF FuncNum
  <2>11. Denotes(c, r) = FuncAt(c, FuncNum(c, r))  BY <1>1, <2>7, <2>9, DenotesIs
  <2>12. QED  BY <1>5, <2>2, <2>7, <2>9, <2>10, <2>11
<1>10. ASSUME NEW r \in Refs, r.kind = "glob", r.idx < Len(gi) + Len(gl), Numbered(gi, gl, r.idx) = r.sym
       PROVE  InRange(c, r) /\ Denotes(c, r) = r.sym
  <2>1. InRange(c, r)  BY <1>4, <1>10 DEF InRange
  <2>2. Denotes(c, r) = GlobAt(c, r.idx)  BY <1>1, <1>10, <2>1, DenotesIs
  <2>3. QED  BY <1>1, <1>2, <1>10, <2>1, <2>2 DEF GlobAt
<1>11. ASSUME NEW r, Loading(tu, r) PROVE r \in Refs /\ InRange(c, r) /\ Denotes(c, r) = r.sym
  <2>1. PICK k \in 1 .. Len(gi) : r = Ref("glob", k - 1, gi[k])  BY <1>2, <1>11 DEF Loading
  <2>2. PICK i \in Nat : i = k - 1  OBVIOUS
  <2>3. Len(gi) \in Nat /\ Len(gl) \in Nat /\ gi[k] \in Symbols  BY <1>7, Entries
  <2>4. i < Len(gi) /\ i < Len(gi) + Len(gl) /\ k = i + 1  BY <2>2, <2>3
  <2>5. r \in Refs /\ r.kind = "glob" /\ r.idx = i /\ r.sym = gi[k]  BY <2>1, <2>2, <2>3, RefIs
  <2>6. Numbered(gi, gl, i) = gi[i + 1]  BY <1>7, <2>4, NumberedAt
  <2>7. QED  BY <1>10, <2>4, <2>5, <2>6
<1>12. ASSUME NEW k \in 1 .. Len(Objects(tu)), NEW r, r = ObjRef(tu, k)
       PROVE  r \in Refs /\ InRange(c, r) /\ Denotes(c, r) = r.sym
  <2>1. Len(gl) = Len(Objects(tu)) /\ gl[k] = Symbol(tu.name, Objects(tu)[k])  BY <1>2, GlobalSpaces
  <2>2. PICK i : i = Len(gi) + k - 1  OBVIOUS
  <2>3. Len(gi) \in Nat /\ Len(gl) \in Nat /\ k \in 1 .. Len(gl)  BY <1>7, <2>1, Entries
  <2>4. i \in Nat /\ i >= Len(gi) /\ i < Len(gi) + Len(gl) /\ i - Len(gi) + 1 = k  BY <2>2, <2>3
  <2>5. r \in Refs /\ r.kind = "glob" /\ r.idx = i /\ r.sym = gl[k]  BY <1>2, <1>12, <2>1, <2>2, ObjRefIs
  <2>6. Numbered(gi, gl, i) = gl[i - Len(gi) + 1]  BY <1>7, <2>4, NumberedAt
  <2>7. QED  BY <1>10, <2>4, <2>5, <2>6
<1>13. ASSUME NEW r \in AllRefs(c) PROVE InRange(c, r) /\ Denotes(c, r) = r.sym
  <2>1. \/ \E k \in 1 .. Len(c.funcs) : r \in c.funcs[k].refs
        \/ \E k \in 1 .. Len(c.table) : r = c.table[k]
        \/ \E k \in 1 .. Len(c.exps) : r = c.exps[k].ref
    BY <1>1, AllRefsAre
  <2>2. CASE \E k \in 1 .. Len(c.funcs) : r \in c.funcs[k].refs
    <3>1. PICK k \in 1 .. Len(BodiesOf(tu)) : r \in BodiesOf(tu)[k].refs  BY <1>1, <2>2
    <3>2. Calling(tu, r) \/ Pointing(tu, r) \/ Loading(tu, r)  BY <3>1, BodiesWork
    <3>3. QED  BY <3>2, <1>8, <1>9, <1>11
  <2>3. CASE \E k \in 1 .. Len(c.table) : r = c.table[k]
    <3>1. PICK k \in 1 .. Len(t) : r = t[k]  BY <1>1, <1>2, <2>3
    <3>2. r = FuncRef(tu, s[k]) /\ s[k] \in Declared(tu)  BY <1>3, <3>1
    <3>3. Calling(tu, r)  BY <3>2 DEF Calling
    <3>4. QED  BY <3>3, <1>8
  <2>4. CASE \E k \in 1 .. Len(c.exps) : r = c.exps[k].ref
    <3>1. PICK k \in 1 .. Len(Exports(tu)) : r = Exports(tu)[k].ref  BY <1>1, <2>4
    <3>2. CASE \E x \in Offered(tu, "func") : Exports(tu)[k] = FuncExp(tu, x)
      <4>1. PICK x \in Offered(tu, "func") : Exports(tu)[k] = FuncExp(tu, x)  BY <3>2
      <4>2. x \in Declared(tu) /\ r = FuncRef(tu, x)  BY <3>1, <4>1, ExternalWorks DEF Declared, FuncExp
      <4>3. Calling(tu, r)  BY <4>2 DEF Calling
      <4>4. QED  BY <4>3, <1>8
    <3>3. CASE \E j \in 1 .. Len(Objects(tu)) : Exports(tu)[k] = ObjExp(tu, j)
      <4>1. PICK j \in 1 .. Len(Objects(tu)) : Exports(tu)[k] = ObjExp(tu, j)  BY <3>3
      <4>2. r = ObjRef(tu, j)  BY <3>1, <4>1 DEF ObjExp
      <4>3. QED  BY <4>2, <1>12
    <3>4. QED  BY <3>2, <3>3, ExportsWork
  <2>5. QED  BY <2>1, <2>2, <2>3, <2>4
<1>14. QED  BY <1>1, <1>6, <1>13 DEF Whole, Named

\* The exports of a sequence: a name, what sort of thing, what it stands for.
Exporting(s, x, kind, sym) ==
  \E k \in 1 .. Len(s) : s[k].name = x /\ s[k].ref.kind = kind /\ s[k].ref.sym = sym
Offering(tu, x, kind, sym) ==
  kind \in {"func", "glob"} /\ x \in Offered(tu, kind) /\ sym = Symbol(tu.name, x)
ExpNames(s) == {s[k].name : k \in 1 .. Len(s)}
Distinct(s) == \A j, k \in 1 .. Len(s) : s[j].name = s[k].name => j = k

\* Exports that offer the same have the same name, kind and meaning.
LEMMA OfferIs ==
  ASSUME NEW a, NEW b, Offer(a) = Offer(b)
  PROVE  a.name = b.name /\ a.ref.kind = b.ref.kind /\ a.ref.sym = b.ref.sym
<1>1. PICK p, q, r, x, y, z : /\ p = a.name /\ q = a.ref.kind /\ r = a.ref.sym
                              /\ x = b.name /\ y = b.ref.kind /\ z = b.ref.sym
  OBVIOUS
<1>2. <<p, q, r>> = <<x, y, z>>  BY <1>1 DEF Offer
<1>3. p = x /\ q = y /\ r = z  BY <1>2
<1>4. QED  BY <1>1, <1>3

\* Sequences of exports that offer the same export the same names.
LEMMA SameExports ==
  ASSUME NEW s \in Seq(Exps), NEW t \in Seq(Exps), SameOffers(s, t)
  PROVE  /\ \A x, kind, sym : Exporting(s, x, kind, sym) <=> Exporting(t, x, kind, sym)
         /\ ExpNames(s) = ExpNames(t) /\ (Distinct(s) <=> Distinct(t))
<1>1. Len(s) = Len(t) /\ Len(s) \in Nat  BY DEF SameOffers
<1>2. \A k \in 1 .. Len(s) : s[k].name = t[k].name /\ s[k].ref.kind = t[k].ref.kind /\ s[k].ref.sym = t[k].ref.sym
  <2>1. ASSUME NEW k \in 1 .. Len(s)
        PROVE s[k].name = t[k].name /\ s[k].ref.kind = t[k].ref.kind /\ s[k].ref.sym = t[k].ref.sym
    <3>1. PICK a, b : a = s[k] /\ b = t[k]  OBVIOUS
    <3>2. Offer(a) = Offer(b)  BY <3>1 DEF SameOffers
    <3>3. QED  BY <3>1, <3>2, OfferIs
  <2>2. QED  BY <2>1
<1>3. \A x, kind, sym : Exporting(s, x, kind, sym) <=> Exporting(t, x, kind, sym)
  BY <1>1, <1>2 DEF Exporting
<1>4. ExpNames(s) = ExpNames(t)  BY <1>1, <1>2 DEF ExpNames
<1>5. Distinct(s) <=> Distinct(t)  BY <1>1, <1>2 DEF Distinct
<1>6. QED  BY <1>3, <1>4, <1>5

\* What a concatenation of exports offers.
LEMMA ConcatExports ==
  ASSUME NEW s \in Seq(Exps), NEW t \in Seq(Exps), NEW e, e = s \o t
  PROVE  /\ \A x, kind, sym : Exporting(e, x, kind, sym) <=> Exporting(s, x, kind, sym) \/ Exporting(t, x, kind, sym)
         /\ ExpNames(e) = ExpNames(s) \cup ExpNames(t)
         /\ Distinct(s) /\ Distinct(t) /\ ExpNames(s) \cap ExpNames(t) = {} => Distinct(e)
<1>1. /\ e \in Seq(Exps) /\ Len(e) = Len(s) + Len(t) /\ Len(s) \in Nat /\ Len(t) \in Nat
      /\ \A k \in 1 .. Len(s) : k \in 1 .. Len(e) /\ e[k] = s[k]
      /\ \A k \in 1 .. Len(t) : Len(s) + k \in 1 .. Len(e) /\ e[Len(s) + k] = t[k]
      /\ \A k \in 1 .. Len(e) : \/ k \in 1 .. Len(s) /\ e[k] = s[k]
                               \/ \E j \in 1 .. Len(t) : k = Len(s) + j /\ e[k] = t[j]
  <2>1. Concats(s \o t, Exps, s, t)  BY ConcatIs
  <2>2. Concats(e, Exps, s, t)  BY <2>1
  <2>3. QED  BY <2>2 DEF Concats
<1>2. ASSUME NEW x, NEW kind, NEW sym
      PROVE  Exporting(e, x, kind, sym) <=> Exporting(s, x, kind, sym) \/ Exporting(t, x, kind, sym)
  <2>1. ASSUME Exporting(e, x, kind, sym) PROVE Exporting(s, x, kind, sym) \/ Exporting(t, x, kind, sym)
    <3>1. PICK k \in 1 .. Len(e) : e[k].name = x /\ e[k].ref.kind = kind /\ e[k].ref.sym = sym
      BY <2>1 DEF Exporting
    <3>2. CASE k \in 1 .. Len(s) /\ e[k] = s[k]  BY <3>1, <3>2 DEF Exporting
    <3>3. CASE \E j \in 1 .. Len(t) : k = Len(s) + j /\ e[k] = t[j]
      <4>1. PICK j \in 1 .. Len(t) : e[k] = t[j]  BY <3>3
      <4>2. QED  BY <3>1, <4>1 DEF Exporting
    <3>4. QED  BY <1>1, <3>2, <3>3
  <2>2. ASSUME Exporting(s, x, kind, sym) PROVE Exporting(e, x, kind, sym)
    <3>1. PICK k \in 1 .. Len(s) : s[k].name = x /\ s[k].ref.kind = kind /\ s[k].ref.sym = sym
      BY <2>2 DEF Exporting
    <3>2. QED  BY <1>1, <3>1 DEF Exporting
  <2>3. ASSUME Exporting(t, x, kind, sym) PROVE Exporting(e, x, kind, sym)
    <3>1. PICK k \in 1 .. Len(t) : t[k].name = x /\ t[k].ref.kind = kind /\ t[k].ref.sym = sym
      BY <2>3 DEF Exporting
    <3>2. QED  BY <1>1, <3>1 DEF Exporting
  <2>4. QED  BY <2>1, <2>2, <2>3
<1>3. ExpNames(e) = ExpNames(s) \cup ExpNames(t)
  <2>1. ASSUME NEW x \in ExpNames(e) PROVE x \in ExpNames(s) \cup ExpNames(t)
    <3>1. PICK k \in 1 .. Len(e) : e[k].name = x  BY <2>1 DEF ExpNames
    <3>2. CASE k \in 1 .. Len(s) /\ e[k] = s[k]  BY <3>1, <3>2 DEF ExpNames
    <3>3. CASE \E j \in 1 .. Len(t) : k = Len(s) + j /\ e[k] = t[j]
      <4>1. PICK j \in 1 .. Len(t) : e[k] = t[j]  BY <3>3
      <4>2. QED  BY <3>1, <4>1 DEF ExpNames
    <3>4. QED  BY <1>1, <3>2, <3>3
  <2>2. ASSUME NEW x \in ExpNames(s) PROVE x \in ExpNames(e)
    <3>1. PICK k \in 1 .. Len(s) : s[k].name = x  BY <2>2 DEF ExpNames
    <3>2. QED  BY <1>1, <3>1 DEF ExpNames
  <2>3. ASSUME NEW x \in ExpNames(t) PROVE x \in ExpNames(e)
    <3>1. PICK k \in 1 .. Len(t) : t[k].name = x  BY <2>3 DEF ExpNames
    <3>2. QED  BY <1>1, <3>1 DEF ExpNames
  <2>4. QED  BY <2>1, <2>2, <2>3
<1>4. ASSUME Distinct(s), Distinct(t), ExpNames(s) \cap ExpNames(t) = {} PROVE Distinct(e)
  <2>0. SUFFICES ASSUME NEW j \in 1 .. Len(e), NEW k \in 1 .. Len(e), e[j].name = e[k].name
                 PROVE  j = k
    BY DEF Distinct
  <2>1. \A i \in 1 .. Len(s) : s[i].name \in ExpNames(s)  BY DEF ExpNames
  <2>2. \A i \in 1 .. Len(t) : t[i].name \in ExpNames(t)  BY DEF ExpNames
  <2>3. CASE j \in 1 .. Len(s) /\ e[j] = s[j] /\ k \in 1 .. Len(s) /\ e[k] = s[k]
    BY <2>0, <2>3, <1>4 DEF Distinct
  <2>4. CASE j \in 1 .. Len(s) /\ e[j] = s[j] /\ \E i \in 1 .. Len(t) : k = Len(s) + i /\ e[k] = t[i]
    BY <2>0, <2>1, <2>2, <2>4, <1>4
  <2>5. CASE k \in 1 .. Len(s) /\ e[k] = s[k] /\ \E i \in 1 .. Len(t) : j = Len(s) + i /\ e[j] = t[i]
    BY <2>0, <2>1, <2>2, <2>5, <1>4
  <2>6. CASE /\ \E i \in 1 .. Len(t) : j = Len(s) + i /\ e[j] = t[i]
             /\ \E i \in 1 .. Len(t) : k = Len(s) + i /\ e[k] = t[i]
    <3>1. PICK i \in 1 .. Len(t) : j = Len(s) + i /\ e[j] = t[i]  BY <2>6
    <3>2. PICK h \in 1 .. Len(t) : k = Len(s) + h /\ e[k] = t[h]  BY <2>6
    <3>3. i = h  BY <2>0, <3>1, <3>2, <1>4 DEF Distinct
    <3>4. QED  BY <3>1, <3>2, <3>3
  <2>7. QED  BY <1>1, <2>3, <2>4, <2>5, <2>6
<1>5. QED  BY <1>2, <1>3, <1>4

\* What the exports of a compiled unit offer.
LEMMA UnitExports ==
  ASSUME NEW tu \in TranslationUnit, NEW e, e = Exports(tu)
  PROVE  /\ \A x, kind, sym : Exporting(e, x, kind, sym) <=> Offering(tu, x, kind, sym)
         /\ e \in Seq(Exps)
<1>1. Offers(tu, e) /\ e \in Seq(Exps)  BY ExportsOffer, ExportsWork
<1>2. ASSUME NEW x, NEW kind, NEW sym, Exporting(e, x, kind, sym) PROVE Offering(tu, x, kind, sym)
  <2>1. PICK k \in 1 .. Len(e) : e[k].name = x /\ e[k].ref.kind = kind /\ e[k].ref.sym = sym
    BY <1>2 DEF Exporting
  <2>2. /\ e[k].ref.kind \in {"func", "glob"} /\ e[k].name \in Offered(tu, e[k].ref.kind)
        /\ e[k].ref.sym = Symbol(tu.name, e[k].name)
    BY <1>1 DEF Offers
  <2>3. QED  BY <2>1, <2>2 DEF Offering
<1>3. ASSUME NEW x, NEW kind, NEW sym, Offering(tu, x, kind, sym) PROVE Exporting(e, x, kind, sym)
  <2>1. kind \in {"func", "glob"} /\ x \in Offered(tu, kind) /\ sym = Symbol(tu.name, x)
    BY <1>3 DEF Offering
  <2>2. PICK k \in 1 .. Len(e) : e[k].name = x /\ e[k].ref.kind = kind  BY <1>1, <2>1 DEF Offers
  <2>3. e[k].ref.sym = Symbol(tu.name, e[k].name)  BY <1>1 DEF Offers
  <2>4. QED  BY <2>1, <2>2, <2>3 DEF Exporting
<1>4. QED  BY <1>1, <1>2, <1>3

\* The check for duplicates finds them all.
LEMMA NoDuplicates ==
  ASSUME NEW c \in Modules, ~DuplicateExport(EmptyModule, c)
  PROVE  Distinct(c.exps)
<1>1. PICK e \in Seq(Exps) : e = c.exps  BY ModuleFields
<1>2. PICK z : z = << >>  OBVIOUS
<1>3. EmptyModule.exps = << >>  BY DEF EmptyModule
<1>4. << >> \o e = e  OBVIOUS
<1>5. ~\E j, k \in DOMAIN e : j < k /\ e[j].name = e[k].name  BY <1>1, <1>3, <1>4 DEF DuplicateExport
<1>6. DOMAIN e = 1 .. Len(e) /\ Len(e) \in Nat  BY Entries
<1>7. QED  BY <1>1, <1>5, <1>6 DEF Distinct

\* What the units of a set define and import.
FunctionsOf(U) == UNION {{Symbol(u.name, f) : f \in Defined(u)} : u \in U}
ObjectsOf(U)   == UNION {{Symbol(u.name, x) : x \in Range(Objects(u))} : u \in U}
FuncWants(U)   == UNION {Range(FimpOf(u)) : u \in U}
GlobWants(U)   == UNION {{Symbol(Env, x) : x \in Range(Externs(u))} : u \in U}

\* The runtime's globals are the first imports; a module without any has no globals.
StateFirst(m) ==
  \/ Len(m.gimp) = 0 /\ Len(m.globs) = 0
  \/ /\ Len(m.gimp) >= 2
     /\ m.gimp[1] = Symbol(Env, StackPointer) /\ m.gimp[2] = Symbol(Env, HeapBase)
OnceEach(s) == \A i, j \in 1 .. Len(s) : s[i] = s[j] => i = j

\* The output holds the units of U, joined.
ExportsFrom(m, U) ==
  \A x, kind, sym : Exporting(m.exps, x, kind, sym) <=> \E u \in U : Offering(u, x, kind, sym)
SpacesFrom(m, U) ==
  /\ Range(m.fimp) = FuncWants(U) /\ Range(Ids(m)) = FunctionsOf(U)
  /\ Range(m.gimp) \subseteq StateImports \cup GlobWants(U) /\ Range(m.globs) = ObjectsOf(U)
  /\ OnceEach(m.gimp) /\ StateFirst(m)
MergedFrom(m, U) ==
  /\ Whole(m) /\ Named(m) /\ m.start = {}
  /\ ExportsFrom(m, U) /\ Distinct(m.exps) /\ SpacesFrom(m, U)

\* What a compiled unit defines and imports.
LEMMA UnitSpaces ==
  ASSUME NEW tu \in TranslationUnit
  PROVE  /\ Range(DefsOf(tu)) = {Symbol(tu.name, f) : f \in Defined(tu)}
         /\ Range(GlobsOf(tu)) = {Symbol(tu.name, x) : x \in Range(Objects(tu))}
         /\ Range(Gimp(tu)) = StateImports \cup {Symbol(Env, x) : x \in Range(Externs(tu))}
         /\ OnceEach(Gimp(tu))
<1>1. PICK f, d, o, g : f = Decls(tu, "func") /\ d = DefsOf(tu) /\ o = Objects(tu) /\ g = GlobsOf(tu)  OBVIOUS
<1>2. /\ d \in Seq(Symbols) /\ Len(d) = Len(f) /\ \A k \in 1 .. Len(f) : d[k] = Symbol(tu.name, f[k].name)
  BY <1>1, FunctionSpaces
<1>3. \A x : x \in Defined(tu) <=> \E k \in 1 .. Len(f) : f[k].name = x  BY <1>1, DeclNames
<1>4. \A x : x \in Range(d) <=> \E k \in 1 .. Len(d) : d[k] = x  BY <1>2, RangeOf
<1>5. Range(d) = {Symbol(tu.name, x) : x \in Defined(tu)}
  <2>1. ASSUME NEW s \in Range(d) PROVE s \in {Symbol(tu.name, x) : x \in Defined(tu)}
    <3>1. PICK k \in 1 .. Len(d) : d[k] = s  BY <1>4
    <3>2. f[k].name \in Defined(tu) /\ s = Symbol(tu.name, f[k].name)  BY <1>2, <1>3, <3>1
    <3>3. QED  BY <3>2
  <2>2. ASSUME NEW x \in Defined(tu) PROVE Symbol(tu.name, x) \in Range(d)
    <3>1. PICK k \in 1 .. Len(f) : f[k].name = x  BY <1>3
    <3>2. d[k] = Symbol(tu.name, x) /\ k \in 1 .. Len(d)  BY <1>2, <3>1
    <3>3. QED  BY <1>4, <3>2
  <2>3. QED  BY <2>1, <2>2
<1>6. /\ g \in Seq(Symbols) /\ Len(g) = Len(o) /\ \A k \in 1 .. Len(o) : g[k] = Symbol(tu.name, o[k])
  BY <1>1, GlobalSpaces
<1>7. o \in Seq(Text)  BY <1>1, ObjectsAre
<1>8. \A x : x \in Range(o) <=> \E k \in 1 .. Len(o) : o[k] = x  BY <1>7, RangeOf
<1>9. \A x : x \in Range(g) <=> \E k \in 1 .. Len(g) : g[k] = x  BY <1>6, RangeOf
<1>10. Range(g) = {Symbol(tu.name, x) : x \in Range(o)}
  <2>1. ASSUME NEW s \in Range(g) PROVE s \in {Symbol(tu.name, x) : x \in Range(o)}
    <3>1. PICK k \in 1 .. Len(g) : g[k] = s  BY <1>9
    <3>2. o[k] \in Range(o) /\ s = Symbol(tu.name, o[k])  BY <1>6, <1>8, <3>1
    <3>3. QED  BY <3>2
  <2>2. ASSUME NEW x \in Range(o) PROVE Symbol(tu.name, x) \in Range(g)
    <3>1. PICK k \in 1 .. Len(o) : o[k] = x  BY <1>8
    <3>2. g[k] = Symbol(tu.name, x) /\ k \in 1 .. Len(g)  BY <1>6, <3>1
    <3>3. QED  BY <1>9, <3>2
  <2>3. QED  BY <2>1, <2>2
<1>11. Range(Gimp(tu)) = StateImports \cup {Symbol(Env, x) : x \in Range(Externs(tu))} /\ OnceEach(Gimp(tu))
  BY GlobalSpaces DEF OnceEach
<1>12. QED  BY <1>1, <1>5, <1>10, <1>11

\* The range of a concatenation.
LEMMA ConcatRange ==
  ASSUME NEW S, NEW s \in Seq(S), NEW t \in Seq(S)
  PROVE  Range(s \o t) = Range(s) \cup Range(t)
<1>1. PICK e : e = s \o t  OBVIOUS
<1>2. /\ e \in Seq(S) /\ Len(e) = Len(s) + Len(t)
      /\ \A k \in 1 .. Len(s) : k \in 1 .. Len(e) /\ e[k] = s[k]
      /\ \A k \in 1 .. Len(t) : Len(s) + k \in 1 .. Len(e) /\ e[Len(s) + k] = t[k]
      /\ \A k \in 1 .. Len(e) : \/ k \in 1 .. Len(s) /\ e[k] = s[k]
                               \/ \E j \in 1 .. Len(t) : k = Len(s) + j /\ e[k] = t[j]
  <2>1. /\ s \o t \in Seq(S) /\ Len(s \o t) = Len(s) + Len(t) /\ Len(s) \in Nat /\ Len(t) \in Nat
        /\ \A k \in 1 .. Len(s) : k \in 1 .. Len(s) + Len(t) /\ (s \o t)[k] = s[k]
        /\ \A k \in 1 .. Len(t) : Len(s) + k \in 1 .. Len(s) + Len(t) /\ (s \o t)[Len(s) + k] = t[k]
        /\ \A k \in 1 .. Len(s) + Len(t) :
             \/ k \in 1 .. Len(s) /\ (s \o t)[k] = s[k]
             \/ \E j \in 1 .. Len(t) : k = Len(s) + j /\ (s \o t)[k] = t[j]
    BY ConcatAt
  <2>2. QED  BY <2>1, <1>1
<1>3. \A x : x \in Range(e) <=> \E k \in 1 .. Len(e) : e[k] = x  BY <1>2, RangeOf
<1>4. \A x : x \in Range(s) <=> \E k \in 1 .. Len(s) : s[k] = x  BY RangeOf
<1>5. \A x : x \in Range(t) <=> \E k \in 1 .. Len(t) : t[k] = x  BY RangeOf
<1>6. ASSUME NEW x \in Range(e) PROVE x \in Range(s) \cup Range(t)
  <2>1. PICK k \in 1 .. Len(e) : e[k] = x  BY <1>3
  <2>2. QED  BY <2>1, <1>2, <1>4, <1>5
<1>7. ASSUME NEW x \in Range(s) PROVE x \in Range(e)
  <2>1. PICK k \in 1 .. Len(s) : s[k] = x  BY <1>4
  <2>2. QED  BY <2>1, <1>2, <1>3
<1>8. ASSUME NEW x \in Range(t) PROVE x \in Range(e)
  <2>1. PICK k \in 1 .. Len(t) : t[k] = x  BY <1>5
  <2>2. QED  BY <2>1, <1>2, <1>3
<1>9. QED  BY <1>1, <1>6, <1>7, <1>8

\* One more unit: the index spaces.
LEMMA SpacesGrow ==
  ASSUME NEW U, NEW m \in Modules, SpacesFrom(m, U), NEW tu \in TranslationUnit, WellFormed(tu),
         NEW n \in Modules,
         n.fimp = Dedup(m.fimp, FimpOf(tu)), n.gimp = Dedup(m.gimp, Gimp(tu)),
         n.globs = m.globs \o GlobsOf(tu), Ids(n) = Ids(m) \o DefsOf(tu)
  PROVE  SpacesFrom(n, U \cup {tu})
<1>1. PICK fi, gi, gl, ids : fi = m.fimp /\ gi = m.gimp /\ gl = m.globs /\ ids = Ids(m)  OBVIOUS
<1>2. fi \in Seq(Symbols) /\ gi \in Seq(Symbols) /\ gl \in Seq(Symbols) /\ ids \in Seq(Symbols)
  BY <1>1, ModuleFields, IdsOf
<1>3. PICK tf, tg, tl, td : tf = FimpOf(tu) /\ tg = Gimp(tu) /\ tl = GlobsOf(tu) /\ td = DefsOf(tu)  OBVIOUS
<1>4. /\ tf \in Seq(Symbols) /\ tg \in Seq(Symbols) /\ tl \in Seq(Symbols) /\ td \in Seq(Symbols)
      /\ Len(tg) >= 2 /\ tg[1] = Symbol(Env, StackPointer) /\ tg[2] = Symbol(Env, HeapBase)
  BY <1>3, FunctionSpaces, GlobalSpaces
<1>5. /\ Range(td) = {Symbol(tu.name, f) : f \in Defined(tu)}
      /\ Range(tl) = {Symbol(tu.name, x) : x \in Range(Objects(tu))}
      /\ Range(tg) = StateImports \cup {Symbol(Env, x) : x \in Range(Externs(tu))}
      /\ OnceEach(tg)
  BY <1>3, UnitSpaces
<1>6. n.fimp = Dedup(fi, tf) /\ n.gimp = Dedup(gi, tg) /\ n.globs = gl \o tl /\ Ids(n) = ids \o td
  BY <1>1, <1>3
<1>7. Range(n.fimp) = FuncWants(U \cup {tu})
  <2>1. Range(Dedup(fi, tf)) = Range(fi) \cup Range(tf)  BY <1>2, <1>4, DedupWorks
  <2>2. Range(fi) = FuncWants(U)  BY <1>1 DEF SpacesFrom
  <2>3. QED  BY <2>1, <2>2, <1>3, <1>6 DEF FuncWants
<1>8. Range(Ids(n)) = FunctionsOf(U \cup {tu})
  <2>1. Range(ids \o td) = Range(ids) \cup Range(td)  BY <1>2, <1>4, ConcatRange
  <2>2. Range(ids) = FunctionsOf(U)  BY <1>1 DEF SpacesFrom
  <2>3. QED  BY <2>1, <2>2, <1>5, <1>6 DEF FunctionsOf
<1>9. Range(n.globs) = ObjectsOf(U \cup {tu})
  <2>1. Range(gl \o tl) = Range(gl) \cup Range(tl)  BY <1>2, <1>4, ConcatRange
  <2>2. Range(gl) = ObjectsOf(U)  BY <1>1 DEF SpacesFrom
  <2>3. QED  BY <2>1, <2>2, <1>5, <1>6 DEF ObjectsOf
<1>10. PICK d : d = Dedup(gi, tg)  OBVIOUS
<1>11. /\ d \in Seq(Symbols) /\ Range(d) = Range(gi) \cup Range(tg)
       /\ Len(d) >= Len(gi) /\ \A k \in 1 .. Len(gi) : d[k] = gi[k]
       /\ OnceEach(gi) => OnceEach(d)
  <2>1. /\ Dedup(gi, tg) \in Seq(Symbols) /\ Range(Dedup(gi, tg)) = Range(gi) \cup Range(tg)
        /\ Len(Dedup(gi, tg)) >= Len(gi) /\ \A k \in 1 .. Len(gi) : Dedup(gi, tg)[k] = gi[k]
        /\ (\A i, j \in 1 .. Len(gi) : gi[i] = gi[j] => i = j)
             => \A i, j \in 1 .. Len(Dedup(gi, tg)) : Dedup(gi, tg)[i] = Dedup(gi, tg)[j] => i = j
    BY <1>2, <1>4, DedupWorks, ZenonT(30)
  <2>2. QED  BY <2>1, <1>10 DEF OnceEach
<1>12. Range(n.gimp) \subseteq StateImports \cup GlobWants(U \cup {tu}) /\ OnceEach(n.gimp)
  <2>1. Range(gi) \subseteq StateImports \cup GlobWants(U) /\ OnceEach(gi)  BY <1>1 DEF SpacesFrom
  <2>2. GlobWants(U \cup {tu}) = GlobWants(U) \cup {Symbol(Env, x) : x \in Range(Externs(tu))}
    BY DEF GlobWants
  <2>3. QED  BY <2>1, <2>2, <1>5, <1>6, <1>10, <1>11
<1>13. StateFirst(n)
  <2>1. CASE Len(gi) >= 2 /\ gi[1] = Symbol(Env, StackPointer) /\ gi[2] = Symbol(Env, HeapBase)
    <3>1. 1 \in 1 .. Len(gi) /\ 2 \in 1 .. Len(gi) /\ Len(gi) \in Nat /\ Len(d) \in Nat  BY <2>1, <1>2, <1>11
    <3>2. Len(d) >= 2 /\ d[1] = gi[1] /\ d[2] = gi[2]  BY <3>1, <2>1, <1>11
    <3>3. QED  BY <3>2, <2>1, <1>6, <1>10 DEF StateFirst
  <2>2. CASE Len(gi) = 0
    <3>1. gi = << >>  BY <2>2, <1>2
    <3>2. Range(gi) = {}
      <4>1. \A x : x \in Range(gi) <=> \E k \in 1 .. Len(gi) : gi[k] = x  BY <1>2, RangeOf
      <4>2. QED  BY <4>1, <2>2
    <3>3. PICK K : K = {k \in DOMAIN tg : tg[k] \notin {} /\ \A j \in 1 .. k - 1 : tg[j] # tg[k]}  OBVIOUS
    <3>4. DOMAIN tg = 1 .. Len(tg) /\ Len(tg) \in Nat  BY <1>4, Entries
    <3>5. K = 1 .. Len(tg)
      <4>1. ASSUME NEW k \in 1 .. Len(tg), NEW j \in 1 .. k - 1 PROVE tg[j] # tg[k]
        <5>1. j \in 1 .. Len(tg) /\ j # k  BY <3>4
        <5>2. QED  BY <5>1, <1>5 DEF OnceEach
      <4>2. QED  BY <3>3, <3>4, <4>1
    <3>6. d = gi \o Kept(tg, K)  BY <3>2, <3>3, <1>10 DEF Dedup, Firsts
    <3>7. PICK q : q = Kept(tg, K)  OBVIOUS
    <3>8. /\ q \in Seq(Symbols) /\ Len(q) = Cardinality(K)
          /\ \A k \in K : Nth(K, k) \in 1 .. Len(q) /\ q[Nth(K, k)] = tg[k]
      BY <1>4, <3>4, <3>5, <3>7, KeptWorks
    <3>9. d = q  BY <3>1, <3>6, <3>7, <3>8
    <3>10. Nth(K, 1) = 1 /\ Nth(K, 2) = 2
      <4>1. {j \in K : j <= 1} = {1} /\ {j \in K : j <= 2} = {1, 2}  BY <1>4, <3>4, <3>5
      <4>2. Cardinality({1}) = 1  BY FS_Singleton
      <4>3. PICK A, B : A = {1} /\ B = {1, 2}  OBVIOUS
      <4>4. Cardinality(B) = Cardinality(A) + 1
        <5>1. IsFiniteSet(A)  BY <4>3, FS_Singleton
        <5>2. B = A \cup {2} /\ 2 \notin A  BY <4>3
        <5>3. QED  BY <5>1, <5>2, FS_AddElement
      <4>5. Cardinality(A) = 1 /\ Cardinality(B) = 2  BY <4>2, <4>3, <4>4
      <4>6. QED  BY <4>1, <4>3, <4>5 DEF Nth
    <3>11. 1 \in K /\ 2 \in K  BY <1>4, <3>4, <3>5
    <3>12. d[1] = tg[1] /\ d[2] = tg[2] /\ 2 \in 1 .. Len(d)  BY <3>8, <3>9, <3>10, <3>11
    <3>13. Len(d) >= 2  BY <3>12, <1>11
    <3>14. QED  BY <3>12, <3>13, <1>4, <1>6, <1>10 DEF StateFirst
  <2>3. StateFirst(m)  BY DEF SpacesFrom
  <2>4. QED  BY <2>1, <2>2, <2>3, <1>1 DEF StateFirst
<1>14. QED  BY <1>7, <1>8, <1>9, <1>12, <1>13 DEF SpacesFrom

\* The empty module is the merge of no unit.
LEMMA EmptyWorks == MergedFrom(EmptyModule, {}) /\ ExpNames(EmptyModule.exps) = {} /\ Imports(EmptyModule) = {}
<1>1. PICK m : m = EmptyModule  OBVIOUS
<1>2. /\ m.fimp = << >> /\ m.gimp = << >> /\ m.funcs = << >> /\ m.globs = << >> /\ m.exps = << >>
      /\ m.table = << >> /\ m.start = {}
      /\ m = [fimp |-> << >>, gimp |-> << >>, funcs |-> << >>, globs |-> << >>, exps |-> << >>,
              table |-> << >>, start |-> {}]
  BY <1>1 DEF EmptyModule
<1>3. m \in Modules  BY <1>2 DEF Modules
<1>4. AllRefs(m) = {}
  <2>1. \A r : ~(r \in AllRefs(m))
    <3>1. \A r : r \in AllRefs(m) <=> \/ \E k \in 1 .. Len(m.funcs) : r \in m.funcs[k].refs
                                      \/ \E k \in 1 .. Len(m.table) : r = m.table[k]
                                      \/ \E k \in 1 .. Len(m.exps) : r = m.exps[k].ref
      BY <1>3, AllRefsAre
    <3>2. Len(m.funcs) = 0 /\ Len(m.table) = 0 /\ Len(m.exps) = 0  BY <1>2
    <3>3. 1 .. 0 = {}  OBVIOUS
    <3>4. QED  BY <3>1, <3>2, <3>3
  <2>2. QED  BY <2>1
<1>5. Whole(m) /\ Named(m)
  <2>1. InTable(m)  BY <1>2 DEF InTable
  <2>2. QED  BY <1>2, <1>3, <1>4, <2>1 DEF Whole, Named
<1>6. Len(m.exps) = 0 /\ 1 .. 0 = {}  BY <1>2
<1>7. ExportsFrom(m, {}) /\ Distinct(m.exps) /\ ExpNames(m.exps) = {}
  BY <1>6 DEF ExportsFrom, Exporting, Distinct, ExpNames
<1>8. Ids(m) = << >>  BY <1>2 DEF Ids
<1>9. \A x : x \notin Range(<< >>)  BY DEF Range
<1>10. SpacesFrom(m, {})
  <2>1. FuncWants({}) = {} /\ FunctionsOf({}) = {} /\ GlobWants({}) = {} /\ ObjectsOf({}) = {}
    BY DEF FuncWants, FunctionsOf, GlobWants, ObjectsOf
  <2>2. Range(m.fimp) = {} /\ Range(m.gimp) = {} /\ Range(Ids(m)) = {} /\ Range(m.globs) = {}
    BY <1>2, <1>8, <1>9
  <2>3. Len(m.gimp) = 0 /\ Len(m.globs) = 0  BY <1>2
  <2>4. OnceEach(m.gimp)  BY <2>3, <1>6 DEF OnceEach
  <2>5. QED  BY <2>1, <2>2, <2>3, <2>4 DEF SpacesFrom, StateFirst
<1>11. Imports(m) = {}  BY <1>2, <1>9 DEF Imports
<1>12. QED  BY <1>1, <1>2, <1>5, <1>7, <1>10, <1>11 DEF MergedFrom

\* One more unit is merged.
Merges(U, m, tu, c, n) ==
  /\ MergedFrom(m, U) /\ tu \in TranslationUnit /\ WellFormed(tu) /\ c = Compile(tu)
  /\ ~DuplicateExport(EmptyModule, c) /\ ExpNames(m.exps) \cap ExpNames(c.exps) = {}
  /\ n = MergeOne(m, c)

Together(s, a, b) == s = a \cup b

\* Merging one more unit into the merge of U gives the merge of U and the unit.
LEMMA MergedStep ==
  ASSUME NEW U, NEW m, NEW tu, NEW c, NEW n, Merges(U, m, tu, c, n)
  PROVE  /\ MergedFrom(n, U \cup {tu}) /\ Together(ExpNames(n.exps), ExpNames(m.exps), ExpNames(c.exps))
         /\ Together(Imports(n), Imports(m), Imports(c))
<1>1. /\ MergedFrom(m, U) /\ tu \in TranslationUnit /\ WellFormed(tu) /\ c = Compile(tu)
      /\ ~DuplicateExport(EmptyModule, c) /\ ExpNames(m.exps) \cap ExpNames(c.exps) = {}
      /\ n = MergeOne(m, c)
  BY DEF Merges
<1>2. Whole(m) /\ Named(m) /\ m.start = {} /\ ExportsFrom(m, U) /\ Distinct(m.exps) /\ SpacesFrom(m, U)
  BY <1>1 DEF MergedFrom
<1>3. Whole(c) /\ Named(c)  BY <1>1, CompileWorks
<1>4. /\ c \in Modules /\ c.fimp = FimpOf(tu) /\ c.gimp = Gimp(tu) /\ c.globs = GlobsOf(tu)
      /\ c.exps = Exports(tu) /\ Ids(c) = DefsOf(tu)
  BY <1>1, CompileFields
<1>5. /\ Whole(n) /\ Named(n) /\ n.start = {}
      /\ n.fimp = Dedup(m.fimp, c.fimp) /\ n.gimp = Dedup(m.gimp, c.gimp)
      /\ n.globs = m.globs \o c.globs /\ Ids(n) = Ids(m) \o Ids(c)
      /\ JoinOffers(n.exps, m.exps, c.exps)
  <2>1. Whole(m) /\ Named(m) /\ m.start = {} /\ Whole(c) /\ Named(c) /\ n = MergeOne(m, c)
    BY <1>1, <1>2, <1>3
  <2>2. Whole(n) /\ Named(n) /\ n.start = {}  BY <2>1, MergeWorks
  <2>3. n.fimp = Dedup(m.fimp, c.fimp) /\ n.gimp = Dedup(m.gimp, c.gimp)  BY <2>1, MergeWorks
  <2>4. n.globs = m.globs \o c.globs /\ Ids(n) = Ids(m) \o Ids(c)  BY <2>1, MergeWorks
  <2>5. JoinOffers(n.exps, m.exps, c.exps)
    BY <2>1, MergeWorks
  <2>6. QED  BY <2>2, <2>3, <2>4, <2>5
<1>6. m \in Modules /\ n \in Modules  BY <1>2, <1>5 DEF Whole
<1>7. SpacesFrom(n, U \cup {tu})
  <2>1. n.fimp = Dedup(m.fimp, FimpOf(tu)) /\ n.gimp = Dedup(m.gimp, Gimp(tu))
        /\ n.globs = m.globs \o GlobsOf(tu) /\ Ids(n) = Ids(m) \o DefsOf(tu)
    BY <1>4, <1>5
  <2>2. SpacesFrom(m, U) /\ tu \in TranslationUnit /\ WellFormed(tu)  BY <1>1, <1>2
  <2>3. QED  BY <1>6, <2>1, <2>2, SpacesGrow
<1>8. PICK s \in Seq(Exps), t \in Seq(Exps) : n.exps = s \o t /\ SameOffers(s, m.exps) /\ SameOffers(t, c.exps)
  BY <1>5 DEF JoinOffers
<1>9. PICK e, p, q : e = n.exps /\ p = m.exps /\ q = c.exps  OBVIOUS
<1>10. e = s \o t /\ p \in Seq(Exps) /\ q \in Seq(Exps) /\ SameOffers(s, p) /\ SameOffers(t, q)
  BY <1>4, <1>6, <1>8, <1>9, ModuleFields
<1>11. /\ \A x, kind, sym : Exporting(s, x, kind, sym) <=> Exporting(p, x, kind, sym)
       /\ ExpNames(s) = ExpNames(p) /\ (Distinct(s) <=> Distinct(p))
  BY <1>10, SameExports
<1>12. /\ \A x, kind, sym : Exporting(t, x, kind, sym) <=> Exporting(q, x, kind, sym)
       /\ ExpNames(t) = ExpNames(q) /\ (Distinct(t) <=> Distinct(q))
  BY <1>10, SameExports
<1>13. /\ \A x, kind, sym : Exporting(e, x, kind, sym) <=> Exporting(s, x, kind, sym) \/ Exporting(t, x, kind, sym)
       /\ ExpNames(e) = ExpNames(s) \cup ExpNames(t)
       /\ Distinct(s) /\ Distinct(t) /\ ExpNames(s) \cap ExpNames(t) = {} => Distinct(e)
  BY <1>10, ConcatExports, ZenonT(30)
<1>14. \A x, kind, sym : Exporting(q, x, kind, sym) <=> Offering(tu, x, kind, sym)
  BY <1>1, <1>4, <1>9, UnitExports
<1>15. Distinct(q)  BY <1>1, <1>4, <1>9, NoDuplicates
<1>16. Distinct(e) /\ ExpNames(e) = ExpNames(p) \cup ExpNames(q)
  BY <1>1, <1>2, <1>9, <1>11, <1>12, <1>13, <1>15
<1>17. ExportsFrom(n, U \cup {tu})
  <2>1. \A x, kind, sym : Exporting(p, x, kind, sym) <=> \E u \in U : Offering(u, x, kind, sym)
    BY <1>2, <1>9 DEF ExportsFrom
  <2>2. ASSUME NEW x, NEW kind, NEW sym
        PROVE  Exporting(e, x, kind, sym) <=> \E u \in U \cup {tu} : Offering(u, x, kind, sym)
    BY <2>1, <1>11, <1>12, <1>13, <1>14
  <2>3. QED  BY <2>2, <1>9 DEF ExportsFrom
<1>18. Imports(n) = Imports(m) \cup Imports(c)
  <2>1. m.fimp \in Seq(Symbols) /\ m.gimp \in Seq(Symbols) /\ c.fimp \in Seq(Symbols) /\ c.gimp \in Seq(Symbols)
    BY <1>4, <1>6, ModuleFields
  <2>2. Range(Dedup(m.fimp, c.fimp)) = Range(m.fimp) \cup Range(c.fimp)  BY <2>1, DedupWorks
  <2>3. Range(Dedup(m.gimp, c.gimp)) = Range(m.gimp) \cup Range(c.gimp)  BY <2>1, DedupWorks
  <2>4. QED  BY <1>5, <2>2, <2>3 DEF Imports
<1>19. QED  BY <1>5, <1>7, <1>9, <1>16, <1>17, <1>18 DEF MergedFrom, Together

Archives(inputs) == {k \in DOMAIN inputs : inputs[k].kind = "ar"}

\* Counting the positions kept, one further.
LEMMA NthNext ==
  ASSUME NEW n \in Nat, NEW K, K \subseteq 1 .. n, NEW k \in Nat, k >= 1
  PROVE  /\ Nth(K, 0) = 0 /\ Nth(K, k - 1) \in Nat
         /\ Nth(K, k) = IF k \in K THEN Nth(K, k - 1) + 1 ELSE Nth(K, k - 1)
<1>1. PICK A, B : A = {j \in K : j <= k} /\ B = {j \in K : j <= k - 1}  OBVIOUS
<1>a. \A j \in K : j \in Nat /\ j >= 1  OBVIOUS
<1>b. \A j \in K : ~(j <= 0) /\ ((j <= k) <=> (j <= k - 1 \/ j = k))
  <2>1. SUFFICES ASSUME NEW j \in K PROVE ~(j <= 0) /\ ((j <= k) <=> (j <= k - 1 \/ j = k))  OBVIOUS
  <2>2. j \in Nat /\ j >= 1  BY <1>a
  <2>3. QED  BY <2>2
<1>c. ~(k <= k - 1)  OBVIOUS
<1>2. IsFiniteSet(1 .. n)  BY FS_Interval
<1>3. B \subseteq 1 .. n  BY <1>1
<1>4. IsFiniteSet(B)  BY <1>2, <1>3, FS_Subset
<1>5. Cardinality(B) \in Nat  BY <1>4, FS_CardinalityType
<1>6. {j \in K : j <= 0} = {}  BY <1>b
<1>7. Nth(K, 0) = 0  BY <1>6, FS_EmptySet DEF Nth
<1>8. CASE k \in K
  <2>1. A = B \cup {k} /\ k \notin B  BY <1>b, <1>c, <1>1, <1>8
  <2>2. Cardinality(A) = Cardinality(B) + 1  BY <1>4, <2>1, FS_AddElement
  <2>3. QED  BY <1>1, <1>5, <1>7, <1>8, <2>2 DEF Nth
<1>9. CASE k \notin K
  <2>1. A = B  BY <1>b, <1>1, <1>9
  <2>2. QED  BY <1>1, <1>5, <1>7, <1>9, <2>1 DEF Nth
<1>10. QED  BY <1>8, <1>9

\* An input of a job and what the scan sees of it.
LEMMA InputIs ==
  ASSUME NEW x \in Input
  PROVE  /\ x.kind \in {"tu", "ar"}
         /\ x.kind = "tu" => /\ x.tu \in TranslationUnit /\ AbstractInput(x).kind = "tu"
                             /\ AbstractInput(x).unit = AbstractUnit(Compile(x.tu))
         /\ x.kind = "ar" => /\ x.members \in Seq(TranslationUnit) /\ AbstractInput(x).kind = "ar"
                             /\ DOMAIN AbstractInput(x).members = DOMAIN x.members
                             /\ \A k \in DOMAIN x.members :
                                  AbstractInput(x).members[k] = AbstractUnit(Compile(x.members[k]))
BY DEF Input, AbstractInput

\* What the scan sees of an object, and that it refuses duplicate exports.
LEMMA UnitIs ==
  ASSUME NEW c \in Modules
  PROVE  /\ AbstractUnit(c).exp = ExpNames(c.exps) /\ AbstractUnit(c).imp = Imports(c)
         /\ AbstractUnit(c).status # "unlinkable" => ~DuplicateExport(EmptyModule, c)
<1>1. DOMAIN c.exps = 1 .. Len(c.exps)  BY ModuleFields
<1>2. QED  BY <1>1 DEF AbstractUnit, ExpNames

\* The units of an input are sources of the job.
LEMMA SourcesAre ==
  ASSUME NEW inputs \in Seq(Input), NEW k \in DOMAIN inputs
  PROVE  /\ inputs[k] \in Input
         /\ inputs[k].kind = "tu" => inputs[k].tu \in SourceUnits(inputs)
         /\ inputs[k].kind = "ar" => \A i \in DOMAIN inputs[k].members : inputs[k].members[i] \in SourceUnits(inputs)
<1>1. inputs[k] \in Input  OBVIOUS
<1>2. inputs[k].kind = "tu" => inputs[k].tu \in SourceUnits(inputs)  BY DEF SourceUnits
<1>3. ASSUME inputs[k].kind = "ar", NEW i \in DOMAIN inputs[k].members
      PROVE  inputs[k].members[i] \in SourceUnits(inputs)
  <2>1. Range(inputs[k].members) \subseteq SourceUnits(inputs)  BY <1>3 DEF SourceUnits
  <2>2. inputs[k].members[i] \in Range(inputs[k].members)  BY <1>3 DEF Range
  <2>3. QED  BY <2>1, <2>2
<1>4. QED  BY <1>1, <1>2, <1>3

\* All the units of a job are well typed.
LEMMA UnitsTyped ==
  ASSUME NEW inputs \in Seq(Input), NEW u \in SourceUnits(inputs)
  PROVE  u \in TranslationUnit
<1>1. PICK k \in DOMAIN inputs :
        u \in IF inputs[k].kind = "tu" THEN {inputs[k].tu} ELSE Range(inputs[k].members)
  BY DEF SourceUnits
<1>2. PICK x \in Input : x = inputs[k]  OBVIOUS
<1>3. CASE x.kind = "tu"  BY <1>1, <1>2, <1>3, InputIs
<1>4. CASE x.kind = "ar"
  <2>1. x.members \in Seq(TranslationUnit)  BY <1>4, InputIs
  <2>2. u \in Range(x.members)  BY <1>1, <1>2, <1>4
  <2>3. QED  BY <2>1, <2>2, RangeOf
<1>5. QED  BY <1>2, <1>3, <1>4, InputIs

\* The opened archives, in the order of the inputs.
LEMMA OpenedAre ==
  ASSUME NEW inputs \in Seq(Input), NEW o, o = Kept(inputs, Archives(inputs))
  PROVE  /\ o \in Seq(Input)
         /\ \A k \in Archives(inputs) : Nth(Archives(inputs), k) \in 1 .. Len(o)
                                        /\ o[Nth(Archives(inputs), k)] = inputs[k]
         /\ \A n \in 1 .. Len(o) : \E k \in Archives(inputs) : o[n] = inputs[k]
<1>1. PICK A : A = Archives(inputs)  OBVIOUS
<1>2. A \subseteq DOMAIN inputs  BY <1>1 DEF Archives
<1>3. /\ Kept(inputs, A) \in Seq(Input)
      /\ \A k \in A : Nth(A, k) \in 1 .. Len(Kept(inputs, A)) /\ Kept(inputs, A)[Nth(A, k)] = inputs[k]
      /\ \A n \in 1 .. Len(Kept(inputs, A)) : \E k \in A : Kept(inputs, A)[n] = inputs[k] /\ Nth(A, k) = n
  BY <1>2, KeptWorks
<1>4. QED  BY <1>1, <1>3

\* The scan works on the job's own inputs.
Abstracted == {AbstractInput(x) : x \in Input}
ScanTyped ==
  /\ job \in Jobs /\ cmd = Command(job)
  /\ next \in Nat /\ next >= 1
  /\ archives \in Seq(Abstracted)
  /\ Len(archives) = Nth(Archives(job.inputs), next - 1)
  /\ \A a \in 1 .. Len(archives) :
       a \in 1 .. Len(OpenedInputs) /\ archives[a] = AbstractInput(OpenedInputs[a])
  /\ pc = "member" => arch \in DOMAIN archives
  /\ phase # "resolve" => pc = "done"
  /\ Units \subseteq SourceUnits(job.inputs)

\* What is assumed of a job.
LEMMA JobIs ==
  ASSUME job \in Jobs
  PROVE  /\ job.inputs \in Seq(Input) /\ Linkable(SourceUnits(job.inputs)) /\ Env \notin Host
         /\ "sys_proc" \in Host
BY JobsAssumption DEF Host

\* The scan's inputs are the job's.
LEMMA NextInput ==
  ASSUME ScanTyped
  PROVE  /\ DOMAIN cmd.inputs = DOMAIN job.inputs
         /\ \A k \in DOMAIN job.inputs : cmd.inputs[k] = AbstractInput(job.inputs[k])
BY DEF ScanTyped, Command

\* The archive member the scan looks at is the unit the merge compiles.
LEMMA CandidateIs ==
  ASSUME ScanTyped, pc = "member", memb \in DOMAIN Pull!Members
  PROVE  /\ MemberTU(<<arch, memb>>) \in SourceUnits(job.inputs)
         /\ Pull!Candidate = AbstractUnit(Compile(MemberTU(<<arch, memb>>)))
<1>1. job.inputs \in Seq(Input)  BY JobIs DEF ScanTyped
<1>2. PICK i, o, a, m : i = job.inputs /\ o = OpenedInputs /\ a = arch /\ m = memb  OBVIOUS
<1>3. o = Kept(i, Archives(i))  BY <1>2 DEF OpenedInputs, Archives
<1>4. i \in Seq(Input)  BY <1>1, <1>2
<1>5. o \in Seq(Input) /\ \A n \in 1 .. Len(o) : \E k \in Archives(i) : o[n] = i[k]  BY <1>3, <1>4, OpenedAre
<1>6. a \in 1 .. Len(o) /\ archives[a] = AbstractInput(o[a])
  <2>1. a \in DOMAIN archives /\ archives \in Seq(Abstracted)  BY <1>2 DEF ScanTyped
  <2>2. a \in 1 .. Len(archives)  BY <2>1
  <2>3. QED  BY <2>2, <1>2 DEF ScanTyped
<1>7. PICK k \in Archives(i) : o[a] = i[k]  BY <1>5, <1>6
<1>8. k \in DOMAIN i /\ i[k].kind = "ar"  BY DEF Archives
<1>9. PICK x \in Input : x = i[k] /\ x.kind = "ar"  BY <1>4, <1>8
<1>10. archives[a] = AbstractInput(x)  BY <1>6, <1>7, <1>9
<1>11. m \in DOMAIN AbstractInput(x).members  BY <1>2, <1>10 DEF Pull!Members
<1>12. m \in DOMAIN x.members /\ AbstractInput(x).members[m] = AbstractUnit(Compile(x.members[m]))
  BY <1>9, <1>11, InputIs
<1>13. Pull!Candidate = AbstractInput(x).members[m]  BY <1>2, <1>10 DEF Pull!Candidate, Pull!Members
<1>14. MemberTU(<<arch, memb>>) = x.members[m]  BY <1>2, <1>7, <1>9 DEF MemberTU
<1>15. x.members[m] \in SourceUnits(i)  BY <1>4, <1>8, <1>9, <1>12, SourcesAre
<1>16. QED  BY <1>2, <1>12, <1>13, <1>14, <1>15

\* The scan starts with no unit merged.
LEMMA ScanInit == Init => ScanTyped
<1>1. SUFFICES ASSUME Init PROVE ScanTyped  OBVIOUS
<1>2. job \in Jobs /\ cmd = Command(job) /\ next = 1 /\ archives = << >> /\ pulled = {} /\ pc = "merge"
      /\ phase = "resolve"
  <2>1. job \in Jobs /\ cmd = Command(job) /\ Pull!Start /\ phase = "resolve"  BY <1>1, Zenon DEF Init
  <2>2. next = 1 /\ archives = << >> /\ pulled = {} /\ pc = "merge"  BY <2>1, Zenon DEF Pull!Start
  <2>3. QED  BY <2>1, <2>2
<1>3. PICK i \in Seq(Input) : i = job.inputs  BY <1>2, JobIs
<1>4. Archives(i) \subseteq 1 .. Len(i) /\ Len(i) \in Nat  BY DEF Archives
<1>5. Nth(Archives(i), 0) = 0  BY <1>4, NthNext
<1>6. Units = {}  BY <1>2 DEF Units
<1>7. Len(archives) = Nth(Archives(job.inputs), next - 1)
  <2>1. next - 1 = 0 /\ Len(archives) = 0  BY <1>2
  <2>2. QED  BY <2>1, <1>3, <1>5
<1>8. archives \in Seq(Abstracted) /\ 1 .. Len(archives) = {}  BY <1>2
<1>9. QED  BY <1>2, <1>6, <1>7, <1>8 DEF ScanTyped

\* A step that merges nothing.
LEMMA ScanSame ==
  ASSUME ScanTyped, UNCHANGED <<job, cmd, next, archives, pulled>>,
         pc' = "member" => arch' \in DOMAIN archives,
         phase' # "resolve" => pc' = "done"
  PROVE  ScanTyped' /\ Units' = Units
<1>1. OpenedInputs' = OpenedInputs  BY DEF OpenedInputs
<1>2. Units' = Units  BY <1>1 DEF Units, MemberTU
<1>3. QED  BY <1>1, <1>2 DEF ScanTyped

\* phaseMerge moves to the next input.
LEMMA ScanNext ==
  ASSUME ScanTyped, UNCHANGED <<job, cmd, pulled, arch, pc, phase>>, pc = "merge",
         next \in DOMAIN job.inputs, next' = next + 1,
         archives' = IF job.inputs[next].kind = "tu" THEN archives
                       ELSE Append(archives, AbstractInput(job.inputs[next]))
  PROVE  /\ ScanTyped'
         /\ Units' = IF job.inputs[next].kind = "tu" THEN Units \cup {job.inputs[next].tu} ELSE Units
<1>1. PICK i, o, n, A : i = job.inputs /\ o = OpenedInputs /\ n = next /\ A = Archives(i)  OBVIOUS
<1>2. i \in Seq(Input)  BY <1>1, JobIs DEF ScanTyped
<1>3. o = Kept(i, Archives(i)) /\ OpenedInputs' = o  BY <1>1 DEF OpenedInputs, Archives
<1>4. /\ o \in Seq(Input)
      /\ \A k \in A : Nth(A, k) \in 1 .. Len(o) /\ o[Nth(A, k)] = i[k]
  BY <1>1, <1>2, <1>3, OpenedAre
<1>5. A \subseteq 1 .. Len(i) /\ Len(i) \in Nat /\ n \in Nat /\ n >= 1 /\ n \in DOMAIN i
  BY <1>1, <1>2 DEF Archives, ScanTyped
<1>6. Nth(A, n - 1) \in Nat /\ Nth(A, n) = IF n \in A THEN Nth(A, n - 1) + 1 ELSE Nth(A, n - 1)
  BY <1>5, NthNext
<1>7. PICK x \in Input : x = i[n]  BY <1>2, <1>5
<1>8. x.kind \in {"tu", "ar"} /\ (n \in A <=> x.kind = "ar")  BY <1>1, <1>5, <1>7, InputIs DEF Archives
<1>9. next' - 1 = n /\ next' \in Nat /\ next' >= 1  BY <1>1, <1>5
<1>10. PICK s : s = archives  OBVIOUS
<1>11. s \in Seq(Abstracted) /\ Len(s) = Nth(A, n - 1)
       /\ \A a \in 1 .. Len(s) : a \in 1 .. Len(o) /\ s[a] = AbstractInput(o[a])
  BY <1>1, <1>10 DEF ScanTyped
<1>12. /\ archives' \in Seq(Abstracted) /\ Len(archives') = Nth(A, n)
       /\ \A a \in 1 .. Len(archives') : a \in 1 .. Len(o) /\ archives'[a] = AbstractInput(o[a])
  <2>1. CASE x.kind = "tu"
    <3>1. archives' = s /\ n \notin A  BY <2>1, <1>1, <1>7, <1>8, <1>10
    <3>2. QED  BY <3>1, <1>6, <1>11
  <2>2. CASE x.kind = "ar"
    <3>1. archives' = Append(s, AbstractInput(x)) /\ n \in A  BY <2>2, <1>1, <1>7, <1>8, <1>10
    <3>2. AbstractInput(x) \in Abstracted  BY DEF Abstracted
    <3>3. PICK y \in Abstracted : y = AbstractInput(x)  BY <3>2
    <3>4. PICK t : t = Append(s, y)  OBVIOUS
    <3>5. /\ t \in Seq(Abstracted) /\ Len(t) = Len(s) + 1 /\ t[Len(s) + 1] = y
          /\ \A a \in 1 .. Len(s) : t[a] = s[a]
      BY <1>11, <3>4
    <3>6. Nth(A, n) = Len(s) + 1 /\ Nth(A, n) \in 1 .. Len(o) /\ o[Nth(A, n)] = x
      BY <1>4, <1>6, <1>7, <1>11, <3>1
    <3>7. Len(s) \in Nat  BY <1>11
    <3>8. ASSUME NEW a \in 1 .. Len(t) PROVE a \in 1 .. Len(o) /\ t[a] = AbstractInput(o[a])
      <4>1. CASE a \in 1 .. Len(s)  BY <4>1, <1>11, <3>5
      <4>2. CASE a = Len(s) + 1  BY <4>2, <3>3, <3>5, <3>6
      <4>3. QED  BY <3>5, <3>7, <4>1, <4>2
    <3>9. archives' = t  BY <3>1, <3>3, <3>4
    <3>10. QED  BY <3>5, <3>6, <3>8, <3>9
  <2>3. QED  BY <1>8, <2>1, <2>2
<1>13. Units' = IF x.kind = "tu" THEN Units \cup {x.tu} ELSE Units
  <2>1. PICK M : M = {MemberTU(p) : p \in pulled}  OBVIOUS
  <2>2. M = {MemberTU(p)' : p \in pulled'}  BY <2>1, <1>1, <1>3 DEF MemberTU
  <2>3. Units = {i[k].tu : k \in {j \in 1 .. n - 1 : i[j].kind = "tu"}} \cup M  BY <1>1, <2>1 DEF Units
  <2>4. Units' = {i[k].tu : k \in {j \in 1 .. n : i[j].kind = "tu"}} \cup M
    BY <1>1, <1>9, <2>2 DEF Units
  <2>5. 1 .. n = (1 .. n - 1) \cup {n}  BY <1>5
  <2>6. CASE x.kind = "tu"
    <3>1. {j \in 1 .. n : i[j].kind = "tu"} = {j \in 1 .. n - 1 : i[j].kind = "tu"} \cup {n}
      BY <2>5, <2>6, <1>7
    <3>2. QED  BY <2>3, <2>4, <2>6, <3>1, <1>7
  <2>7. CASE x.kind # "tu"
    <3>1. {j \in 1 .. n : i[j].kind = "tu"} = {j \in 1 .. n - 1 : i[j].kind = "tu"}
      BY <2>5, <2>7, <1>7
    <3>2. QED  BY <2>3, <2>4, <2>7, <3>1
  <2>8. QED  BY <2>6, <2>7
<1>14. Units' \subseteq SourceUnits(job.inputs)
  <2>1. x.kind = "tu" => x.tu \in SourceUnits(i)  BY <1>2, <1>5, <1>7, SourcesAre
  <2>2. QED  BY <2>1, <1>1, <1>13 DEF ScanTyped
<1>15. job' = job /\ cmd' = cmd /\ pc' = pc /\ phase' = phase  OBVIOUS
<1>16. ScanTyped'
  <2>1. job' \in Jobs /\ cmd' = Command(job') /\ pc' # "member" /\ (phase' # "resolve" => pc' = "done")
    BY <1>15 DEF ScanTyped
  <2>2. Len(archives') = Nth(Archives(job'.inputs), next' - 1)  BY <1>1, <1>9, <1>12, <1>15
  <2>3. Units' \subseteq SourceUnits(job'.inputs)  BY <1>14, <1>15
  <2>4. \A a \in 1 .. Len(archives') : a \in 1 .. Len(OpenedInputs') /\ archives'[a] = AbstractInput(OpenedInputs'[a])
    BY <1>3, <1>12
  <2>5. QED  BY <2>1, <2>2, <2>3, <2>4, <1>9, <1>12 DEF ScanTyped
<1>17. QED  BY <1>1, <1>7, <1>13, <1>16

\* What the merge phase has built so far.
MergeInv ==
  phase = "resolve" =>
    MergedFrom(out, Units) /\ exports = ExpNames(out.exps) /\ imports = Imports(out)

\* What a unit that can be merged brings.
LEMMA MergeUnit ==
  ASSUME ScanTyped, MergeInv, phase = "resolve",
         NEW tu \in SourceUnits(job.inputs), NEW c, c = Compile(tu),
         ~Pull!MergeFails(AbstractUnit(c)), NEW n, n = MergeOne(out, c)
  PROVE  /\ MergedFrom(n, Units \cup {tu})
         /\ ExpNames(n.exps) = exports \cup AbstractUnit(c).exp
         /\ Imports(n) = imports \cup AbstractUnit(c).imp
<1>1. job.inputs \in Seq(Input) /\ Linkable(SourceUnits(job.inputs))  BY JobIs DEF ScanTyped
<1>2. tu \in TranslationUnit /\ WellFormed(tu)
  <2>1. tu \in TranslationUnit  BY <1>1, UnitsTyped
  <2>2. WellFormed(tu)  BY <1>1 DEF Linkable
  <2>3. QED  BY <2>1, <2>2
<1>3. c \in Modules  BY <1>2, CompileFields
<1>4. PICK ab : ab = AbstractUnit(c)  OBVIOUS
<1>5. ab.exp = ExpNames(c.exps) /\ ab.imp = Imports(c) /\ (ab.status # "unlinkable" => ~DuplicateExport(EmptyModule, c))
  BY <1>3, <1>4, UnitIs
<1>6. ab.status # "unlinkable" /\ ab.exp \cap exports = {}  BY <1>4 DEF Pull!MergeFails
<1>7. MergedFrom(out, Units) /\ exports = ExpNames(out.exps) /\ imports = Imports(out)  BY DEF MergeInv
<1>8. PICK U, m : U = Units /\ m = out  OBVIOUS
<1>9. Merges(U, m, tu, c, n)  BY <1>2, <1>5, <1>6, <1>7, <1>8 DEF Merges
<1>10. /\ MergedFrom(n, U \cup {tu}) /\ ExpNames(n.exps) = ExpNames(m.exps) \cup ExpNames(c.exps)
       /\ Imports(n) = Imports(m) \cup Imports(c)
  <2>1. /\ MergedFrom(n, U \cup {tu}) /\ Together(ExpNames(n.exps), ExpNames(m.exps), ExpNames(c.exps))
        /\ Together(Imports(n), Imports(m), Imports(c))
    BY <1>9, MergedStep
  <2>2. QED  BY <2>1 DEF Together
<1>11. QED  BY <1>4, <1>5, <1>7, <1>8, <1>10

\* phaseMerge: merging a translation unit of the command line.
LEMMA MergeTUWorks ==
  ASSUME ScanTyped, MergeInv, MergeTU
  PROVE  ScanTyped' /\ MergeInv'
<1>1. /\ pc = "merge" /\ next \in DOMAIN cmd.inputs /\ cmd.inputs[next].kind = "tu"
      /\ ~Pull!MergeFails(cmd.inputs[next].unit)
      /\ exports' = exports \cup cmd.inputs[next].unit.exp
      /\ imports' = imports \cup cmd.inputs[next].unit.imp
      /\ next' = next + 1
      /\ UNCHANGED <<cmd, archives, pulled, arch, memb, pc, job, phase>>
      /\ out' = MergeOne(out, Compile(job.inputs[next].tu))
  BY DEF MergeTU, Pull!MergeTU, Pull!Merge
<1>2. PICK i, n : i = job.inputs /\ n = next  OBVIOUS
<1>3. i \in Seq(Input)  BY <1>2, JobIs DEF ScanTyped
<1>4. n \in DOMAIN i /\ cmd.inputs[n] = AbstractInput(i[n])  BY <1>1, <1>2, NextInput
<1>5. PICK x \in Input : x = i[n]  BY <1>3, <1>4
<1>6. x.kind = "tu" /\ AbstractInput(x).unit = AbstractUnit(Compile(x.tu))
  BY <1>1, <1>2, <1>4, <1>5, InputIs
<1>7. x.tu \in SourceUnits(i)  BY <1>3, <1>4, <1>5, <1>6, SourcesAre
<1>8. PICK tu \in SourceUnits(i) : tu = x.tu  BY <1>7
<1>9. PICK c : c = Compile(tu)  OBVIOUS
<1>10. phase = "resolve"  BY <1>1 DEF ScanTyped
<1>11. ~Pull!MergeFails(AbstractUnit(c)) /\ out' = MergeOne(out, c)
       /\ exports' = exports \cup AbstractUnit(c).exp /\ imports' = imports \cup AbstractUnit(c).imp
  BY <1>1, <1>2, <1>4, <1>5, <1>6, <1>8, <1>9
<1>12. PICK m : m = MergeOne(out, c)  OBVIOUS
<1>13. /\ MergedFrom(m, Units \cup {tu}) /\ ExpNames(m.exps) = exports \cup AbstractUnit(c).exp
       /\ Imports(m) = imports \cup AbstractUnit(c).imp
  BY <1>2, <1>8, <1>9, <1>10, <1>11, <1>12, MergeUnit
<1>14. ScanTyped' /\ Units' = Units \cup {tu}
  <2>1. /\ UNCHANGED <<job, cmd, pulled, arch, pc, phase>> /\ pc = "merge"
        /\ next \in DOMAIN job.inputs /\ next' = next + 1
        /\ job.inputs[next].kind = "tu"
        /\ archives' = archives
    BY <1>1, <1>2, <1>4, <1>5, <1>6
  <2>2. archives' = IF job.inputs[next].kind = "tu" THEN archives
                      ELSE Append(archives, AbstractInput(job.inputs[next]))
    BY <2>1
  <2>3. ScanTyped' /\ Units' = IF job.inputs[next].kind = "tu" THEN Units \cup {job.inputs[next].tu} ELSE Units
    BY <2>1, <2>2, ScanNext
  <2>4. QED  BY <2>1, <2>3, <1>2, <1>5, <1>8
<1>15. out' = m /\ exports' = ExpNames(m.exps) /\ imports' = Imports(m)  BY <1>11, <1>12, <1>13
<1>16. MergeInv'  BY <1>13, <1>14, <1>15 DEF MergeInv
<1>17. QED  BY <1>14, <1>16

\* lazyPullArchives: merging an archive member.
LEMMA PullMemberWorks ==
  ASSUME ScanTyped, MergeInv, PullMember
  PROVE  ScanTyped' /\ MergeInv'
<1>1. /\ pc = "member" /\ memb \in DOMAIN Pull!Members
      /\ ~Pull!MergeFails(Pull!Candidate)
      /\ exports' = exports \cup Pull!Candidate.exp
      /\ imports' = imports \cup Pull!Candidate.imp
      /\ pulled' = pulled \cup {<<arch, memb>>}
      /\ UNCHANGED <<cmd, next, archives, arch, pc, job, phase>>
      /\ out' = MergeOne(out, Compile(MemberTU(<<arch, memb>>)))
  BY DEF PullMember, Pull!PullMember, Pull!Merge, Pull!scan
<1>2. MemberTU(<<arch, memb>>) \in SourceUnits(job.inputs)
      /\ Pull!Candidate = AbstractUnit(Compile(MemberTU(<<arch, memb>>)))
  BY <1>1, CandidateIs
<1>3. PICK tu \in SourceUnits(job.inputs) : tu = MemberTU(<<arch, memb>>)  BY <1>2
<1>4. PICK c : c = Compile(tu)  OBVIOUS
<1>5. phase = "resolve"  BY <1>1 DEF ScanTyped
<1>6. ~Pull!MergeFails(AbstractUnit(c)) /\ out' = MergeOne(out, c)
       /\ exports' = exports \cup AbstractUnit(c).exp /\ imports' = imports \cup AbstractUnit(c).imp
  BY <1>1, <1>2, <1>3, <1>4
<1>7. PICK m : m = MergeOne(out, c)  OBVIOUS
<1>8. /\ MergedFrom(m, Units \cup {tu}) /\ ExpNames(m.exps) = exports \cup AbstractUnit(c).exp
      /\ Imports(m) = imports \cup AbstractUnit(c).imp
  BY <1>4, <1>5, <1>6, <1>7, MergeUnit
<1>9. Units' = Units \cup {tu}
  <2>1. OpenedInputs' = OpenedInputs  BY <1>1 DEF OpenedInputs
  <2>2. \A p : MemberTU(p)' = MemberTU(p)  BY <2>1 DEF MemberTU
  <2>3. {MemberTU(p)' : p \in pulled'} = {MemberTU(p) : p \in pulled} \cup {tu}  BY <1>1, <1>3, <2>2
  <2>4. QED  BY <1>1, <2>3 DEF Units
<1>10. ScanTyped'
  <2>1. OpenedInputs' = OpenedInputs  BY <1>1 DEF OpenedInputs
  <2>2. Units' \subseteq SourceUnits(job.inputs)  BY <1>3, <1>9 DEF ScanTyped
  <2>3. QED  BY <1>1, <2>1, <2>2 DEF ScanTyped
<1>11. out' = m /\ exports' = ExpNames(m.exps) /\ imports' = Imports(m)  BY <1>6, <1>7, <1>8
<1>12. MergeInv'  BY <1>8, <1>9, <1>11 DEF MergeInv
<1>13. QED  BY <1>10, <1>12

\* The steps of the scan that merge nothing.
LEMMA ScanWorks ==
  ASSUME ScanTyped, Scan
  PROVE  ScanTyped' /\ Units' = Units /\ UNCHANGED <<job, exports, imports, out, phase, errors>>
<1>1. UNCHANGED <<job, out, phase, errors>>  BY DEF Scan
<1>2. CASE Pull!OpenArchive
  <2>1. /\ pc = "merge" /\ next \in DOMAIN cmd.inputs /\ cmd.inputs[next].kind = "ar"
        /\ archives' = Append(archives, cmd.inputs[next]) /\ next' = next + 1
        /\ UNCHANGED <<cmd, exports, imports, pulled, arch, pc>>
    BY <1>2 DEF Pull!OpenArchive
  <2>2. PICK i, n : i = job.inputs /\ n = next  OBVIOUS
  <2>3. i \in Seq(Input)  BY <2>2, JobIs DEF ScanTyped
  <2>4. n \in DOMAIN i /\ cmd.inputs[n] = AbstractInput(i[n])  BY <2>1, <2>2, NextInput
  <2>5. PICK x \in Input : x = i[n]  BY <2>3, <2>4
  <2>6. x.kind # "tu"
    <3>1. AbstractInput(x).kind = "ar"  BY <2>1, <2>2, <2>4, <2>5
    <3>2. QED  BY <3>1, InputIs
  <2>7. archives' = IF job.inputs[next].kind = "tu" THEN archives
                      ELSE Append(archives, AbstractInput(job.inputs[next]))
    BY <2>1, <2>2, <2>4, <2>5, <2>6
  <2>8. UNCHANGED <<job, cmd, pulled, arch, pc, phase>> /\ next \in DOMAIN job.inputs  BY <1>1, <2>1, <2>2, <2>4
  <2>9. ScanTyped' /\ Units' = IF job.inputs[next].kind = "tu" THEN Units \cup {job.inputs[next].tu} ELSE Units
    BY <2>1, <2>7, <2>8, ScanNext
  <2>10. QED  BY <1>1, <2>1, <2>2, <2>5, <2>6, <2>9
<1>3. ASSUME UNCHANGED <<cmd, next, archives, exports, imports, pulled>>,
             pc # "done", pc' = "member" => arch' \in DOMAIN archives
      PROVE  ScanTyped' /\ Units' = Units /\ UNCHANGED <<job, exports, imports, out, phase, errors>>
  <2>1. phase = "resolve"  BY <1>3 DEF ScanTyped
  <2>2. ScanTyped' /\ Units' = Units  BY <1>1, <1>3, <2>1, ScanSame
  <2>3. QED  BY <1>1, <1>3, <2>2
<1>4. CASE Pull!NoInputs  BY <1>3, <1>4 DEF Pull!NoInputs, Pull!Fail
<1>5. CASE Pull!InputFails  BY <1>3, <1>5 DEF Pull!InputFails, Pull!Fail
<1>6. CASE Pull!StartPull  BY <1>3, <1>6 DEF Pull!StartPull
<1>7. CASE Pull!BeginPass
  <2>1. /\ UNCHANGED <<cmd, next, archives, exports, imports, pulled>>
        /\ pc = "pass" /\ pc' = "archive"
    BY <1>7, Zenon DEF Pull!BeginPass
  <2>2. QED  BY <1>3, <2>1
<1>8. CASE Pull!EndPull  BY <1>3, <1>8 DEF Pull!EndPull
<1>9. CASE Pull!EnterArchive  BY <1>3, <1>9 DEF Pull!EnterArchive
<1>10. CASE Pull!EndPass  BY <1>3, <1>10 DEF Pull!EndPass
<1>11. CASE Pull!LeaveArchive  BY <1>3, <1>11 DEF Pull!LeaveArchive
<1>12. CASE Pull!SkipMember
  <2>1. /\ UNCHANGED <<cmd, next, archives, exports, imports, pulled, arch, pc>> /\ pc = "member"
    BY <1>12 DEF Pull!SkipMember
  <2>2. arch \in DOMAIN archives  BY <2>1 DEF ScanTyped
  <2>3. QED  BY <1>3, <2>1, <2>2
<1>13. CASE Pull!PullFails  BY <1>3, <1>13 DEF Pull!PullFails, Pull!Fail
<1>14. QED  BY <1>2, <1>4, <1>5, <1>6, <1>7, <1>8, <1>9, <1>10, <1>11, <1>12, <1>13 DEF Scan

\* A phase after the merge.
LEMMA PhaseWorks ==
  ASSUME ScanTyped, NEW from, NEW to, to # "resolve", Phase(from, to)
  PROVE  ScanTyped' /\ Units' = Units /\ job' = job /\ phase = from /\ phase' = to
<1>1. /\ pc = "done" /\ phase = from /\ phase' = to
      /\ UNCHANGED <<job, cmd, next, archives, exports, imports, pulled, arch, pc>>
  BY DEF Phase, scanVars
<1>2. QED  BY <1>1, ScanSame DEF ScanTyped

\* Nothing is merged at first.
LEMMA MergeInit == Init => MergeInv
<1>1. SUFFICES ASSUME Init PROVE MergeInv  OBVIOUS
<1>2. out = EmptyModule /\ Pull!Start  BY <1>1, Zenon DEF Init
<1>3. next = 1 /\ pulled = {} /\ exports = {} /\ imports = {}  BY <1>2, Zenon DEF Pull!Start
<1>4. Units = {}  BY <1>3 DEF Units
<1>5. QED  BY <1>2, <1>3, <1>4, EmptyWorks DEF MergeInv

\* Every step keeps the output the merge of the units the scan has taken.
LEMMA MergeStep ==
  ASSUME ScanTyped, MergeInv, [Next]_vars
  PROVE  ScanTyped' /\ MergeInv'
<1>1. CASE MergeTU  BY <1>1, MergeTUWorks
<1>2. CASE PullMember  BY <1>2, PullMemberWorks
<1>3. CASE Scan
  <2>1. ScanTyped' /\ Units' = Units /\ UNCHANGED <<exports, imports, out, phase>>  BY <1>3, ScanWorks
  <2>2. QED  BY <2>1 DEF MergeInv
<1>4. CASE Resolve \/ Crt0 \/ DeadCodeElim \/ Prune \/ Diagnose
  <2>1. PICK from, to : to # "resolve" /\ Phase(from, to)
    BY <1>4, Zenon DEF Resolve, Crt0, DeadCodeElim, Prune, Diagnose
  <2>2. ScanTyped' /\ phase' # "resolve"  BY <2>1, PhaseWorks
  <2>3. QED  BY <2>2 DEF MergeInv
<1>5. CASE UNCHANGED vars
  <2>1. UNCHANGED <<job, cmd, next, archives, exports, imports, pulled, arch, pc, out, phase>>
    BY <1>5 DEF vars, scanVars
  <2>2. ScanTyped' /\ Units' = Units  BY <2>1, ScanSame DEF ScanTyped
  <2>3. QED  BY <2>1, <2>2 DEF MergeInv
<1>6. QED  BY <1>1, <1>2, <1>3, <1>4, <1>5 DEF Next, Finished

\* The names the scan decides by are those of the module the merges build.
THEOREM NamesCorrect == Spec => []NamesAgree
<1>1. ScanTyped /\ MergeInv => NamesAgree
  <2>1. SUFFICES ASSUME ScanTyped, MergeInv, phase = "resolve"
                 PROVE  exports = {out.exps[k].name : k \in DOMAIN out.exps} /\ imports = Imports(out)
    BY DEF NamesAgree
  <2>2. MergedFrom(out, Units) /\ exports = ExpNames(out.exps) /\ imports = Imports(out)  BY <2>1 DEF MergeInv
  <2>3. out \in Modules  BY <2>2 DEF MergedFrom, Whole
  <2>4. DOMAIN out.exps = 1 .. Len(out.exps)  BY <2>3, ModuleFields
  <2>5. QED  BY <2>2, <2>4 DEF ExpNames
<1>2. ScanTyped /\ MergeInv /\ [Next]_vars => ScanTyped' /\ MergeInv'  BY MergeStep
<1>3. QED  BY ScanInit, MergeInit, <1>1, <1>2, PTL DEF Spec

\* What a name means among the units of U, with the host modules H.
Owners(U, kind, x) == {u \in U : x \in Public(u, kind)}
Some(O) == CHOOSE u \in O : TRUE
Meaning(U, H, kind, sym) ==
  IF \/ sym \in FunctionsOf(U) \cup Range(SysProc) \cup StateImports
     \/ sym.mod \in H \/ sym.mod \in {u.name : u \in U} \/ Owners(U, kind, sym.name) = {}
    THEN sym
    ELSE Symbol(Some(Owners(U, kind, sym.name)).name, sym.name)

\* The meaning of a name, as an operator of the units and the host.
LEMMA MeansIs == \A kind, sym : Means(kind, sym) = Meaning(Units, Host, kind, sym)
BY DEF Means, Meaning, Owners, Some, Functions, FunctionsOf

\* The sys_proc functions.
LEMMA SysProcIs ==
  /\ SysProc \in Seq(Symbols) /\ Len(SysProc) = 4
  /\ \A k \in 1 .. 4 : SysProc[k].mod = "sys_proc" /\ SysProc[k] \in Symbols
  /\ \A s \in Range(SysProc) : s.mod = "sys_proc"
<1>1. "sys_proc" \in Text /\ "argc" \in Text /\ "argv_len" \in Text /\ "argv" \in Text /\ "exit" \in Text
  BY DEF Text
<1>2. PICK a, b, c, d : /\ a = Symbol("sys_proc", "argc") /\ b = Symbol("sys_proc", "argv_len")
                        /\ c = Symbol("sys_proc", "argv") /\ d = Symbol("sys_proc", "exit")
  OBVIOUS
<1>3. /\ a \in Symbols /\ b \in Symbols /\ c \in Symbols /\ d \in Symbols
      /\ a.mod = "sys_proc" /\ b.mod = "sys_proc" /\ c.mod = "sys_proc" /\ d.mod = "sys_proc"
  BY <1>1, <1>2, SymbolIs
<1>4. SysProc = <<a, b, c, d>>  BY <1>2 DEF SysProc
<1>5. PICK s : s = SysProc  OBVIOUS
<1>6. s \in Seq(Symbols) /\ Len(s) = 4 /\ s[1] = a /\ s[2] = b /\ s[3] = c /\ s[4] = d  BY <1>3, <1>4, <1>5
<1>7. \A k \in 1 .. 4 : s[k].mod = "sys_proc" /\ s[k] \in Symbols
  <2>1. SUFFICES ASSUME NEW k \in 1 .. 4 PROVE s[k].mod = "sys_proc" /\ s[k] \in Symbols  OBVIOUS
  <2>2. k = 1 \/ k = 2 \/ k = 3 \/ k = 4  OBVIOUS
  <2>3. QED  BY <2>2, <1>3, <1>6
<1>8. \A x : x \in Range(s) <=> \E k \in 1 .. Len(s) : s[k] = x  BY <1>6, RangeOf
<1>9. \A x \in Range(s) : x.mod = "sys_proc"
  <2>1. SUFFICES ASSUME NEW x \in Range(s) PROVE x.mod = "sys_proc"  OBVIOUS
  <2>2. PICK k \in 1 .. 4 : s[k] = x  BY <1>6, <1>8
  <2>3. QED  BY <2>2, <1>7
<1>10. QED  BY <1>5, <1>6, <1>7, <1>9

\* What is public is offered.
LEMMA PublicIs ==
  ASSUME NEW u \in TranslationUnit
  PROVE  /\ \A x \in Public(u, "func") : x \in Offered(u, "func")
         /\ \A x \in Public(u, "glob") : x \notin {StackPointer, HeapBase} => x \in Offered(u, "glob")
         /\ Public(u, "slot") = Public(u, "func")
<1>1. PICK f, o : f = Decls(u, "func") /\ o = Decls(u, "obj")  OBVIOUS
<1>2. f \in Seq(FunctionDef) /\ o \in Seq(ObjectDef)  BY <1>1, DeclsAre
<1>3. DOMAIN f = 1 .. Len(f) /\ DOMAIN o = 1 .. Len(o)  BY <1>2, Entries
<1>4. /\ \A x : x \in Public(u, "func") <=> \E k \in 1 .. Len(f) : ~f[k].static /\ f[k].name = x
      /\ \A x : x \in Public(u, "glob") <=> \E k \in 1 .. Len(o) : ~o[k].static /\ o[k].name = x
  BY <1>1, <1>3 DEF Public
<1>5. ASSUME NEW x \in Public(u, "func") PROVE x \in Offered(u, "func")
  <2>1. PICK k \in 1 .. Len(f) : ~f[k].static /\ f[k].name = x  BY <1>4
  <2>2. f[k] \in Range(f)  BY <1>2, RangeOf
  <2>3. QED  BY <2>1, <2>2, <1>1 DEF Offered
<1>6. ASSUME NEW x \in Public(u, "glob"), x \notin {StackPointer, HeapBase} PROVE x \in Offered(u, "glob")
  <2>1. PICK k \in 1 .. Len(o) : o[k].name = x  BY <1>4
  <2>2. x \in Names(o)
    <3>1. \A y \in ObjectDef : y.name \in Text  BY DEF ObjectDef, Text
    <3>2. \A y : y \in Names(o) <=> \E i \in 1 .. Len(o) : o[i].name = y  BY <1>2, <3>1, NamesAre
    <3>3. QED  BY <2>1, <3>2
  <2>3. Range(Objects(u)) = Names(o) \ {StackPointer, HeapBase}  BY <1>1, ObjectsAre
  <2>4. QED  BY <2>2, <2>3, <1>6 DEF Offered
<1>7. Public(u, "slot") = Public(u, "func")  BY DEF Public
<1>8. QED  BY <1>5, <1>6, <1>7

\* Units that may be linked together, and what the linker offers them.
Program(U, H) ==
  /\ \A u \in U : u \in TranslationUnit
  /\ Linkable(U) /\ Env \notin H /\ "sys_proc" \in H

\* Names that are imported, as Linkable has them.
LEMMA FuncWanted ==
  ASSUME NEW U, NEW H, Program(U, H), NEW sym \in FuncWants(U)
  PROVE  /\ sym \in Symbols /\ sym \notin StateImports
         /\ \A u \in U : sym.mod # u.name /\ (sym.name \in Offered(u, "func") => sym.name \in Public(u, "func"))
<1>1. PICK v \in U : sym \in Range(FimpOf(v))  BY DEF FuncWants
<1>2. v \in TranslationUnit  BY DEF Program
<1>3. PICK p, f : p = Protos(v) /\ f = FimpOf(v)  OBVIOUS
<1>4. /\ f \in Seq(Symbols) /\ Len(f) = Len(p) /\ \A k \in 1 .. Len(p) : f[k] = Symbol(p[k].mod, p[k].import)
  BY <1>2, <1>3, FunctionSpaces
<1>5. p \in Seq(Prototype) /\ \A k \in 1 .. Len(p) : p[k] \in Range(Decls(v, "proto"))  BY <1>2, <1>3, ProtosAre
<1>6. PICK k \in 1 .. Len(f) : f[k] = sym  BY <1>1, <1>3, <1>4, RangeOf
<1>7. PICK q \in Range(Decls(v, "proto")) : q = p[k]  BY <1>4, <1>5, <1>6
<1>8. q.mod \in Text /\ q.import \in Text
  <2>1. q \in Prototype  BY <1>4, <1>5, <1>6, <1>7, Entries
  <2>2. QED  BY <2>1 DEF Prototype, Text
<1>9. sym = Symbol(q.mod, q.import)  BY <1>4, <1>6, <1>7
<1>10. sym \in Symbols /\ sym.mod = q.mod /\ sym.name = q.import  BY <1>8, <1>9, SymbolIs
<1>11. \A u \in U : /\ u.name # q.mod /\ q.import \notin {StackPointer, HeapBase}
                    /\ q.import \in Names(External(u)) => q.import \in Public(u, "func")
  BY DEF Program, Linkable
<1>12. sym \notin StateImports
  <2>1. \A s \in StateImports : s.name \in {StackPointer, HeapBase}  BY DEF StateImports, Symbol
  <2>2. QED  BY <2>1, <1>1, <1>10, <1>11
<1>13. ASSUME NEW u \in U, sym.name \in Offered(u, "func") PROVE sym.name \in Public(u, "func")
  <2>1. u \in TranslationUnit  BY DEF Program
  <2>2. PICK e : e = External(u)  OBVIOUS
  <2>3. e \in Seq(FunctionDef) /\ \E j \in 1 .. Len(e) : e[j].name = sym.name
    BY <1>13, <2>1, <2>2, ExternalWorks
  <2>4. \A y \in FunctionDef : y.name \in Text  BY DEF FunctionDef, Text
  <2>5. \A x : x \in Names(e) <=> \E j \in 1 .. Len(e) : e[j].name = x  BY <2>3, <2>4, NamesAre
  <2>6. QED  BY <2>2, <2>3, <2>5, <1>10, <1>11
<1>14. QED  BY <1>10, <1>11, <1>12, <1>13

\* What Linkable says of an extern object.
LEMMA GlobWanted ==
  ASSUME NEW U, NEW H, Program(U, H), NEW sym \in GlobWants(U)
  PROVE  /\ sym \in Symbols /\ sym \notin StateImports /\ sym.mod = Env /\ sym.name \notin {StackPointer, HeapBase}
         /\ \A u \in U : sym.mod # u.name /\ (sym.name \in Offered(u, "glob") => sym.name \in Public(u, "glob"))
<1>1. PICK v \in U : sym \in {Symbol(Env, x) : x \in Range(Externs(v))}  BY DEF GlobWants
<1>2. PICK x \in Range(Externs(v)) : sym = Symbol(Env, x)  BY <1>1
<1>3. v \in TranslationUnit  BY DEF Program
<1>4. Externs(v) \in Seq(Text) /\ x \notin {StackPointer, HeapBase}  BY <1>3, ObjectsAre
<1>5. x \in Text  BY <1>4, RangeOf
<1>6. sym \in Symbols /\ sym.mod = Env /\ sym.name = x  BY <1>2, <1>5, SymbolIs, TextIs
<1>7. sym \notin StateImports
  <2>1. \A s \in StateImports : s.name \in {StackPointer, HeapBase}  BY DEF StateImports, Symbol
  <2>2. QED  BY <2>1, <1>4, <1>6
<1>8. ASSUME NEW u \in U PROVE sym.mod # u.name /\ (sym.name \in Offered(u, "glob") => sym.name \in Public(u, "glob"))
  <2>1. u.name # Env /\ (x \in Range(Objects(u)) => x \in Public(u, "glob"))  BY DEF Program, Linkable
  <2>2. QED  BY <2>1, <1>6 DEF Offered
<1>9. QED  BY <1>4, <1>6, <1>7, <1>8

\* Units that offer the same name bear the same name.
Sharing(U) ==
  \A kind \in {"func", "glob"} : \A u, v \in U : \A x \in Offered(u, kind) :
    x \in Offered(v, kind) => u.name = v.name

\* When export names are distinct, only units of one name offer a name.
LEMMA OfferedOnce ==
  ASSUME NEW U, NEW m \in Modules, ExportsFrom(m, U), Distinct(m.exps)
  PROVE  Sharing(U)
<1>1. SUFFICES ASSUME NEW kind \in {"func", "glob"}, NEW u \in U, NEW v \in U, NEW x \in Offered(u, kind),
                      x \in Offered(v, kind)
               PROVE  u.name = v.name
  BY DEF Sharing
<1>2. PICK e : e = m.exps  OBVIOUS
<1>3. PICK a, b : a = Symbol(u.name, x) /\ b = Symbol(v.name, x)  OBVIOUS
<1>4. Offering(u, x, kind, a) /\ Offering(v, x, kind, b)  BY <1>1, <1>3 DEF Offering
<1>5. Exporting(e, x, kind, a) /\ Exporting(e, x, kind, b)  BY <1>2, <1>4 DEF ExportsFrom
<1>6. PICK j \in 1 .. Len(e) : e[j].name = x /\ e[j].ref.sym = a  BY <1>5 DEF Exporting
<1>7. PICK k \in 1 .. Len(e) : e[k].name = x /\ e[k].ref.sym = b  BY <1>5 DEF Exporting
<1>8. j = k  BY <1>2, <1>6, <1>7 DEF Distinct
<1>9. a = b  BY <1>6, <1>7, <1>8
<1>10. a.mod = u.name /\ b.mod = v.name  BY <1>3 DEF Symbol
<1>11. QED  BY <1>9, <1>10

\* A slot means what a function reference does.
LEMMA SlotMeans == ASSUME NEW U, NEW H, NEW sym PROVE Meaning(U, H, "slot", sym) = Meaning(U, H, "func", sym)
<1>1. Owners(U, "slot", sym.name) = Owners(U, "func", sym.name)
  <2>1. \A u : Public(u, "slot") = Public(u, "func")  BY DEF Public
  <2>2. QED  BY <2>1 DEF Owners
<1>2. QED  BY <1>1 DEF Meaning

\* A definition means itself.
LEMMA MeaningDefined ==
  ASSUME NEW U, NEW H, NEW kind, NEW sym \in FunctionsOf(U) \cup ObjectsOf(U)
  PROVE  Meaning(U, H, kind, sym) = sym
<1>1. \E u \in U : sym.mod = u.name
  <2>1. \E u \in U : \E x : sym = Symbol(u.name, x)  BY DEF FunctionsOf, ObjectsOf
  <2>2. PICK u \in U : \E x : sym = Symbol(u.name, x)  BY <2>1
  <2>3. PICK x : sym = Symbol(u.name, x)  BY <2>2
  <2>4. sym.mod = u.name  BY <2>3 DEF Symbol
  <2>5. QED  BY <2>4
<1>2. sym.mod \in {u.name : u \in U}  BY <1>1
<1>3. QED  BY <1>2 DEF Meaning

\* What the host or crt0 provides means itself.
LEMMA MeaningProvided ==
  ASSUME NEW U, NEW H, NEW kind, NEW sym, sym \in Range(SysProc) \cup StateImports \/ sym.mod \in H
  PROVE  Meaning(U, H, kind, sym) = sym
BY DEF Meaning

\* An import nobody offers means itself.
LEMMA MeaningOpen ==
  ASSUME NEW U, NEW H, Program(U, H), NEW kind \in {"func", "glob"}, NEW sym,
         kind = "glob" => sym.name \notin {StackPointer, HeapBase},
         \A u \in U : sym.name \notin Offered(u, kind)
  PROVE  Meaning(U, H, kind, sym) = sym
<1>1. \A u \in U : sym.name \notin Public(u, kind)
  <2>1. SUFFICES ASSUME NEW u \in U, sym.name \in Public(u, kind) PROVE FALSE  OBVIOUS
  <2>2. u \in TranslationUnit  BY DEF Program
  <2>3. sym.name \in Offered(u, kind)  BY <2>1, <2>2, PublicIs
  <2>4. QED  BY <2>3
<1>2. Owners(U, kind, sym.name) = {}  BY <1>1 DEF Owners
<1>3. QED  BY <1>2 DEF Meaning

\* An import that a unit offers means that unit's definition.
Bound(U, H, kind, sym, u) ==
  /\ Program(U, H) /\ Sharing(U) /\ kind \in {"func", "glob"} /\ sym.mod \notin H
  /\ sym \in IF kind = "func" THEN FuncWants(U) ELSE GlobWants(U)
  /\ u \in U /\ sym.name \in Offered(u, kind)

\* The definition an import means is that of the unit that offers it.
LEMMA MeaningBound ==
  ASSUME NEW U, NEW H, NEW kind, NEW sym, NEW u, Bound(U, H, kind, sym, u)
  PROVE  Meaning(U, H, kind, sym) = Symbol(u.name, sym.name)
<1>1. /\ Program(U, H) /\ Sharing(U) /\ kind \in {"func", "glob"} /\ sym.mod \notin H
      /\ sym \in IF kind = "func" THEN FuncWants(U) ELSE GlobWants(U)
      /\ u \in U /\ sym.name \in Offered(u, kind)
  BY DEF Bound
<1>2. /\ sym \notin StateImports
      /\ kind = "glob" => sym.name \notin {StackPointer, HeapBase}
      /\ \A v \in U : sym.mod # v.name /\ (sym.name \in Offered(v, kind) => sym.name \in Public(v, kind))
  <2>1. CASE kind = "func"  BY <1>1, <2>1, FuncWanted
  <2>2. CASE kind = "glob"  BY <1>1, <2>2, GlobWanted
  <2>3. QED  BY <1>1, <2>1, <2>2
<1>3. sym \notin FunctionsOf(U)
  <2>1. SUFFICES ASSUME sym \in FunctionsOf(U) PROVE FALSE  OBVIOUS
  <2>2. PICK v \in U : \E f : sym = Symbol(v.name, f)  BY <2>1 DEF FunctionsOf
  <2>3. PICK f : sym = Symbol(v.name, f)  BY <2>2
  <2>4. sym.mod = v.name  BY <2>3 DEF Symbol
  <2>5. QED  BY <2>4, <1>2
<1>4. sym \notin Range(SysProc)
  <2>1. SUFFICES ASSUME sym \in Range(SysProc) PROVE FALSE  OBVIOUS
  <2>2. sym.mod = "sys_proc"  BY <2>1, SysProcIs
  <2>3. QED  BY <2>2, <1>1 DEF Program
<1>5. PICK O : O = Owners(U, kind, sym.name)  OBVIOUS
<1>6. u \in O  BY <1>1, <1>2, <1>5 DEF Owners
<1>7. PICK v : v = Some(O)  OBVIOUS
<1>8. v \in O  BY <1>6, <1>7 DEF Some
<1>9. v \in U /\ sym.name \in Public(v, kind)  BY <1>5, <1>8 DEF Owners
<1>10. sym.name \in Offered(v, kind)
  <2>1. v \in TranslationUnit  BY <1>1, <1>9 DEF Program
  <2>2. QED  BY <2>1, <1>1, <1>2, <1>9, PublicIs
<1>11. v.name = u.name
  <2>1. \A a, b \in U : \A x \in Offered(a, kind) : x \in Offered(b, kind) => a.name = b.name
    BY <1>1 DEF Sharing
  <2>2. QED  BY <2>1, <1>1, <1>9, <1>10
<1>12. sym.mod \notin {w.name : w \in U}  BY <1>2
<1>13. Meaning(U, H, kind, sym) = Symbol(v.name, sym.name)
  BY <1>1, <1>2, <1>3, <1>4, <1>5, <1>6, <1>7, <1>12 DEF Meaning
<1>14. QED  BY <1>11, <1>13

\* An index space whose imports are to be resolved: the imports are no
\* unit's definitions, the references of the kind denote what they mean.
Wants(U, kind) == IF kind = "func" THEN FuncWants(U) ELSE GlobWants(U) \cup StateImports
Resolving(m, U, H, kind, a, b) ==
  /\ m \in Modules /\ Program(U, H) /\ Sharing(U) /\ ExportsFrom(m, U) /\ kind \in {"func", "glob"}
  /\ a \in Seq(Symbols) /\ b \in Seq(Symbols)
  /\ Range(a) \subseteq Wants(U, kind) /\ Range(b) \subseteq FunctionsOf(U) \cup ObjectsOf(U)
  /\ \A r \in AllRefs(m) : r.kind = kind => r.idx < Len(a) + Len(b) /\ Numbered(a, b, r.idx) = r.sym
Resolves(m, U, H, kind, a, b, i) ==
  Resolving(m, U, H, kind, a, b) /\ i \in Resolved(m, kind, a, H)

\* The imports of a kind: a runtime global, or what some unit wants.
LEMMA WantedIs ==
  ASSUME NEW U, NEW H, Program(U, H), NEW kind \in {"func", "glob"}, NEW sym \in Wants(U, kind)
  PROVE  \/ sym \in StateImports /\ kind = "glob" /\ sym.name \in {StackPointer, HeapBase} /\ sym.mod = Env
         \/ /\ sym \in IF kind = "func" THEN FuncWants(U) ELSE GlobWants(U)
            /\ kind = "glob" => sym.name \notin {StackPointer, HeapBase} /\ sym.mod = Env
            /\ sym \notin StateImports
<1>1. CASE kind = "func"  BY <1>1, FuncWanted DEF Wants
<1>2. CASE kind = "glob" /\ sym \in GlobWants(U)  BY <1>2, GlobWanted
<1>3. CASE kind = "glob" /\ sym \in StateImports  BY <1>3 DEF StateImports, Symbol
<1>4. QED  BY <1>1, <1>2, <1>3 DEF Wants

\* No unit is called like the module of an import.
LEMMA WantedMod ==
  ASSUME NEW U, NEW H, Program(U, H), NEW kind \in {"func", "glob"}, NEW sym \in Wants(U, kind)
  PROVE  \A u \in U : sym.mod # u.name
<1>1. CASE kind = "func"  BY <1>1, FuncWanted DEF Wants
<1>2. CASE kind = "glob" /\ sym \in GlobWants(U)  BY <1>2, GlobWanted
<1>3. CASE kind = "glob" /\ sym \in StateImports
  <2>1. sym.mod = Env  BY <1>3 DEF StateImports, Symbol
  <2>2. QED  BY <2>1 DEF Program, Linkable
<1>4. QED  BY <1>1, <1>2, <1>3 DEF Wants

\* What the exports of a name of a kind are.
LEMMA ExporterIs ==
  ASSUME NEW m \in Modules, NEW U, ExportsFrom(m, U), NEW kind, NEW x, NEW k \in Exporters(m, kind, x)
  PROVE  /\ m.exps[k].ref \in AllRefs(m) /\ m.exps[k].ref.kind = kind
         /\ \E u \in U : /\ m.exps[k].ref.sym = Symbol(u.name, x) /\ x \in Offered(u, kind)
                         /\ kind \in {"func", "glob"}
<1>1. PICK e : e = m.exps  OBVIOUS
<1>2. e \in Seq(Exps) /\ DOMAIN e = 1 .. Len(e)  BY <1>1, ModuleFields
<1>3. k \in 1 .. Len(e) /\ e[k].name = x /\ e[k].ref.kind = kind  BY <1>1, <1>2 DEF Exporters
<1>4. Exporting(e, x, kind, e[k].ref.sym)  BY <1>3 DEF Exporting
<1>5. PICK u \in U : Offering(u, x, kind, e[k].ref.sym)  BY <1>1, <1>4 DEF ExportsFrom
<1>6. e[k].ref \in AllRefs(m)  BY <1>1, <1>3, AllRefsAre
<1>7. QED  BY <1>1, <1>3, <1>5, <1>6 DEF Offering

\* What a unit offers is exported.
LEMMA ExporterOf ==
  ASSUME NEW m \in Modules, NEW U, ExportsFrom(m, U), NEW kind \in {"func", "glob"}, NEW u \in U,
         NEW x \in Offered(u, kind)
  PROVE  Exporters(m, kind, x) # {}
<1>1. PICK e : e = m.exps  OBVIOUS
<1>2. e \in Seq(Exps) /\ DOMAIN e = 1 .. Len(e)  BY <1>1, ModuleFields
<1>3. PICK s : s = Symbol(u.name, x)  OBVIOUS
<1>4. Offering(u, x, kind, s)  BY <1>3 DEF Offering
<1>5. Exporting(e, x, kind, s)  BY <1>1, <1>4 DEF ExportsFrom
<1>6. PICK k \in 1 .. Len(e) : e[k].name = x /\ e[k].ref.kind = kind  BY <1>5 DEF Exporting
<1>7. QED  BY <1>1, <1>2, <1>6 DEF Exporters

\* The definition an import resolves to: its number is not an import's.
LEMMA TargetWorks ==
  ASSUME NEW m, NEW U, NEW H, NEW kind, NEW a, NEW b, NEW i, Resolves(m, U, H, kind, a, b, i),
         NEW t, t = TargetOf(m, kind, a[i + 1].name)
  PROVE  /\ t \in Nat /\ t >= Len(a) /\ t < Len(a) + Len(b)
         /\ Numbered(a, b, t) = Meaning(U, H, kind, a[i + 1])
<1>1. /\ m \in Modules /\ Program(U, H) /\ Sharing(U) /\ ExportsFrom(m, U) /\ kind \in {"func", "glob"}
      /\ a \in Seq(Symbols) /\ b \in Seq(Symbols)
      /\ Range(a) \subseteq Wants(U, kind)
      /\ \A r \in AllRefs(m) : r.kind = kind => r.idx < Len(a) + Len(b) /\ Numbered(a, b, r.idx) = r.sym
      /\ i \in Resolved(m, kind, a, H)
  BY DEF Resolves, Resolving
<1>2. PICK s : s = a[i + 1]  OBVIOUS
<1>3. i \in 0 .. Len(a) - 1 /\ s.mod \notin H /\ Exporters(m, kind, s.name) # {}  BY <1>1, <1>2 DEF Resolved
<1>4. PICK k \in Exporters(m, kind, s.name) : t = m.exps[k].ref.idx
  <2>1. t = m.exps[CHOOSE j \in Exporters(m, kind, s.name) : TRUE].ref.idx  BY <1>2 DEF TargetOf
  <2>2. QED  BY <2>1, <1>3
<1>5. PICK r : r = m.exps[k].ref  OBVIOUS
<1>6. /\ r \in AllRefs(m) /\ r.kind = kind
      /\ \E u \in U : r.sym = Symbol(u.name, s.name) /\ s.name \in Offered(u, kind)
  BY <1>1, <1>4, <1>5, ExporterIs
<1>7. PICK u \in U : r.sym = Symbol(u.name, s.name) /\ s.name \in Offered(u, kind)  BY <1>6
<1>8. t \in Nat /\ t < Len(a) + Len(b) /\ Numbered(a, b, t) = r.sym
  <2>1. r \in Refs  BY <1>1, <1>6, AllRefsAre
  <2>2. r.idx \in Nat  BY <2>1 DEF Refs
  <2>3. QED  BY <2>2, <1>1, <1>4, <1>5, <1>6
<1>9. i + 1 \in 1 .. Len(a) /\ s \in Range(a) /\ Len(a) \in Nat
  <2>1. i + 1 \in 1 .. Len(a) /\ Len(a) \in Nat  BY <1>1, <1>3, RangeOf
  <2>2. QED  BY <2>1, <1>1, <1>2, RangeOf
<1>10. t >= Len(a)
  <2>1. SUFFICES ASSUME t < Len(a) PROVE FALSE  BY <1>8, <1>9
  <2>2. t + 1 \in 1 .. Len(a) /\ Numbered(a, b, t) = a[t + 1]  BY <2>1, <1>1, <1>8, NumberedAt
  <2>3. a[t + 1] \in Range(a)  BY <2>2, <1>1, RangeOf
  <2>4. r.sym \in Wants(U, kind)  BY <2>2, <2>3, <1>1, <1>8
  <2>5. PICK y : y = r.sym  OBVIOUS
  <2>6. \A v \in U : y.mod # v.name  BY <2>4, <2>5, <1>1, WantedMod
  <2>7. y.mod = u.name  BY <2>5, <1>7 DEF Symbol
  <2>8. QED  BY <2>6, <2>7
<1>11. Meaning(U, H, kind, s) = Symbol(u.name, s.name)
  <2>1. s \in Wants(U, kind)  BY <1>1, <1>9
  <2>2. s \in IF kind = "func" THEN FuncWants(U) ELSE GlobWants(U)
    <3>1. ~(kind = "glob" /\ s.name \in {StackPointer, HeapBase})
      <4>1. SUFFICES ASSUME kind = "glob", s.name \in {StackPointer, HeapBase} PROVE FALSE  OBVIOUS
      <4>2. s.name \in Range(Objects(u))  BY <4>1, <1>7 DEF Offered
      <4>3. u \in TranslationUnit  BY <1>1 DEF Program
      <4>4. Range(Objects(u)) \cap {StackPointer, HeapBase} = {}  BY <4>3, ObjectsAre
      <4>5. QED  BY <4>1, <4>2, <4>4
    <3>2. QED  BY <3>1, <2>1, <1>1, WantedIs
  <2>3. Bound(U, H, kind, s, u)  BY <2>2, <1>1, <1>3, <1>7 DEF Bound
  <2>4. QED  BY <2>3, MeaningBound
<1>12. QED  BY <1>2, <1>7, <1>8, <1>10, <1>11

\* Resolving takes the number of a symbol to one of what it means.
LEMMA ResolveNumbers ==
  ASSUME NEW m, NEW U, NEW H, NEW kind, NEW a, NEW b, Resolving(m, U, H, kind, a, b),
         NEW drop, drop = Resolved(m, kind, a, H)
  PROVE  /\ drop \subseteq 0 .. Len(a) - 1
         /\ \A i \in Nat : ResolveNumber(m, kind, a, drop, i) \in Nat
         /\ \A i \in Nat : i < Len(a) + Len(b) =>
              /\ ResolveNumber(m, kind, a, drop, i) < Len(Without(a, drop)) + Len(b)
              /\ Numbered(Without(a, drop), b, ResolveNumber(m, kind, a, drop, i))
                   = Meaning(U, H, kind, Numbered(a, b, i))
<1>1. /\ m \in Modules /\ Program(U, H) /\ ExportsFrom(m, U) /\ kind \in {"func", "glob"}
      /\ a \in Seq(Symbols) /\ b \in Seq(Symbols)
      /\ Range(a) \subseteq Wants(U, kind) /\ Range(b) \subseteq FunctionsOf(U) \cup ObjectsOf(U)
  BY DEF Resolving
<1>2. drop \subseteq 0 .. Len(a) - 1  BY DEF Resolved
<1>3. \A i \in Nat : NewNumber(drop, i) \in Nat  BY <1>1, <1>2, WithoutWorks
<1>4. ASSUME NEW i \in drop
      PROVE  /\ ResolveNumber(m, kind, a, drop, i) \in Nat
             /\ ResolveNumber(m, kind, a, drop, i) < Len(Without(a, drop)) + Len(b)
             /\ Numbered(Without(a, drop), b, ResolveNumber(m, kind, a, drop, i))
                   = Meaning(U, H, kind, Numbered(a, b, i))
  <2>1. PICK t : t = TargetOf(m, kind, a[i + 1].name)  OBVIOUS
  <2>2. Resolves(m, U, H, kind, a, b, i)  BY <1>4 DEF Resolves
  <2>3. /\ t \in Nat /\ t >= Len(a) /\ t < Len(a) + Len(b)
        /\ Numbered(a, b, t) = Meaning(U, H, kind, a[i + 1])
    BY <2>1, <2>2, TargetWorks
  <2>4. Len(a) \in Nat /\ i \in Nat /\ i < Len(a)  BY <1>1, <1>2, <1>4, RangeOf
  <2>5. t \notin drop  BY <2>3, <2>4, <1>2
  <2>6. ResolveNumber(m, kind, a, drop, i) = NewNumber(drop, t)  BY <2>1, <1>4 DEF ResolveNumber
  <2>7. /\ NewNumber(drop, t) \in Nat
        /\ NewNumber(drop, t) < Len(Without(a, drop)) + Len(b)
        /\ Numbered(Without(a, drop), b, NewNumber(drop, t)) = Numbered(a, b, t)
    <3>1. Leaves(Symbols, a, b, drop, t)  BY <2>3, <2>5, <1>1, <1>2 DEF Leaves
    <3>2. QED  BY <3>1, NumberedWithout
  <2>8. i < Len(a) + Len(b)  BY <1>1, <2>4, RangeOf
  <2>9. Numbered(a, b, i) = a[i + 1]  BY <2>4, <2>8, <1>1, NumberedAt
  <2>10. QED  BY <2>3, <2>6, <2>7, <2>9
<1>5. ASSUME NEW i \in Nat, i \notin drop PROVE ResolveNumber(m, kind, a, drop, i) = NewNumber(drop, i)
  BY <1>5 DEF ResolveNumber
<1>6. ASSUME NEW i \in Nat, i < Len(a) + Len(b), i \notin drop
      PROVE  Meaning(U, H, kind, Numbered(a, b, i)) = Numbered(a, b, i)
  <2>1. CASE i >= Len(a)
    <3>1. i - Len(a) + 1 \in 1 .. Len(b) /\ Numbered(a, b, i) = b[i - Len(a) + 1]
      BY <2>1, <1>1, <1>6, NumberedAt
    <3>2. b[i - Len(a) + 1] \in Range(b)  BY <3>1, <1>1, RangeOf
    <3>3. Numbered(a, b, i) \in FunctionsOf(U) \cup ObjectsOf(U)  BY <3>1, <3>2, <1>1
    <3>4. QED  BY <3>3, MeaningDefined
  <2>2. CASE i < Len(a)
    <3>1. i + 1 \in 1 .. Len(a) /\ Numbered(a, b, i) = a[i + 1]  BY <2>2, <1>1, <1>6, NumberedAt
    <3>2. PICK s : s = a[i + 1]  OBVIOUS
    <3>3. s \in Wants(U, kind)
      <4>1. s \in Range(a)  BY <3>1, <3>2, <1>1, RangeOf
      <4>2. QED  BY <4>1, <1>1
    <3>4. CASE s \in StateImports \/ s.mod \in H  BY <3>1, <3>2, <3>4, MeaningProvided
    <3>5. CASE s \notin StateImports /\ s.mod \notin H
      <4>1. Exporters(m, kind, s.name) = {}
        <5>1. i \in 0 .. Len(a) - 1  BY <2>2, <1>1, RangeOf
        <5>2. QED  BY <5>1, <3>2, <3>5, <1>6 DEF Resolved
      <4>2. \A u \in U : s.name \notin Offered(u, kind)  BY <4>1, <1>1, ExporterOf
      <4>3. kind = "glob" => s.name \notin {StackPointer, HeapBase}  BY <3>3, <3>5, <1>1, WantedIs
      <4>4. Meaning(U, H, kind, s) = s  BY <4>2, <4>3, <1>1, MeaningOpen
      <4>5. QED  BY <4>4, <3>1, <3>2
    <3>6. QED  BY <3>4, <3>5
  <2>3. QED  BY <2>1, <2>2, <1>1, RangeOf
<1>7. ASSUME NEW i \in Nat, i < Len(a) + Len(b)
      PROVE  /\ ResolveNumber(m, kind, a, drop, i) < Len(Without(a, drop)) + Len(b)
             /\ Numbered(Without(a, drop), b, ResolveNumber(m, kind, a, drop, i))
                   = Meaning(U, H, kind, Numbered(a, b, i))
  <2>1. CASE i \in drop  BY <2>1, <1>4
  <2>2. CASE i \notin drop
    <3>1. /\ NewNumber(drop, i) < Len(Without(a, drop)) + Len(b)
          /\ Numbered(Without(a, drop), b, NewNumber(drop, i)) = Numbered(a, b, i)
      <4>1. Leaves(Symbols, a, b, drop, i)  BY <2>2, <1>1, <1>2, <1>7 DEF Leaves
      <4>2. QED  BY <4>1, NumberedWithout
    <3>2. QED  BY <3>1, <2>2, <1>5, <1>6, <1>7
  <2>3. QED  BY <2>1, <2>2
<1>8. \A i \in Nat : ResolveNumber(m, kind, a, drop, i) \in Nat  BY <1>3, <1>4, <1>5
<1>9. QED  BY <1>2, <1>7, <1>8

\* A renumbering that keeps the numbers in use in range.
Moving(m, n, F, G, fi, gi) ==
  /\ Whole(m) /\ Renumbers(n, m, F, G, Same, fi, gi)
  /\ \A r \in AllRefs(m) : r.kind # "glob" => F[FuncNum(m, r)] < Len(fi) + Len(m.funcs)
  /\ \A r \in AllRefs(m) : r.kind = "glob" => G[r.idx] < Len(gi) + Len(m.globs)
  /\ \A i \in m.start : F[i] < Len(fi) + Len(m.funcs)
\* A reference of the new module and the one it was.
Was(m, n, F, G, q, r) ==
  /\ q.kind = r.kind /\ q.sym = r.sym
  /\ q.kind = "glob" => /\ r.idx \in Nat /\ r.idx < NGlobs(m)
                        /\ Denotes(m, r) = GlobAt(m, r.idx) /\ Denotes(n, q) = GlobAt(n, G[r.idx])
  /\ q.kind # "glob" => /\ FuncNum(m, r) \in Nat /\ FuncNum(m, r) < NFuncs(m)
                        /\ Denotes(m, r) = FuncAt(m, FuncNum(m, r))
                        /\ Denotes(n, q) = FuncAt(n, F[FuncNum(m, r)])

\* A renumbering that keeps numbers in range keeps the module whole.
LEMMA MovingWorks ==
  ASSUME NEW m, NEW n, NEW F, NEW G, NEW fi, NEW gi, Moving(m, n, F, G, fi, gi)
  PROVE  /\ Whole(n) /\ \A q \in AllRefs(n) : \E r \in AllRefs(m) : Was(m, n, F, G, q, r)
         /\ SameOffers(n.exps, m.exps)
<1>1. /\ Whole(m) /\ Renumbers(n, m, F, G, Same, fi, gi) /\ m \in Modules
      /\ F \in [Nat -> Nat] /\ G \in [Nat -> Nat] /\ Same \in [Nat -> Nat] /\ InTable(m)
      /\ \A r \in AllRefs(m) : r \in Refs /\ InRange(m, r)
      /\ \A i \in m.start : i < NFuncs(m)
  <2>1. Whole(m) /\ Renumbers(n, m, F, G, Same, fi, gi)  BY DEF Moving
  <2>2. m \in Modules /\ F \in [Nat -> Nat] /\ G \in [Nat -> Nat] /\ Same \in [Nat -> Nat]  BY <2>1 DEF Renumbers
  <2>3. AllRefs(m) \subseteq Refs  BY <2>2, AllRefsAre
  <2>4. QED  BY <2>1, <2>2, <2>3 DEF Whole
<1>2. /\ n \in Modules /\ n.fimp = fi /\ n.gimp = gi /\ n.globs = m.globs
      /\ Ids(n) = Ids(m) /\ Len(n.funcs) = Len(m.funcs)
      /\ Len(n.exps) = Len(m.exps)
      /\ \A k \in 1 .. Len(m.exps) : /\ n.exps[k].name = m.exps[k].name
                                     /\ n.exps[k].ref = Move(m.exps[k].ref, F, G, Same)
      /\ Len(n.table) = Len(m.table)
      /\ \A k \in 1 .. Len(m.table) : n.table[k] = Move(m.table[k], F, G, Same)
      /\ InTable(n)
      /\ n.start = {F[i] : i \in m.start}
      /\ \A q \in AllRefs(n) : \E r \in AllRefs(m) : q = Move(r, F, G, Same)
  <2>1. PICK S : S = Same  OBVIOUS
  <2>2. Renumbers(n, m, F, G, S, fi, gi)  BY <1>1, <2>1
  <2>3. /\ n \in Modules /\ n.fimp = fi /\ n.gimp = gi /\ n.globs = m.globs
        /\ Ids(n) = Ids(m) /\ Len(n.funcs) = Len(m.funcs)
        /\ Len(n.exps) = Len(m.exps)
        /\ \A k \in 1 .. Len(m.exps) : /\ n.exps[k].name = m.exps[k].name
                                       /\ n.exps[k].ref = Move(m.exps[k].ref, F, G, S)
        /\ Len(n.table) = Len(m.table)
        /\ \A k \in 1 .. Len(m.table) : n.table[k] = Move(m.table[k], F, G, S)
        /\ InTable(m) => InTable(n)
        /\ n.start = {F[i] : i \in m.start}
        /\ \A q \in AllRefs(n) : \E r \in AllRefs(m) : q = Move(r, F, G, S)
    BY <2>2, RenumberWorks
  <2>4. QED  BY <2>1, <2>3, <1>1
<1>3. TableMoved(m, n, F, G, Same)
  <2>1. SUFFICES ASSUME NEW i \in 0 .. Len(m.table) - 1
                 PROVE  Same[i] < Len(n.table) /\ n.table[Same[i] + 1] = Move(m.table[i + 1], F, G, Same)
    BY DEF TableMoved
  <2>2. Len(m.table) \in Nat  BY <1>1, ModuleFields
  <2>3. i \in Nat /\ Same[i] = i /\ i + 1 \in 1 .. Len(m.table)  BY <2>2 DEF Same
  <2>4. QED  BY <2>2, <2>3, <1>2
<1>4. NFuncs(n) = Len(fi) + Len(m.funcs) /\ NGlobs(n) = Len(gi) + Len(m.globs)  BY <1>2 DEF NFuncs, NGlobs
<1>5. ASSUME NEW r \in AllRefs(m), NEW q, q = Move(r, F, G, Same)
      PROVE  InRange(n, q) /\ Was(m, n, F, G, q, r)
  <2>1. r \in Refs /\ InRange(m, r)  BY <1>1
  <2>2. r.kind = "func" => F[r.idx] < NFuncs(n)  BY <1>4 DEF Moving, FuncNum
  <2>3. r.kind = "glob" => G[r.idx] < NGlobs(n)  BY <1>4 DEF Moving
  <2>4. /\ InRange(n, q)
        /\ Denotes(n, q) = IF r.kind = "glob" THEN GlobAt(n, G[r.idx]) ELSE FuncAt(n, F[FuncNum(m, r)])
    <3>1. /\ InRange(n, Move(r, F, G, Same))
          /\ Denotes(n, Move(r, F, G, Same)) = IF r.kind = "glob" THEN GlobAt(n, G[r.idx])
                                                              ELSE FuncAt(n, F[FuncNum(m, r)])
      <4>1. PICK S \in [Nat -> Nat] : S = Same  BY <1>1
      <4>2. TableMoved(m, n, F, G, S)  BY <4>1, <1>3
      <4>3. /\ m \in Modules /\ n \in Modules /\ F \in [Nat -> Nat] /\ G \in [Nat -> Nat] /\ InTable(m)
        BY <1>1, <1>2
      <4>4. /\ InRange(n, Move(r, F, G, S))
            /\ Denotes(n, Move(r, F, G, S)) = IF r.kind = "glob" THEN GlobAt(n, G[r.idx])
                                                              ELSE FuncAt(n, F[FuncNum(m, r)])
        BY <4>2, <4>3, <2>1, <2>2, <2>3, MovedDenotes
      <4>5. QED  BY <4>1, <4>4
    <3>2. QED  BY <3>1, <1>5
  <2>5. q.kind = r.kind /\ q.sym = r.sym
    <3>1. Move(r, F, G, Same).kind = r.kind /\ Move(r, F, G, Same).sym = r.sym  BY <2>1, MoveKeeps
    <3>2. QED  BY <3>1, <1>5
  <2>6. Denotes(m, r) = IF r.kind = "glob" THEN GlobAt(m, r.idx) ELSE FuncAt(m, FuncNum(m, r))
    BY <2>1, <1>1, DenotesIs
  <2>7. r.kind # "glob" => FuncNum(m, r) \in Nat /\ FuncNum(m, r) < NFuncs(m)  BY <1>1, WholeFuncNum
  <2>8. r.kind = "glob" => r.idx \in Nat /\ r.idx < NGlobs(m)  BY <2>1 DEF Refs, InRange
  <2>9. QED  BY <2>4, <2>5, <2>6, <2>7, <2>8 DEF Was
<1>6. \A q \in AllRefs(n) : InRange(n, q) /\ \E r \in AllRefs(m) : Was(m, n, F, G, q, r)
  <2>1. SUFFICES ASSUME NEW q \in AllRefs(n) PROVE InRange(n, q) /\ \E r \in AllRefs(m) : Was(m, n, F, G, q, r)
    OBVIOUS
  <2>2. PICK r \in AllRefs(m) : q = Move(r, F, G, Same)  BY <1>2
  <2>3. QED  BY <2>2, <1>5
<1>7. \A j \in n.start : j < NFuncs(n)
  <2>1. SUFFICES ASSUME NEW j \in n.start PROVE j < NFuncs(n)  OBVIOUS
  <2>2. PICK i \in m.start : j = F[i]  BY <1>2
  <2>3. QED  BY <2>2, <1>4 DEF Moving
<1>8. Whole(n)  BY <1>2, <1>6, <1>7 DEF Whole
<1>9. SameOffers(n.exps, m.exps)
  <2>1. /\ Len(n.exps) = Len(m.exps)
        /\ \A k \in 1 .. Len(m.exps) : /\ n.exps[k].name = m.exps[k].name
                                       /\ n.exps[k].ref = Move(m.exps[k].ref, F, G, Same)
    BY <1>2
  <2>2. Reoffers(n, m, F, G, Same)  BY <2>1, <1>1 DEF Reoffers
  <2>3. QED  BY <2>2, RenumberOffers
<1>10. QED  BY <1>6, <1>8, <1>9

\* Exports that offer the same come from the same units.
LEMMA ExportsKept ==
  ASSUME NEW m \in Modules, NEW n \in Modules, SameOffers(n.exps, m.exps), NEW U
  PROVE  /\ ExportsFrom(m, U) => ExportsFrom(n, U)
         /\ Distinct(m.exps) => Distinct(n.exps)
<1>1. PICK s, t : s = n.exps /\ t = m.exps  OBVIOUS
<1>2. s \in Seq(Exps) /\ t \in Seq(Exps) /\ SameOffers(s, t)  BY <1>1, ModuleFields
<1>3. /\ \A x, kind, sym : Exporting(s, x, kind, sym) <=> Exporting(t, x, kind, sym)
      /\ (Distinct(s) <=> Distinct(t))
  BY <1>2, SameExports
<1>4. QED  BY <1>1, <1>3 DEF ExportsFrom

-----------------------------------------------------------------------------
\* An index space after its imports are resolved.
LEMMA SpaceResolved ==
  ASSUME NEW S, NEW a \in Seq(S), NEW drop, drop \subseteq 0 .. Len(a) - 1
  PROVE  \A x \in Range(Without(a, drop)) : \E i \in 0 .. Len(a) - 1 : i \notin drop /\ a[i + 1] = x
<1>1. PICK K : K = {k \in DOMAIN a : k - 1 \notin drop}  OBVIOUS
<1>2. DOMAIN a = 1 .. Len(a) /\ Len(a) \in Nat /\ \A k \in 1 .. Len(a) : a[k] \in S  BY Entries
<1>3. PICK w : w = Kept(a, K)  OBVIOUS
<1>4. w \in Seq(S) /\ \A n \in 1 .. Len(w) : \E k \in K : w[n] = a[k]
  <2>1. K \subseteq DOMAIN a /\ \A k \in K : a[k] \in S  BY <1>1, <1>2
  <2>2. QED  BY <2>1, <1>3, KeptOf
<1>5. SUFFICES ASSUME NEW x \in Range(w) PROVE \E i \in 0 .. Len(a) - 1 : i \notin drop /\ a[i + 1] = x
  BY <1>1, <1>3 DEF Without
<1>6. PICK n \in 1 .. Len(w) : w[n] = x  BY <1>4, RangeOf
<1>7. PICK k \in K : w[n] = a[k]  BY <1>4
<1>8. k \in 1 .. Len(a) /\ k - 1 \notin drop  BY <1>1, <1>2
<1>9. k - 1 \in 0 .. Len(a) - 1 /\ (k - 1) + 1 = k  BY <1>2, <1>8
<1>10. QED  BY <1>6, <1>7, <1>8, <1>9

\* Dropping imports leaves none twice.
LEMMA SpaceOnce ==
  ASSUME NEW S, NEW a \in Seq(S), NEW drop, drop \subseteq 0 .. Len(a) - 1, OnceEach(a)
  PROVE  OnceEach(Without(a, drop))
<1>1. PICK K : K = {k \in DOMAIN a : k - 1 \notin drop}  OBVIOUS
<1>2. DOMAIN a = 1 .. Len(a) /\ Len(a) \in Nat  BY Entries
<1>3. PICK w : w = Kept(a, K)  OBVIOUS
<1>4. \A n \in 1 .. Len(w) : \E k \in K : w[n] = a[k] /\ Nth(K, k) = n
  <2>1. K \subseteq DOMAIN a  BY <1>1
  <2>2. QED  BY <2>1, <1>3, KeptWorks
<1>5. SUFFICES ASSUME NEW i \in 1 .. Len(w), NEW j \in 1 .. Len(w), w[i] = w[j] PROVE i = j
  BY <1>1, <1>3 DEF Without, OnceEach
<1>6. PICK k \in K : w[i] = a[k] /\ Nth(K, k) = i  BY <1>4
<1>7. PICK l \in K : w[j] = a[l] /\ Nth(K, l) = j  BY <1>4
<1>8. k \in 1 .. Len(a) /\ l \in 1 .. Len(a)  BY <1>1, <1>2
<1>9. k = l  BY <1>5, <1>6, <1>7, <1>8 DEF OnceEach
<1>10. QED  BY <1>6, <1>7, <1>9

\* The identity renumbering.
LEMMA SameIs == Same \in [Nat -> Nat] /\ \A i \in Nat : Same[i] = i
BY DEF Same

\* The first two stay when they are not dropped.
LEMMA FirstTwo ==
  ASSUME NEW S, NEW a \in Seq(S), NEW drop, drop \subseteq 0 .. Len(a) - 1, Len(a) >= 2,
         0 \notin drop, 1 \notin drop
  PROVE  Len(Without(a, drop)) >= 2 /\ Without(a, drop)[1] = a[1] /\ Without(a, drop)[2] = a[2]
<1>1. Len(a) \in Nat /\ 0 \in 0 .. Len(a) - 1 /\ 1 \in 0 .. Len(a) - 1  BY RangeOf
<1>2. NewNumber(drop, 0) = 0 /\ NewNumber(drop, 1) = 1
  <2>1. \A d \in drop : d \in Nat /\ d # 0  BY <1>1
  <2>2. {d \in drop : d < 0} = {} /\ {d \in drop : d < 1} = {}
    <3>1. \A d \in drop : ~(d < 0) /\ ~(d < 1)  BY <2>1
    <3>2. QED  BY <3>1
  <2>3. Cardinality({}) = 0  BY FS_EmptySet
  <2>4. LowCount(drop, 0) = 0 /\ LowCount(drop, 1) = 0  BY <2>2, <2>3 DEF LowCount
  <2>5. QED  BY <2>4, NewNumberIs
<1>3. PICK w : w = Without(a, drop)  OBVIOUS
<1>4. /\ w \in Seq(S)
      /\ \A i \in 0 .. Len(a) - 1 : i \notin drop =>
           NewNumber(drop, i) < Len(w) /\ w[NewNumber(drop, i) + 1] = a[i + 1]
  BY <1>3, WithoutWorks, ZenonT(30)
<1>5. 0 < Len(w) /\ w[0 + 1] = a[0 + 1] /\ 1 < Len(w) /\ w[1 + 1] = a[1 + 1]  BY <1>1, <1>2, <1>4
<1>6. Len(w) \in Nat  BY <1>4, RangeOf
<1>7. QED  BY <1>3, <1>5, <1>6

-----------------------------------------------------------------------------
\* The global imports that are left: the runtime's, and those nobody offers.
GlobsLeft(n, U) ==
  /\ Range(n.globs) = ObjectsOf(U) /\ OnceEach(n.gimp) /\ StateFirst(n)
  /\ \A s \in Range(n.gimp) : s \in StateImports \/ (s \in GlobWants(U) /\ \A u \in U : s.name \notin Offered(u, "glob"))
GlobsResolved(n, U, H) ==
  /\ Whole(n) /\ n.start = {} /\ ExportsFrom(n, U) /\ Distinct(n.exps)
  /\ \A r \in AllRefs(n) : Denotes(n, r) = IF r.kind = "glob" THEN Meaning(U, H, "glob", r.sym) ELSE r.sym
  /\ Range(n.fimp) = FuncWants(U) /\ Range(Ids(n)) = FunctionsOf(U) /\ GlobsLeft(n, U)

\* The merged globals are ready to be resolved.
LEMMA GlobSpace ==
  ASSUME NEW m, NEW U, NEW H, MergedFrom(m, U), Program(U, H)
  PROVE  Resolving(m, U, H, "glob", m.gimp, m.globs)
<1>1. Whole(m) /\ Named(m) /\ ExportsFrom(m, U) /\ Distinct(m.exps) /\ SpacesFrom(m, U)  BY DEF MergedFrom
<1>2. m \in Modules  BY <1>1 DEF Whole
<1>3. PICK a, b : a = m.gimp /\ b = m.globs  OBVIOUS
<1>4. a \in Seq(Symbols) /\ b \in Seq(Symbols)  BY <1>2, <1>3, ModuleFields
<1>5. Range(a) \subseteq Wants(U, "glob") /\ Range(b) \subseteq FunctionsOf(U) \cup ObjectsOf(U)
  BY <1>1, <1>3 DEF SpacesFrom, Wants
<1>6. ASSUME NEW r \in AllRefs(m), r.kind = "glob"
      PROVE  r.idx < Len(a) + Len(b) /\ Numbered(a, b, r.idx) = r.sym
  <2>1. InRange(m, r) /\ Denotes(m, r) = r.sym /\ r \in Refs  BY <1>1, <1>2, AllRefsAre DEF Whole, Named
  <2>2. r.idx < NGlobs(m)  BY <2>1, <1>6 DEF InRange
  <2>3. Denotes(m, r) = GlobAt(m, r.idx)  BY <2>1, <1>2, <1>6, DenotesIs
  <2>4. QED  BY <2>1, <2>2, <2>3, <1>3 DEF NGlobs, GlobAt
<1>7. Sharing(U)  BY <1>1, <1>2, OfferedOnce
<1>8. QED  BY <1>1, <1>2, <1>3, <1>4, <1>5, <1>6, <1>7 DEF Resolving

\* ResolveGlobalImports is a renumbering of the globals.
LEMMA ResolveGlobalsIs ==
  ASSUME NEW m \in Modules, NEW H, NEW n, n = ResolveGlobalImports(m, H),
         NEW drop, drop = Resolved(m, "glob", m.gimp, H)
  PROVE  n = Renumber(m, Same, [i \in Nat |-> ResolveNumber(m, "glob", m.gimp, drop, i)], Same,
                      m.fimp, Without(m.gimp, drop))
<1>1. PICK G : G = [i \in Nat |-> ResolveNumber(m, "glob", m.gimp, drop, i)]  OBVIOUS
<1>2. PICK r : r = Reindex(m, Same, G, Same)  OBVIOUS
<1>3. n = [r EXCEPT !.gimp = Without(@, drop)]  BY <1>1, <1>2 DEF ResolveGlobalImports
<1>4. PICK fs, es, tb, st : /\ fs = MovedFuncs(m.funcs, Same, G, Same) /\ es = MovedExps(m.exps, Same, G, Same)
                            /\ tb = MovedTable(m.table, Same, G, Same) /\ st = {Same[i] : i \in m.start}
  OBVIOUS
<1>5. r = [fimp |-> m.fimp, gimp |-> m.gimp, funcs |-> fs, globs |-> m.globs, exps |-> es, table |-> tb, start |-> st]
  BY <1>2, <1>4, ReindexIs
<1>6. n = [fimp |-> m.fimp, gimp |-> Without(m.gimp, drop), funcs |-> fs, globs |-> m.globs,
           exps |-> es, table |-> tb, start |-> st]
  BY <1>3, <1>5
<1>7. QED  BY <1>1, <1>4, <1>6 DEF Renumber

\* After resolveGlobalImports a global reference denotes what it means by the linkage rules.
LEMMA ResolveGlobalsWorks ==
  ASSUME NEW m, NEW U, NEW H, MergedFrom(m, U), Program(U, H), NEW n, n = ResolveGlobalImports(m, H)
  PROVE  GlobsResolved(n, U, H)
<1>1. /\ Whole(m) /\ Named(m) /\ ExportsFrom(m, U) /\ Distinct(m.exps) /\ SpacesFrom(m, U) /\ m.start = {}
      /\ m \in Modules
  BY DEF MergedFrom, Whole
<1>2. PICK a, b : a = m.gimp /\ b = m.globs  OBVIOUS
<1>3. a \in Seq(Symbols) /\ b \in Seq(Symbols)  BY <1>1, <1>2, ModuleFields
<1>4. PICK drop : drop = Resolved(m, "glob", a, H)  OBVIOUS
<1>5. PICK G : G = [i \in Nat |-> ResolveNumber(m, "glob", a, drop, i)]  OBVIOUS
<1>6. PICK w : w = Without(a, drop)  OBVIOUS
<1>7. Resolving(m, U, H, "glob", a, b)  BY <1>2, GlobSpace
<1>8. /\ drop \subseteq 0 .. Len(a) - 1
      /\ \A i \in Nat : ResolveNumber(m, "glob", a, drop, i) \in Nat
      /\ \A i \in Nat : i < Len(a) + Len(b) =>
           /\ ResolveNumber(m, "glob", a, drop, i) < Len(w) + Len(b)
           /\ Numbered(w, b, ResolveNumber(m, "glob", a, drop, i)) = Meaning(U, H, "glob", Numbered(a, b, i))
  BY <1>4, <1>6, <1>7, ResolveNumbers
<1>9. G \in [Nat -> Nat] /\ \A i \in Nat : G[i] = ResolveNumber(m, "glob", a, drop, i)  BY <1>5, <1>8
<1>10. w \in Seq(Symbols)  BY <1>3, <1>6, <1>8, WithoutWorks
<1>11. Renumbers(n, m, Same, G, Same, m.fimp, w)
  <2>1. n = Renumber(m, Same, G, Same, m.fimp, w)  BY <1>1, <1>2, <1>4, <1>5, <1>6, ResolveGlobalsIs
  <2>2. QED  BY <2>1, <1>1, <1>9, <1>10, SameIs, ModuleFields DEF Renumbers
<1>12. Moving(m, n, Same, G, m.fimp, w)
  <2>1. ASSUME NEW r \in AllRefs(m), r.kind # "glob" PROVE Same[FuncNum(m, r)] < Len(m.fimp) + Len(m.funcs)
    <3>1. FuncNum(m, r) \in Nat /\ FuncNum(m, r) < NFuncs(m)  BY <1>1, <2>1, WholeFuncNum
    <3>2. QED  BY <3>1, SameIs DEF NFuncs
  <2>2. ASSUME NEW r \in AllRefs(m), r.kind = "glob" PROVE G[r.idx] < Len(w) + Len(m.globs)
    <3>1. r \in Refs /\ InRange(m, r)  BY <1>1, AllRefsAre DEF Whole
    <3>2. r.idx \in Nat /\ r.idx < Len(a) + Len(b)  BY <3>1, <2>2, <1>2 DEF Refs, InRange, NGlobs
    <3>3. QED  BY <3>2, <1>2, <1>8, <1>9
  <2>3. QED  BY <2>1, <2>2, <1>1, <1>11 DEF Moving
<1>13. Whole(n) /\ SameOffers(n.exps, m.exps) /\ \A q \in AllRefs(n) : \E r \in AllRefs(m) : Was(m, n, Same, G, q, r)
  BY <1>12, MovingWorks
<1>14. /\ n \in Modules /\ n.fimp = m.fimp /\ n.gimp = w /\ n.globs = b /\ Ids(n) = Ids(m)
       /\ n.start = {}
  <2>1. PICK S : S = Same  OBVIOUS
  <2>2. Renumbers(n, m, S, G, S, m.fimp, w)  BY <1>11, <2>1
  <2>3. /\ n \in Modules /\ n.fimp = m.fimp /\ n.gimp = w /\ n.globs = m.globs /\ Ids(n) = Ids(m)
        /\ n.start = {S[i] : i \in m.start}
    BY <2>2, RenumberWorks
  <2>4. QED  BY <2>3, <1>1, <1>2
<1>15. ASSUME NEW q \in AllRefs(n)
       PROVE  Denotes(n, q) = IF q.kind = "glob" THEN Meaning(U, H, "glob", q.sym) ELSE q.sym
  <2>1. PICK r \in AllRefs(m) : Was(m, n, Same, G, q, r)  BY <1>13
  <2>2. Denotes(m, r) = r.sym /\ q.sym = r.sym  BY <2>1, <1>1 DEF Named, Was
  <2>3. CASE q.kind = "glob"
    <3>1. /\ r.idx \in Nat /\ r.idx < Len(a) + Len(b)
          /\ r.sym = Numbered(a, b, r.idx) /\ Denotes(n, q) = Numbered(w, b, G[r.idx])
      BY <2>1, <2>2, <2>3, <1>2, <1>14 DEF Was, NGlobs, GlobAt
    <3>2. Numbered(w, b, G[r.idx]) = Meaning(U, H, "glob", Numbered(a, b, r.idx))  BY <3>1, <1>8, <1>9
    <3>3. QED  BY <3>1, <3>2, <2>2, <2>3
  <2>4. CASE q.kind # "glob"
    <3>1. /\ FuncNum(m, r) \in Nat /\ r.sym = FuncAt(m, FuncNum(m, r))
          /\ Denotes(n, q) = FuncAt(n, Same[FuncNum(m, r)])
      BY <2>1, <2>2, <2>4 DEF Was
    <3>2. Denotes(n, q) = FuncAt(n, FuncNum(m, r))  BY <3>1, SameIs
    <3>3. FuncAt(n, FuncNum(m, r)) = FuncAt(m, FuncNum(m, r))  BY <1>14 DEF FuncAt
    <3>4. QED  BY <3>1, <3>2, <3>3, <2>2, <2>4
  <2>5. QED  BY <2>3, <2>4
<1>16. ExportsFrom(n, U) /\ Distinct(n.exps)  BY <1>1, <1>13, <1>14, ExportsKept
<1>17. GlobsLeft(n, U)
  <2>1. Range(a) \subseteq StateImports \cup GlobWants(U) /\ OnceEach(a) /\ Range(b) = ObjectsOf(U) /\ StateFirst(m)
    BY <1>1, <1>2 DEF SpacesFrom
  <2>2. OnceEach(w)  BY <2>1, <1>3, <1>6, <1>8, SpaceOnce
  <2>3. Exporters(m, "glob", StackPointer) = {} /\ Exporters(m, "glob", HeapBase) = {}
    <3>1. SUFFICES ASSUME NEW x \in {StackPointer, HeapBase}, NEW k \in Exporters(m, "glob", x) PROVE FALSE
      OBVIOUS
    <3>2. PICK u \in U : x \in Offered(u, "glob")  BY <3>1, <1>1, ExporterIs
    <3>3. u \in TranslationUnit  BY DEF Program
    <3>4. Range(Objects(u)) \cap {StackPointer, HeapBase} = {}  BY <3>3, ObjectsAre
    <3>5. QED  BY <3>1, <3>2, <3>4 DEF Offered
  <2>4. StateFirst(n)
    <3>1. CASE Len(a) >= 2 /\ a[1] = Symbol(Env, StackPointer) /\ a[2] = Symbol(Env, HeapBase)
      <4>1. a[1].name = StackPointer /\ a[2].name = HeapBase  BY <3>1 DEF Symbol
      <4>2. 0 \notin drop /\ 1 \notin drop
        <5>1. \A i \in drop : Exporters(m, "glob", a[i + 1].name) # {}  BY <1>4 DEF Resolved
        <5>2. QED  BY <5>1, <4>1, <2>3
      <4>3. Len(w) >= 2 /\ w[1] = a[1] /\ w[2] = a[2]  BY <4>2, <3>1, <1>3, <1>6, <1>8, FirstTwo
      <4>4. QED  BY <4>3, <3>1, <1>14 DEF StateFirst
    <3>2. CASE Len(a) = 0 /\ Len(b) = 0
      <4>1. drop = {}  BY <3>2, <1>8
      <4>2. Cardinality({}) = 0  BY FS_EmptySet
      <4>3. Len(w) = Len(a) - Cardinality(drop)  BY <1>3, <1>6, <1>8, WithoutWorks
      <4>4. Len(w) = 0  BY <4>1, <4>2, <4>3, <3>2
      <4>5. QED  BY <4>4, <3>2, <1>14 DEF StateFirst
    <3>3. QED  BY <3>1, <3>2, <2>1, <1>2 DEF StateFirst
  <2>5. ASSUME NEW s \in Range(w), s \notin StateImports
        PROVE  s \in GlobWants(U) /\ \A u \in U : s.name \notin Offered(u, "glob")
    <3>1. PICK i \in 0 .. Len(a) - 1 : i \notin drop /\ a[i + 1] = s
      BY <2>5, <1>3, <1>6, <1>8, SpaceResolved, ZenonT(30)
    <3>2. s \in GlobWants(U)
      <4>1. Len(a) \in Nat /\ i + 1 \in 1 .. Len(a)  BY <3>1, <1>3, RangeOf
      <4>2. s \in Range(a)  BY <4>1, <3>1, <1>3, RangeOf
      <4>3. QED  BY <4>2, <2>1, <2>5
    <3>3. s.mod = Env  BY <3>2, GlobWanted
    <3>4. s.mod \notin H  BY <3>3 DEF Program
    <3>5. Exporters(m, "glob", s.name) = {}  BY <3>1, <3>4, <1>4 DEF Resolved
    <3>6. QED  BY <3>2, <3>5, <1>1, ExporterOf
  <2>6. ASSUME NEW s \in Range(w)
        PROVE  s \in StateImports \/ (s \in GlobWants(U) /\ \A u \in U : s.name \notin Offered(u, "glob"))
    <3>1. CASE s \in StateImports  BY <3>1
    <3>2. CASE s \notin StateImports  BY <3>2, <2>5
    <3>3. QED  BY <3>1, <3>2
  <2>7. \A s \in Range(n.gimp) :
          s \in StateImports \/ (s \in GlobWants(U) /\ \A u \in U : s.name \notin Offered(u, "glob"))
    BY <2>6, <1>14
  <2>8. Range(n.globs) = ObjectsOf(U) /\ OnceEach(n.gimp)  BY <2>1, <2>2, <1>14
  <2>9. QED  BY <2>4, <2>7, <2>8 DEF GlobsLeft
<1>18. QED  BY <1>1, <1>13, <1>14, <1>15, <1>16, <1>17 DEF GlobsResolved, SpacesFrom

\* Every number denotes what the source meant, by the linkage rules.
Meant(n, U, H) == \A r \in AllRefs(n) : Denotes(n, r) = Meaning(U, H, r.kind, r.sym)
ImportsResolved(n, U, H) ==
  /\ Whole(n) /\ n.start = {} /\ ExportsFrom(n, U) /\ Distinct(n.exps) /\ Meant(n, U, H)
  /\ Range(n.fimp) \subseteq FuncWants(U) /\ Range(Ids(n)) = FunctionsOf(U) /\ GlobsLeft(n, U)

\* The functions are ready to be resolved.
LEMMA FuncSpace ==
  ASSUME NEW m, NEW U, NEW H, GlobsResolved(m, U, H), Program(U, H)
  PROVE  Resolving(m, U, H, "func", m.fimp, Ids(m))
<1>1. /\ Whole(m) /\ ExportsFrom(m, U) /\ Distinct(m.exps)
      /\ \A r \in AllRefs(m) : r.kind # "glob" => Denotes(m, r) = r.sym
      /\ Range(m.fimp) = FuncWants(U) /\ Range(Ids(m)) = FunctionsOf(U)
  BY DEF GlobsResolved
<1>2. m \in Modules  BY <1>1 DEF Whole
<1>3. PICK a, b : a = m.fimp /\ b = Ids(m)  OBVIOUS
<1>4. a \in Seq(Symbols) /\ b \in Seq(Symbols) /\ Len(b) = Len(m.funcs)  BY <1>2, <1>3, ModuleFields, IdsOf
<1>5. Range(a) \subseteq Wants(U, "func") /\ Range(b) \subseteq FunctionsOf(U) \cup ObjectsOf(U)
  BY <1>1, <1>3 DEF Wants
<1>6. ASSUME NEW r \in AllRefs(m), r.kind = "func"
      PROVE  r.idx < Len(a) + Len(b) /\ Numbered(a, b, r.idx) = r.sym
  <2>1. InRange(m, r) /\ Denotes(m, r) = r.sym /\ r \in Refs  BY <1>1, <1>2, <1>6, AllRefsAre DEF Whole
  <2>2. r.idx < NFuncs(m) /\ FuncNum(m, r) = r.idx  BY <2>1, <1>6 DEF InRange, FuncNum
  <2>3. Denotes(m, r) = FuncAt(m, r.idx)  BY <2>1, <2>2, <1>2, <1>6, DenotesIs
  <2>4. QED  BY <2>1, <2>2, <2>3, <1>3, <1>4 DEF NFuncs, FuncAt
<1>7. Sharing(U)  BY <1>1, <1>2, OfferedOnce
<1>8. QED  BY <1>1, <1>2, <1>3, <1>4, <1>5, <1>6, <1>7 DEF Resolving

\* ResolveFunctionImports is a renumbering of the functions.
LEMMA ResolveFunctionsIs ==
  ASSUME NEW m \in Modules, NEW H, NEW n, n = ResolveFunctionImports(m, H),
         NEW drop, drop = Resolved(m, "func", m.fimp, H)
  PROVE  n = Renumber(m, [i \in Nat |-> ResolveNumber(m, "func", m.fimp, drop, i)], Same, Same,
                      Without(m.fimp, drop), m.gimp)
<1>1. PICK F : F = [i \in Nat |-> ResolveNumber(m, "func", m.fimp, drop, i)]  OBVIOUS
<1>2. PICK r : r = Reindex(m, F, Same, Same)  OBVIOUS
<1>3. n = [r EXCEPT !.fimp = Without(@, drop)]  BY <1>1, <1>2 DEF ResolveFunctionImports
<1>4. PICK fs, es, tb, st : /\ fs = MovedFuncs(m.funcs, F, Same, Same) /\ es = MovedExps(m.exps, F, Same, Same)
                            /\ tb = MovedTable(m.table, F, Same, Same) /\ st = {F[i] : i \in m.start}
  OBVIOUS
<1>5. r = [fimp |-> m.fimp, gimp |-> m.gimp, funcs |-> fs, globs |-> m.globs, exps |-> es, table |-> tb, start |-> st]
  BY <1>2, <1>4, ReindexIs
<1>6. n = [fimp |-> Without(m.fimp, drop), gimp |-> m.gimp, funcs |-> fs, globs |-> m.globs,
           exps |-> es, table |-> tb, start |-> st]
  BY <1>3, <1>5
<1>7. QED  BY <1>1, <1>4, <1>6 DEF Renumber

\* After resolveFunctionImports a function reference denotes what it means as well.
LEMMA ResolveFunctionsWorks ==
  ASSUME NEW m, NEW U, NEW H, GlobsResolved(m, U, H), Program(U, H), NEW n, n = ResolveFunctionImports(m, H)
  PROVE  ImportsResolved(n, U, H)
<1>1. /\ Whole(m) /\ ExportsFrom(m, U) /\ Distinct(m.exps) /\ m.start = {} /\ m \in Modules
      /\ \A r \in AllRefs(m) : Denotes(m, r) = IF r.kind = "glob" THEN Meaning(U, H, "glob", r.sym) ELSE r.sym
      /\ Range(m.fimp) = FuncWants(U) /\ Range(Ids(m)) = FunctionsOf(U) /\ GlobsLeft(m, U)
  BY DEF GlobsResolved, Whole
<1>2. PICK a, b : a = m.fimp /\ b = Ids(m)  OBVIOUS
<1>3. a \in Seq(Symbols) /\ b \in Seq(Symbols) /\ Len(b) = Len(m.funcs)  BY <1>1, <1>2, ModuleFields, IdsOf
<1>4. PICK drop : drop = Resolved(m, "func", a, H)  OBVIOUS
<1>5. PICK F : F = [i \in Nat |-> ResolveNumber(m, "func", a, drop, i)]  OBVIOUS
<1>6. PICK w : w = Without(a, drop)  OBVIOUS
<1>7. Resolving(m, U, H, "func", a, b)  BY <1>2, FuncSpace
<1>8. /\ drop \subseteq 0 .. Len(a) - 1
      /\ \A i \in Nat : ResolveNumber(m, "func", a, drop, i) \in Nat
      /\ \A i \in Nat : i < Len(a) + Len(b) =>
           /\ ResolveNumber(m, "func", a, drop, i) < Len(w) + Len(b)
           /\ Numbered(w, b, ResolveNumber(m, "func", a, drop, i)) = Meaning(U, H, "func", Numbered(a, b, i))
  BY <1>4, <1>6, <1>7, ResolveNumbers
<1>9. F \in [Nat -> Nat] /\ \A i \in Nat : F[i] = ResolveNumber(m, "func", a, drop, i)  BY <1>5, <1>8
<1>10. w \in Seq(Symbols)  BY <1>3, <1>6, <1>8, WithoutWorks
<1>11. Renumbers(n, m, F, Same, Same, w, m.gimp)
  <2>1. n = Renumber(m, F, Same, Same, w, m.gimp)  BY <1>1, <1>2, <1>4, <1>5, <1>6, ResolveFunctionsIs
  <2>2. QED  BY <2>1, <1>1, <1>9, <1>10, SameIs, ModuleFields DEF Renumbers
<1>12. Moving(m, n, F, Same, w, m.gimp)
  <2>1. ASSUME NEW r \in AllRefs(m), r.kind # "glob" PROVE F[FuncNum(m, r)] < Len(w) + Len(m.funcs)
    <3>1. FuncNum(m, r) \in Nat /\ FuncNum(m, r) < Len(a) + Len(b)
      BY <1>1, <1>2, <1>3, <2>1, WholeFuncNum DEF NFuncs
    <3>2. QED  BY <3>1, <1>3, <1>8, <1>9
  <2>2. ASSUME NEW r \in AllRefs(m), r.kind = "glob" PROVE Same[r.idx] < Len(m.gimp) + Len(m.globs)
    <3>1. r \in Refs /\ InRange(m, r)  BY <1>1, AllRefsAre DEF Whole
    <3>2. r.idx \in Nat /\ r.idx < NGlobs(m)  BY <3>1, <2>2 DEF Refs, InRange
    <3>3. QED  BY <3>2, SameIs DEF NGlobs
  <2>3. QED  BY <2>1, <2>2, <1>1, <1>11 DEF Moving
<1>13. Whole(n) /\ SameOffers(n.exps, m.exps) /\ \A q \in AllRefs(n) : \E r \in AllRefs(m) : Was(m, n, F, Same, q, r)
  BY <1>12, MovingWorks
<1>14. /\ n \in Modules /\ n.fimp = w /\ n.gimp = m.gimp /\ n.globs = m.globs /\ Ids(n) = b
       /\ n.start = {}
  <2>1. PICK S : S = Same  OBVIOUS
  <2>2. Renumbers(n, m, F, S, S, w, m.gimp)  BY <1>11, <2>1
  <2>3. /\ n \in Modules /\ n.fimp = w /\ n.gimp = m.gimp /\ n.globs = m.globs /\ Ids(n) = Ids(m)
        /\ n.start = {F[i] : i \in m.start}
    BY <2>2, RenumberWorks
  <2>4. QED  BY <2>3, <1>1, <1>2
<1>15. ASSUME NEW q \in AllRefs(n) PROVE Denotes(n, q) = Meaning(U, H, q.kind, q.sym)
  <2>1. PICK r \in AllRefs(m) : Was(m, n, F, Same, q, r)  BY <1>13
  <2>2. q.sym = r.sym /\ q.kind = r.kind  BY <2>1 DEF Was
  <2>3. CASE q.kind = "glob"
    <3>1. Denotes(m, r) = Meaning(U, H, "glob", r.sym)  BY <2>2, <2>3, <1>1
    <3>2. /\ r.idx \in Nat /\ Denotes(m, r) = GlobAt(m, r.idx) /\ Denotes(n, q) = GlobAt(n, Same[r.idx])
      BY <2>1, <2>3 DEF Was
    <3>3. GlobAt(n, Same[r.idx]) = GlobAt(m, r.idx)  BY <3>2, <1>14, SameIs DEF GlobAt
    <3>4. QED  BY <3>1, <3>2, <3>3, <2>2, <2>3
  <2>4. CASE q.kind # "glob"
    <3>1. Denotes(m, r) = r.sym  BY <2>2, <2>4, <1>1
    <3>2. /\ FuncNum(m, r) \in Nat /\ FuncNum(m, r) < Len(a) + Len(b)
          /\ Denotes(m, r) = Numbered(a, b, FuncNum(m, r)) /\ Denotes(n, q) = Numbered(w, b, F[FuncNum(m, r)])
      BY <2>1, <2>4, <1>2, <1>3, <1>14 DEF Was, NFuncs, FuncAt
    <3>3. Denotes(n, q) = Meaning(U, H, "func", r.sym)  BY <3>1, <3>2, <1>8, <1>9
    <3>4. q.kind \in {"func", "slot"}
      <4>1. q \in Refs  BY <1>14, AllRefsAre
      <4>2. QED  BY <4>1, <2>4 DEF Refs
    <3>5. Meaning(U, H, q.kind, r.sym) = Meaning(U, H, "func", r.sym)  BY <3>4, SlotMeans
    <3>6. QED  BY <3>3, <3>5, <2>2
  <2>5. QED  BY <2>3, <2>4
<1>16. ExportsFrom(n, U) /\ Distinct(n.exps)  BY <1>1, <1>13, <1>14, ExportsKept
<1>17. GlobsLeft(n, U)  BY <1>1, <1>14 DEF GlobsLeft, StateFirst
<1>18. Range(n.fimp) \subseteq FuncWants(U)
  <2>1. SUFFICES ASSUME NEW x \in Range(w) PROVE x \in FuncWants(U)  BY <1>14
  <2>2. PICK i \in 0 .. Len(a) - 1 : i \notin drop /\ a[i + 1] = x
    <3>1. a \in Seq(Symbols) /\ drop \subseteq 0 .. Len(a) - 1 /\ x \in Range(Without(a, drop))
      BY <2>1, <1>3, <1>6, <1>8
    <3>2. \A y \in Range(Without(a, drop)) : \E i \in 0 .. Len(a) - 1 : i \notin drop /\ a[i + 1] = y
      BY <3>1, SpaceResolved
    <3>3. QED  BY <3>1, <3>2
  <2>3. Len(a) \in Nat /\ i + 1 \in 1 .. Len(a)  BY <2>2, <1>3, RangeOf
  <2>4. x \in Range(a)  BY <2>2, <2>3, <1>3, RangeOf
  <2>5. QED  BY <2>4, <1>1, <1>2
<1>19. Meant(n, U, H)  BY <1>15 DEF Meant
<1>20. QED  BY <1>1, <1>2, <1>13, <1>14, <1>16, <1>17, <1>18, <1>19 DEF ImportsResolved

\* Resolution: every reference denotes what it means by the linkage rules.
LEMMA ResolveWorks ==
  ASSUME NEW m, NEW U, NEW H, MergedFrom(m, U), Program(U, H), NEW n, n = ResolveImports(m, H)
  PROVE  ImportsResolved(n, U, H)
<1>1. PICK g : g = ResolveGlobalImports(m, H)  OBVIOUS
<1>2. GlobsResolved(g, U, H)  BY <1>1, ResolveGlobalsWorks
<1>3. n = ResolveFunctionImports(g, H)  BY <1>1 DEF ResolveImports
<1>4. QED  BY <1>2, <1>3, ResolveFunctionsWorks

\* Every extern object is defined by some unit.
NoneUndefined(U) == \A v \in U : \A x \in Range(Externs(v)) : \E u \in U : x \in Public(u, "glob")
\* Then only the runtime's globals are still imported.
StateOnly(m) ==
  \/ Len(m.gimp) = 0 /\ Len(m.globs) = 0
  \/ Len(m.gimp) = 2 /\ m.gimp[1] = Symbol(Env, StackPointer) /\ m.gimp[2] = Symbol(Env, HeapBase)
\* A reference to a global is only sure when every extern object is defined.
Sure(U, r) == r.kind = "glob" => NoneUndefined(U)
Surely(m, U, H) == \A r \in AllRefs(m) : Sure(U, r) => Denotes(m, r) = Meaning(U, H, r.kind, r.sym)
\* What the later phases keep.
Linked(m, U, H) == Whole(m) /\ Surely(m, U, H) /\ \A i \in m.start : FuncAt(m, i) = StartWrapper

\* The runtime's two globals.
LEMMA StateIs ==
  /\ Symbol(Env, StackPointer) \in Symbols /\ Symbol(Env, HeapBase) \in Symbols
  /\ \A s : s \in StateImports <=> s = Symbol(Env, StackPointer) \/ s = Symbol(Env, HeapBase)
<1>1. Symbol(Env, StackPointer) \in Symbols /\ Symbol(Env, HeapBase) \in Symbols  BY TextIs, SymbolIs
<1>2. \A s : s \in StateImports <=> s = Symbol(Env, StackPointer) \/ s = Symbol(Env, HeapBase)
  BY DEF StateImports
<1>3. QED  BY <1>1, <1>2

\* When every extern object is defined, only the runtime's globals are still imported.
LEMMA OnlyStateLeft ==
  ASSUME NEW U, NEW H, Program(U, H), NoneUndefined(U), NEW m \in Modules, GlobsLeft(m, U)
  PROVE  StateOnly(m) /\ \A k \in 1 .. Len(m.gimp) : m.gimp[k] \in StateImports
<1>1. PICK a : a = m.gimp  OBVIOUS
<1>2. a \in Seq(Symbols) /\ Len(a) \in Nat  BY <1>1, ModuleFields
<1>3. ASSUME NEW s \in Range(a) PROVE s \in StateImports
  <2>1. SUFFICES ASSUME s \notin StateImports PROVE FALSE  OBVIOUS
  <2>2. s \in GlobWants(U) /\ \A u \in U : s.name \notin Offered(u, "glob")  BY <2>1, <1>1 DEF GlobsLeft
  <2>3. s.name \notin {StackPointer, HeapBase}  BY <2>2, GlobWanted
  <2>4. PICK v \in U : s \in {Symbol(Env, x) : x \in Range(Externs(v))}  BY <2>2 DEF GlobWants
  <2>5. PICK x \in Range(Externs(v)) : s = Symbol(Env, x)  BY <2>4
  <2>6. s.name = x  BY <2>5 DEF Symbol
  <2>7. PICK u \in U : x \in Public(u, "glob")  BY <2>5 DEF NoneUndefined
  <2>8. u \in TranslationUnit  BY DEF Program
  <2>9. x \in Offered(u, "glob")  BY <2>3, <2>6, <2>7, <2>8, PublicIs
  <2>10. QED  BY <2>2, <2>6, <2>9
<1>4. ASSUME NEW k \in 1 .. Len(a) PROVE a[k] \in StateImports
  <2>1. a[k] \in Range(a)  BY <1>2, RangeOf
  <2>2. QED  BY <2>1, <1>3
<1>5. PICK p, q : p = Symbol(Env, StackPointer) /\ q = Symbol(Env, HeapBase)  OBVIOUS
<1>6. \A s \in StateImports : s = p \/ s = q  BY <1>5, StateIs
<1>7. StateOnly(m)
  <2>1. CASE Len(a) = 0 /\ Len(m.globs) = 0  BY <2>1, <1>1 DEF StateOnly
  <2>2. CASE Len(a) >= 2 /\ a[1] = p /\ a[2] = q
    <3>1. CASE Len(a) > 2
      <4>1. 1 \in 1 .. Len(a) /\ 2 \in 1 .. Len(a) /\ 3 \in 1 .. Len(a)  BY <3>1, <1>2
      <4>2. a[3] = a[1] \/ a[3] = a[2]  BY <4>1, <2>2, <1>4, <1>6
      <4>3. OnceEach(a)  BY <1>1 DEF GlobsLeft
      <4>4. QED  BY <4>1, <4>2, <4>3 DEF OnceEach
    <3>2. CASE Len(a) = 2
      <4>1. m.gimp[1] = Symbol(Env, StackPointer) /\ m.gimp[2] = Symbol(Env, HeapBase) /\ Len(m.gimp) = 2
        BY <3>2, <2>2, <1>1, <1>5
      <4>2. QED  BY <4>1 DEF StateOnly
    <3>3. Len(a) > 2 \/ Len(a) = 2
      <4>1. PICK l \in Nat : l = Len(a)  BY <1>2
      <4>2. l >= 2  BY <4>1, <2>2
      <4>3. l > 2 \/ l = 2  BY <4>2
      <4>4. QED  BY <4>1, <4>3
    <3>4. QED  BY <3>1, <3>2, <3>3
  <2>3. StateFirst(m)  BY DEF GlobsLeft
  <2>4. QED  BY <2>1, <2>2, <2>3, <1>1, <1>5 DEF StateFirst
<1>8. QED  BY <1>1, <1>4, <1>7

\* The two definitions that take the place of the imports.
StateGlobs == <<Symbol(Env, StackPointer), Symbol(Env, HeapBase)>>

\* The definitions of the runtime's globals, in order.
LEMMA StateGlobsAre ==
  /\ StateGlobs \in Seq(Symbols) /\ Len(StateGlobs) = 2
  /\ StateGlobs[1] = Symbol(Env, StackPointer) /\ StateGlobs[2] = Symbol(Env, HeapBase)
<1>1. PICK p, q : p = Symbol(Env, StackPointer) /\ q = Symbol(Env, HeapBase)  OBVIOUS
<1>2. p \in Symbols /\ q \in Symbols  BY <1>1, StateIs
<1>3. StateGlobs = <<p, q>>  BY <1>1 DEF StateGlobs
<1>4. QED  BY <1>1, <1>2, <1>3

\* The runtime's globals are defined in the module.
HasState(m, U) ==
  /\ Len(m.globs) >= 2 /\ m.globs[1] = Symbol(Env, StackPointer)
  /\ NoneUndefined(U) => Len(m.gimp) = 0
Materialised(m, n) ==
  /\ n \in Modules /\ n.fimp = m.fimp /\ n.funcs = m.funcs /\ n.exps = m.exps /\ n.table = m.table
  /\ n.start = m.start /\ NGlobs(n) >= NGlobs(m)
  /\ Len(n.globs) >= 2 /\ n.globs[1] = Symbol(Env, StackPointer)

\* What MaterialiseState does to any module that imports nothing twice, the runtime state first.
LEMMA MaterialiseAny ==
  ASSUME NEW m \in Modules, OnceEach(m.gimp), StateFirst(m), NEW n, n = MaterialiseState(m)
  PROVE  Materialised(m, n)
<1>1. PICK a, b : a = m.gimp /\ b = m.globs  OBVIOUS
<1>2. a \in Seq(Symbols) /\ b \in Seq(Symbols) /\ DOMAIN a = 1 .. Len(a) /\ Len(a) \in Nat /\ Len(b) \in Nat
  BY <1>1, ModuleFields
<1>3. PICK K : K = {k \in DOMAIN a : a[k] \notin StateImports}  OBVIOUS
<1>4. PICK g, d : g = Kept(a, K) /\ d = StateGlobs \o b  OBVIOUS
<1>5. g \in Seq(Symbols) /\ Len(g) = Cardinality(K) /\ Cardinality(K) \in Nat
  <2>1. K \subseteq DOMAIN a  BY <1>3
  <2>2. QED  BY <2>1, <1>2, <1>4, KeptWorks
<1>6. PICK s : s = StateGlobs  OBVIOUS
<1>7. s \in Seq(Symbols) /\ Len(s) = 2 /\ s[1] = Symbol(Env, StackPointer)  BY <1>6, StateGlobsAre
<1>8. d \in Seq(Symbols) /\ Len(d) = 2 + Len(b) /\ \A k \in 1 .. 2 : d[k] = s[k]
  <2>1. s \in Seq(Symbols) /\ b \in Seq(Symbols)  BY <1>2, <1>7
  <2>2. /\ s \o b \in Seq(Symbols) /\ Len(s \o b) = Len(s) + Len(b)
        /\ \A k \in 1 .. Len(s) : k \in 1 .. Len(s) + Len(b) /\ (s \o b)[k] = s[k]
    BY <2>1, ConcatAt
  <2>3. QED  BY <2>2, <1>4, <1>6, <1>7
<1>9. n = [m EXCEPT !.gimp = g, !.globs = d]  BY <1>1, <1>3, <1>4 DEF MaterialiseState, StateGlobs
<1>10. /\ n \in Modules /\ n.fimp = m.fimp /\ n.funcs = m.funcs /\ n.exps = m.exps /\ n.table = m.table
       /\ n.start = m.start /\ n.gimp = g /\ n.globs = d
  BY <1>5, <1>8, <1>9 DEF Modules
<1>11. NGlobs(n) = Cardinality(K) + (2 + Len(b)) /\ NGlobs(m) = Len(a) + Len(b)
  BY <1>1, <1>5, <1>8, <1>10 DEF NGlobs
<1>12. Cardinality(K) + 2 >= Len(a)
  <2>1. CASE Len(a) = 0  BY <2>1, <1>5
  <2>2. CASE Len(a) # 0
    <3>1. Len(a) >= 2 /\ a[1] = Symbol(Env, StackPointer) /\ a[2] = Symbol(Env, HeapBase)
      BY <2>2, <1>1 DEF StateFirst
    <3>2. PICK L : L = 3 .. Len(a)  OBVIOUS
    <3>3. ASSUME NEW k \in L PROVE k \in K
      <4>1. k \in 1 .. Len(a) /\ 1 \in 1 .. Len(a) /\ 2 \in 1 .. Len(a) /\ k # 1 /\ k # 2
        BY <3>1, <3>2, <1>2
      <4>2. a[k] # a[1] /\ a[k] # a[2]  BY <4>1, <1>1 DEF OnceEach
      <4>3. a[k] \notin StateImports  BY <4>2, <3>1, StateIs
      <4>4. QED  BY <4>1, <4>3, <1>2, <1>3
    <3>4. L \subseteq K  BY <3>3
    <3>5. IsFiniteSet(K)
      <4>1. IsFiniteSet(1 .. Len(a))  BY <1>2, FS_Interval
      <4>2. K \subseteq 1 .. Len(a)  BY <1>2, <1>3
      <4>3. QED  BY <4>1, <4>2, FS_Subset
    <3>6. Cardinality(L) <= Cardinality(K)  BY <3>4, <3>5, FS_Subset
    <3>7. Cardinality(L) = Len(a) - 2
      <4>1. PICK l \in Nat : l = Len(a)  BY <1>2
      <4>2. Cardinality(3 .. l) = IF 3 > l THEN 0 ELSE l - 3 + 1  BY FS_Interval
      <4>3. l >= 2  BY <4>1, <3>1
      <4>4. QED  BY <4>1, <4>2, <4>3, <3>2
    <3>8. QED  BY <3>6, <3>7, <1>2, <1>5
  <2>3. QED  BY <2>1, <2>2
<1>13. NGlobs(n) >= NGlobs(m)
  <2>1. PICK c, l, t \in Nat : c = Cardinality(K) /\ l = Len(a) /\ t = Len(b)  BY <1>2, <1>5
  <2>2. c + 2 >= l /\ NGlobs(n) = c + (2 + t) /\ NGlobs(m) = l + t  BY <2>1, <1>11, <1>12
  <2>3. QED  BY <2>2
<1>14. Len(d) >= 2 /\ d[1] = Symbol(Env, StackPointer)
  <2>1. Len(d) >= 2  BY <1>2, <1>8
  <2>2. 1 \in 1 .. 2  OBVIOUS
  <2>3. d[1] = s[1]  BY <2>2, <1>8
  <2>4. QED  BY <2>1, <2>3, <1>7
<1>15. QED  BY <1>10, <1>13, <1>14 DEF Materialised

\* The two definitions take the numbers of the two imports: no global changes its number.
LEMMA MaterialiseWorks ==
  ASSUME NEW m \in Modules, StateOnly(m), \A k \in 1 .. Len(m.gimp) : m.gimp[k] \in StateImports,
         NEW n, n = MaterialiseState(m)
  PROVE  /\ Len(n.gimp) = 0
         /\ \A i \in Nat : i < NGlobs(m) => i < NGlobs(n) /\ GlobAt(n, i) = GlobAt(m, i)
<1>1. PICK a, b : a = m.gimp /\ b = m.globs  OBVIOUS
<1>2. a \in Seq(Symbols) /\ b \in Seq(Symbols) /\ DOMAIN a = 1 .. Len(a) /\ Len(a) \in Nat /\ Len(b) \in Nat
  BY <1>1, ModuleFields
<1>3. PICK K : K = {k \in DOMAIN a : a[k] \notin StateImports}  OBVIOUS
<1>4. K = {}  BY <1>1, <1>2, <1>3
<1>5. PICK g, d : g = Kept(a, K) /\ d = StateGlobs \o b  OBVIOUS
<1>6. g \in Seq(Symbols) /\ Len(g) = 0
  <2>1. K \subseteq DOMAIN a  BY <1>3
  <2>2. g \in Seq(Symbols) /\ Len(g) = Cardinality(K)  BY <2>1, <1>2, <1>5, KeptWorks
  <2>3. Cardinality({}) = 0  BY FS_EmptySet
  <2>4. QED  BY <2>2, <2>3, <1>4
<1>7. PICK s : s = StateGlobs  OBVIOUS
<1>8. s \in Seq(Symbols) /\ Len(s) = 2 /\ s[1] = Symbol(Env, StackPointer) /\ s[2] = Symbol(Env, HeapBase)
  BY <1>7, StateGlobsAre
<1>9. /\ d \in Seq(Symbols) /\ Len(d) = 2 + Len(b)
      /\ \A k \in 1 .. 2 : d[k] = s[k]
      /\ \A k \in 1 .. Len(b) : d[2 + k] = b[k]
  <2>a. s \in Seq(Symbols) /\ b \in Seq(Symbols)  BY <1>2, <1>8
  <2>1. /\ s \o b \in Seq(Symbols) /\ Len(s \o b) = Len(s) + Len(b)
        /\ \A k \in 1 .. Len(s) : k \in 1 .. Len(s) + Len(b) /\ (s \o b)[k] = s[k]
        /\ \A k \in 1 .. Len(b) : Len(s) + k \in 1 .. Len(s) + Len(b) /\ (s \o b)[Len(s) + k] = b[k]
    BY <2>a, ConcatAt
  <2>2. d = s \o b  BY <1>5, <1>7
  <2>3. QED  BY <2>1, <2>2, <1>8
<1>10. n = [m EXCEPT !.gimp = g, !.globs = d]
  BY <1>1, <1>3, <1>5 DEF MaterialiseState, StateGlobs
<1>11. /\ n \in Modules /\ n.fimp = m.fimp /\ n.funcs = m.funcs /\ n.exps = m.exps /\ n.table = m.table
       /\ n.start = m.start /\ n.gimp = g /\ n.globs = d
  BY <1>6, <1>9, <1>10 DEF Modules
<1>12. Len(n.gimp) = 0  BY <1>6, <1>11
<1>13. ASSUME NEW i \in Nat, i < NGlobs(m) PROVE i < NGlobs(n) /\ GlobAt(n, i) = GlobAt(m, i)
  <2>1. Len(a) = 2 /\ a[1] = Symbol(Env, StackPointer) /\ a[2] = Symbol(Env, HeapBase)
    <3>1. ~(Len(a) = 0 /\ Len(b) = 0)
      <4>1. i < Len(a) + Len(b)  BY <1>1, <1>13 DEF NGlobs
      <4>2. SUFFICES ASSUME Len(a) = 0, Len(b) = 0 PROVE FALSE  OBVIOUS
      <4>3. i < 0 + 0  BY <4>1, <4>2
      <4>4. QED  BY <4>3
    <3>2. QED  BY <3>1, <1>1 DEF StateOnly
  <2>2. i < 2 + Len(b)  BY <2>1, <1>1, <1>13 DEF NGlobs
  <2>3. NGlobs(n) = 2 + Len(b)  BY <1>2, <1>6, <1>9, <1>11 DEF NGlobs
  <2>4. GlobAt(n, i) = d[i + 1]
    <3>1. GlobAt(n, i) = Numbered(g, d, i)  BY <1>11 DEF GlobAt
    <3>2. i < Len(g) + Len(d) /\ i >= Len(g)  BY <2>2, <1>2, <1>6, <1>9
    <3>a. g \in Seq(Symbols) /\ d \in Seq(Symbols)  BY <1>6, <1>9
    <3>3. Numbered(g, d, i) = d[i - Len(g) + 1]  BY <3>a, <3>2, NumberedAt
    <3>4. i - Len(g) + 1 = i + 1  BY <1>6
    <3>5. QED  BY <3>1, <3>3, <3>4
  <2>5. GlobAt(m, i) = Numbered(a, b, i)  BY <1>1 DEF GlobAt
  <2>6. i < Len(a) + Len(b)  BY <2>1, <2>2
  <2>7. CASE i >= 2
    <3>1. i - Len(a) + 1 \in 1 .. Len(b) /\ Numbered(a, b, i) = b[i - Len(a) + 1]
      BY <2>1, <2>6, <2>7, <1>2, NumberedAt, ZenonT(30)
    <3>2. PICK k \in 1 .. Len(b) : k = i - Len(a) + 1  BY <3>1
    <3>3. 2 + k = i + 1 /\ d[2 + k] = b[k]  BY <3>2, <2>1, <1>9
    <3>4. QED  BY <3>1, <3>2, <3>3, <2>2, <2>3, <2>4, <2>5
  <2>8. CASE i < 2
    <3>1. Numbered(a, b, i) = a[i + 1]  BY <2>1, <2>6, <2>8, <1>2, NumberedAt, ZenonT(30)
    <3>2. i + 1 \in 1 .. 2 /\ (i = 0 \/ i = 1)  BY <2>8
    <3>3. d[i + 1] = s[i + 1]  BY <3>2, <1>9
    <3>4. s[i + 1] = a[i + 1]  BY <3>2, <2>1, <1>8
    <3>5. QED  BY <3>1, <3>3, <3>4, <2>2, <2>3, <2>4, <2>5
  <2>9. QED  BY <2>7, <2>8
<1>14. QED  BY <1>12, <1>13

\* A reference that denotes what it means.
Good(m, U, H, r) ==
  r \in Refs /\ InRange(m, r) /\ (Sure(U, r) => Denotes(m, r) = Meaning(U, H, r.kind, r.sym))

\* A reference in range reaches a function.
LEMMA FuncNumIn ==
  ASSUME NEW m, Whole(m), NEW r \in Refs, InRange(m, r), r.kind # "glob"
  PROVE  FuncNum(m, r) \in Nat /\ FuncNum(m, r) < NFuncs(m)
<1>1. m \in Modules /\ InTable(m) /\ \A q \in AllRefs(m) : InRange(m, q)  BY DEF Whole
<1>2. PICK t : t = m.table  OBVIOUS
<1>3. t \in Seq(Refs) /\ DOMAIN t = 1 .. Len(t) /\ Len(t) \in Nat  BY <1>1, <1>2, ModuleFields
<1>4. r.idx \in Nat /\ r.kind \in {"func", "slot"}  BY DEF Refs
<1>5. CASE r.kind = "func"  BY <1>4, <1>5 DEF InRange, FuncNum
<1>6. CASE r.kind = "slot"
  <2>1. r.idx < Len(t)  BY <1>2, <1>6 DEF InRange
  <2>2. PICK k \in 1 .. Len(t) : k = r.idx + 1  BY <2>1, <1>3, <1>4
  <2>3. t[k] \in Refs /\ t[k].kind = "func" /\ t[k] \in AllRefs(m)
    <3>1. t[k] \in Refs  BY <1>3, Entries
    <3>2. t[k].kind = "func"  BY <1>1, <1>2, <1>3 DEF InTable
    <3>3. t[k] \in AllRefs(m)  BY <1>1, <1>2, AllRefsAre
    <3>4. QED  BY <3>1, <3>2, <3>3
  <2>4. t[k].idx \in Nat /\ t[k].idx < NFuncs(m)  BY <2>3, <1>1 DEF Refs, InRange
  <2>5. FuncNum(m, r) = t[k].idx  BY <2>2, <1>2, <1>6 DEF FuncNum
  <2>6. QED  BY <2>4, <2>5
<1>7. QED  BY <1>4, <1>5, <1>6

\* The same table, and spaces in which the old numbers denote the same.
Widens(m, n, U) ==
  /\ Whole(m) /\ n \in Modules /\ n.table = m.table
  /\ \A i \in Nat : i < NFuncs(m) => i < NFuncs(n) /\ FuncAt(n, i) = FuncAt(m, i)
  /\ \A i \in Nat : i < NGlobs(m) => i < NGlobs(n) /\ (NoneUndefined(U) => GlobAt(n, i) = GlobAt(m, i))

\* A good reference stays good in a module that widens.
LEMMA WidensGood ==
  ASSUME NEW m, NEW n, NEW U, Widens(m, n, U), NEW H, NEW r, Good(m, U, H, r)
  PROVE  Good(n, U, H, r)
<1>1. /\ Whole(m) /\ m \in Modules /\ n \in Modules /\ n.table = m.table
      /\ \A i \in Nat : i < NFuncs(m) => i < NFuncs(n) /\ FuncAt(n, i) = FuncAt(m, i)
      /\ \A i \in Nat : i < NGlobs(m) => i < NGlobs(n) /\ (NoneUndefined(U) => GlobAt(n, i) = GlobAt(m, i))
  BY DEF Widens, Whole
<1>2. r \in Refs /\ InRange(m, r) /\ (Sure(U, r) => Denotes(m, r) = Meaning(U, H, r.kind, r.sym))  BY DEF Good
<1>3. r.idx \in Nat /\ r.kind \in {"func", "glob", "slot"}  BY <1>2 DEF Refs
<1>4. InRange(n, r)
  <2>1. CASE r.kind = "func"  BY <2>1, <1>1, <1>2, <1>3 DEF InRange
  <2>2. CASE r.kind = "glob"  BY <2>2, <1>1, <1>2, <1>3 DEF InRange
  <2>3. CASE r.kind = "slot"  BY <2>3, <1>1, <1>2, <1>3 DEF InRange
  <2>4. QED  BY <1>3, <2>1, <2>2, <2>3
<1>5. ASSUME Sure(U, r) PROVE Denotes(n, r) = Denotes(m, r)
  <2>1. Denotes(n, r) = IF r.kind = "glob" THEN GlobAt(n, r.idx) ELSE FuncAt(n, FuncNum(n, r))
    BY <1>1, <1>2, <1>4, DenotesIs
  <2>2. Denotes(m, r) = IF r.kind = "glob" THEN GlobAt(m, r.idx) ELSE FuncAt(m, FuncNum(m, r))
    BY <1>1, <1>2, DenotesIs
  <2>3. FuncNum(n, r) = FuncNum(m, r)  BY <1>1 DEF FuncNum
  <2>4. CASE r.kind = "glob"
    <3>1. r.idx < NGlobs(m)  BY <2>4, <1>2 DEF InRange
    <3>2. NoneUndefined(U)  BY <2>4, <1>5 DEF Sure
    <3>3. QED  BY <3>1, <3>2, <2>1, <2>2, <2>4, <1>1, <1>3
  <2>5. CASE r.kind # "glob"
    <3>1. FuncNum(m, r) \in Nat /\ FuncNum(m, r) < NFuncs(m)  BY <2>5, <1>1, <1>2, FuncNumIn
    <3>2. QED  BY <3>1, <2>1, <2>2, <2>3, <2>5, <1>1
  <2>6. QED  BY <2>4, <2>5
<1>6. QED  BY <1>2, <1>4, <1>5 DEF Good

\* In a linked module every reference is good.
LEMMA AllGood ==
  ASSUME NEW m, NEW U, NEW H, Whole(m), Surely(m, U, H), NEW r \in AllRefs(m)
  PROVE  Good(m, U, H, r)
<1>1. m \in Modules /\ InRange(m, r) /\ (Sure(U, r) => Denotes(m, r) = Meaning(U, H, r.kind, r.sym))  BY DEF Whole, Surely
<1>2. r \in Refs  BY <1>1, AllRefsAre
<1>3. QED  BY <1>1, <1>2 DEF Good

\* The number of globals is a natural number.
LEMMA NGlobsIs == ASSUME NEW m \in Modules PROVE NGlobs(m) \in Nat
<1>1. Len(m.gimp) \in Nat /\ Len(m.globs) \in Nat  BY ModuleFields
<1>2. PICK a \in Nat, b \in Nat : a = Len(m.gimp) /\ b = Len(m.globs)  BY <1>1
<1>3. NGlobs(m) = a + b  BY <1>2 DEF NGlobs
<1>4. QED  BY <1>3

-----------------------------------------------------------------------------
\* The module with its runtime state.
StateLinked(m, U, H) == Whole(m) /\ Surely(m, U, H) /\ m.start = {} /\ HasState(m, U) /\ Distinct(m.exps)

\* Materialising the runtime state keeps what the references denote.
LEMMA MaterialisedLinked ==
  ASSUME NEW m, NEW U, NEW H, ImportsResolved(m, U, H), Program(U, H),
         NEW n, n = MaterialiseState(m)
  PROVE  StateLinked(n, U, H)
<1>1. Whole(m) /\ m.start = {} /\ Distinct(m.exps) /\ Surely(m, U, H) /\ GlobsLeft(m, U) /\ m \in Modules
  BY DEF ImportsResolved, Whole, Meant, Surely
<1>2. Materialised(m, n)
  <2>1. OnceEach(m.gimp) /\ StateFirst(m)  BY <1>1 DEF GlobsLeft
  <2>2. QED  BY <2>1, <1>1, MaterialiseAny
<1>3. ASSUME NoneUndefined(U)
      PROVE  Len(n.gimp) = 0 /\ \A i \in Nat : i < NGlobs(m) => GlobAt(n, i) = GlobAt(m, i)
  <2>1. StateOnly(m) /\ \A k \in 1 .. Len(m.gimp) : m.gimp[k] \in StateImports  BY <1>1, <1>3, OnlyStateLeft
  <2>2. QED  BY <2>1, <1>1, MaterialiseWorks
<1>4. /\ n \in Modules /\ n.fimp = m.fimp /\ n.funcs = m.funcs /\ n.exps = m.exps /\ n.table = m.table
      /\ n.start = m.start /\ HasState(n, U) /\ NGlobs(n) >= NGlobs(m)
  BY <1>2, <1>3 DEF Materialised, HasState
<1>5. AllRefs(n) = AllRefs(m)  BY <1>4 DEF AllRefs, BodyRefs
<1>6. NFuncs(n) = NFuncs(m) /\ \A i : FuncAt(n, i) = FuncAt(m, i)  BY <1>4 DEF NFuncs, FuncAt, Ids
<1>7. Widens(m, n, U)
  <2>1. ASSUME NEW i \in Nat, i < NGlobs(m)
        PROVE  i < NGlobs(n) /\ (NoneUndefined(U) => GlobAt(n, i) = GlobAt(m, i))
    <3>1. NGlobs(m) \in Nat /\ NGlobs(n) \in Nat  BY <1>1, <1>4, NGlobsIs
    <3>2. i < NGlobs(n)  BY <2>1, <3>1, <1>4
    <3>3. QED  BY <3>2, <2>1, <1>3
  <2>2. QED  BY <2>1, <1>1, <1>4, <1>6 DEF Widens
<1>8. ASSUME NEW r \in AllRefs(n) PROVE Good(n, U, H, r)
  <2>1. Good(m, U, H, r)  BY <1>1, <1>5, <1>8, AllGood
  <2>2. QED  BY <2>1, <1>7, WidensGood
<1>9. Whole(n)  BY <1>1, <1>4, <1>6, <1>8 DEF Whole, InTable, Good
<1>10. Surely(n, U, H)  BY <1>8 DEF Surely, Good
<1>11. QED  BY <1>1, <1>4, <1>9, <1>10 DEF StateLinked

-----------------------------------------------------------------------------
\* Imports put in front.
Behind(S, p, a, b, c, i) ==
  /\ p \in Seq(S) /\ a \in Seq(S) /\ b \in Seq(S) /\ i \in Nat /\ i < Len(a) + Len(b) /\ c = p \o a

\* When imports are put in front, every number moves up by as many.
LEMMA NumberedBehind ==
  ASSUME NEW S, NEW p, NEW a, NEW b, NEW c, NEW i, Behind(S, p, a, b, c, i)
  PROVE  /\ i + Len(p) \in Nat /\ i + Len(p) < Len(c) + Len(b)
         /\ Numbered(c, b, i + Len(p)) = Numbered(a, b, i)
<1>a. p \in Seq(S) /\ a \in Seq(S) /\ b \in Seq(S) /\ i \in Nat /\ i < Len(a) + Len(b) /\ c = p \o a
  BY DEF Behind
<1>1. /\ c \in Seq(S) /\ Len(c) = Len(p) + Len(a) /\ Len(p) \in Nat /\ Len(a) \in Nat
      /\ \A k \in 1 .. Len(a) : c[Len(p) + k] = a[k]
  <2>1. /\ p \o a \in Seq(S) /\ Len(p \o a) = Len(p) + Len(a) /\ Len(p) \in Nat /\ Len(a) \in Nat
        /\ \A k \in 1 .. Len(a) : Len(p) + k \in 1 .. Len(p) + Len(a) /\ (p \o a)[Len(p) + k] = a[k]
    BY <1>a, ConcatAt
  <2>2. QED  BY <2>1, <1>a
<1>2. Len(b) \in Nat  BY <1>a, RangeOf
<1>3. PICK j \in Nat : j = i + Len(p)  BY <1>a, <1>1
<1>4. j < Len(c) + Len(b)  BY <1>a, <1>1, <1>2, <1>3
<1>5. Numbered(c, b, j) = Numbered(a, b, i)
  <2>1. CASE i < Len(a)
    <3>1. Numbered(a, b, i) = a[i + 1] /\ i + 1 \in 1 .. Len(a)  BY <2>1, <1>a, NumberedAt
    <3>2. j < Len(c)  BY <2>1, <1>a, <1>1, <1>3
    <3>3. Numbered(c, b, j) = c[j + 1]  BY <3>2, <1>a, <1>1, <1>4, NumberedAt, ZenonT(30)
    <3>4. PICK k \in 1 .. Len(a) : k = i + 1  BY <3>1
    <3>5. Len(p) + k = j + 1  BY <3>4, <1>a, <1>1, <1>3
    <3>6. QED  BY <3>1, <3>3, <3>4, <3>5, <1>1
  <2>2. CASE i >= Len(a)
    <3>1. Numbered(a, b, i) = b[i - Len(a) + 1]  BY <2>2, <1>a, NumberedAt
    <3>2. j >= Len(c)  BY <2>2, <1>a, <1>1, <1>3
    <3>a. c \in Seq(S) /\ b \in Seq(S)  BY <1>a, <1>1
    <3>3. j - Len(c) + 1 \in 1 .. Len(b) /\ Numbered(c, b, j) = b[j - Len(c) + 1]  BY <3>a, <3>2, <1>4, NumberedAt
    <3>4. j - Len(c) + 1 = i - Len(a) + 1  BY <1>a, <1>1, <1>3
    <3>5. QED  BY <3>1, <3>3, <3>4
  <2>3. QED  BY <2>1, <2>2, <1>a, <1>1
<1>6. QED  BY <1>3, <1>4, <1>5

Upward == [i \in Nat |-> Up(i)]

\* The sys_proc imports shift functions by four.
LEMMA UpIs == Upward \in [Nat -> Nat] /\ \A i \in Nat : Upward[i] = i + 4 /\ Up(i) = i + 4
<1>1. Len(SysProc) = 4  BY SysProcIs
<1>2. \A i \in Nat : Up(i) = i + 4  BY <1>1 DEF Up
<1>3. QED  BY <1>2 DEF Upward

\* A module whose exports of main are gone.
Unexported(m, p) ==
  /\ p \in Modules /\ p.fimp = m.fimp /\ p.gimp = m.gimp /\ p.funcs = m.funcs /\ p.globs = m.globs
  /\ p.table = m.table /\ p.start = m.start
  /\ \A k \in 1 .. Len(p.exps) : \E j \in 1 .. Len(m.exps) : p.exps[k] = m.exps[j]

\* Leaving out some exports.
LEMMA UnexportWorks ==
  ASSUME NEW m \in Modules, NEW K, K \subseteq DOMAIN m.exps, NEW p, p = [m EXCEPT !.exps = Kept(m.exps, K)]
  PROVE  Unexported(m, p)
<1>1. PICK e : e = m.exps  OBVIOUS
<1>2. e \in Seq(Exps) /\ DOMAIN e = 1 .. Len(e) /\ \A k \in 1 .. Len(e) : e[k] \in Exps
  <2>1. e \in Seq(Exps)  BY <1>1, ModuleFields
  <2>2. QED  BY <2>1, Entries
<1>3. PICK d : d = Kept(e, K)  OBVIOUS
<1>4. d \in Seq(Exps) /\ \A n \in 1 .. Len(d) : \E k \in K : d[n] = e[k]
  <2>1. K \subseteq DOMAIN e /\ \A k \in K : e[k] \in Exps  BY <1>1, <1>2
  <2>2. QED  BY <2>1, <1>2, <1>3, KeptOf
<1>5. p = [m EXCEPT !.exps = d]  BY <1>1, <1>3
<1>6. /\ p \in Modules /\ p.fimp = m.fimp /\ p.gimp = m.gimp /\ p.funcs = m.funcs /\ p.globs = m.globs
      /\ p.table = m.table /\ p.start = m.start /\ p.exps = d
  BY <1>4, <1>5 DEF Modules
<1>7. \A n \in 1 .. Len(d) : \E j \in 1 .. Len(e) : d[n] = e[j]  BY <1>1, <1>2, <1>4
<1>8. QED  BY <1>1, <1>6, <1>7 DEF Unexported

\* Leaving out exports changes nothing else.
LEMMA UnexportedLinked ==
  ASSUME NEW m, NEW p, Unexported(m, p), NEW U, NEW H, Whole(m), Surely(m, U, H)
  PROVE  Whole(p) /\ Surely(p, U, H) /\ Widens(m, p, U)
<1>1. /\ m \in Modules /\ p \in Modules /\ p.fimp = m.fimp /\ p.gimp = m.gimp /\ p.funcs = m.funcs
      /\ p.globs = m.globs /\ p.table = m.table /\ p.start = m.start
      /\ \A k \in 1 .. Len(p.exps) : \E j \in 1 .. Len(m.exps) : p.exps[k] = m.exps[j]
  BY DEF Unexported, Whole
<1>2. NFuncs(p) = NFuncs(m) /\ NGlobs(p) = NGlobs(m) /\ \A i : FuncAt(p, i) = FuncAt(m, i) /\ GlobAt(p, i) = GlobAt(m, i)
  BY <1>1 DEF NFuncs, NGlobs, FuncAt, GlobAt, Ids
<1>3. Widens(m, p, U)  BY <1>1, <1>2 DEF Widens
<1>4. ASSUME NEW r \in AllRefs(p) PROVE r \in AllRefs(m)
  <2>1. CASE \E k \in 1 .. Len(p.funcs) : r \in p.funcs[k].refs  BY <2>1, <1>1, AllRefsAre
  <2>2. CASE \E k \in 1 .. Len(p.table) : r = p.table[k]  BY <2>2, <1>1, AllRefsAre
  <2>3. CASE \E k \in 1 .. Len(p.exps) : r = p.exps[k].ref
    <3>1. \E j \in 1 .. Len(m.exps) : r = m.exps[j].ref  BY <2>3, <1>1
    <3>2. QED  BY <3>1, <1>1, AllRefsAre
  <2>4. QED  BY <2>1, <2>2, <2>3, <1>1, AllRefsAre
<1>5. ASSUME NEW r \in AllRefs(p) PROVE Good(p, U, H, r)
  <2>1. Good(m, U, H, r)  BY <1>4, <1>5, AllGood
  <2>2. QED  BY <2>1, <1>3, WidensGood
<1>6. Whole(p)  BY <1>1, <1>2, <1>5 DEF Whole, InTable, Good
<1>7. Surely(p, U, H)  BY <1>5 DEF Surely, Good
<1>8. QED  BY <1>3, <1>6, <1>7

-----------------------------------------------------------------------------
\* The host's functions in front.
LEMMA PrependIs ==
  ASSUME NEW m \in Modules, NEW n, n = PrependSysProc(m)
  PROVE  n = Renumber(m, Upward, Same, Same, SysProc \o m.fimp, m.gimp)
<1>1. PICK F : F = Upward  OBVIOUS
<1>2. PICK r : r = Reindex(m, F, Same, Same)  OBVIOUS
<1>3. n = [r EXCEPT !.fimp = SysProc \o @]  BY <1>1, <1>2 DEF PrependSysProc, Upward
<1>4. PICK fs, es, tb, st : /\ fs = MovedFuncs(m.funcs, F, Same, Same) /\ es = MovedExps(m.exps, F, Same, Same)
                            /\ tb = MovedTable(m.table, F, Same, Same) /\ st = {F[i] : i \in m.start}
  OBVIOUS
<1>5. r = [fimp |-> m.fimp, gimp |-> m.gimp, funcs |-> fs, globs |-> m.globs, exps |-> es, table |-> tb, start |-> st]
  BY <1>2, <1>4, ReindexIs
<1>6. n = [fimp |-> SysProc \o m.fimp, gimp |-> m.gimp, funcs |-> fs, globs |-> m.globs,
           exps |-> es, table |-> tb, start |-> st]
  BY <1>3, <1>5
<1>7. QED  BY <1>1, <1>4, <1>6 DEF Renumber

\* Every function has moved up by four.
MovedUp(m, n) ==
  /\ n \in Modules /\ n.gimp = m.gimp /\ n.globs = m.globs
  /\ NFuncs(n) = NFuncs(m) + 4
  /\ \A i \in Nat : i < NFuncs(m) => FuncAt(n, i + 4) = FuncAt(m, i)
  /\ \A k \in 1 .. 4 : FuncAt(n, k - 1) = SysProc[k]

\* With the sys_proc imports in front, references denote what they did.
LEMMA PrependWorks ==
  ASSUME NEW m, NEW U, NEW H, Whole(m), Surely(m, U, H), NEW n, n = PrependSysProc(m)
  PROVE  Whole(n) /\ Surely(n, U, H) /\ MovedUp(m, n)
<1>1. m \in Modules  BY DEF Whole
<1>2. PICK a, b, p : a = m.fimp /\ b = Ids(m) /\ p = SysProc  OBVIOUS
<1>3. a \in Seq(Symbols) /\ b \in Seq(Symbols) /\ Len(b) = Len(m.funcs) /\ p \in Seq(Symbols) /\ Len(p) = 4
  BY <1>1, <1>2, ModuleFields, IdsOf, SysProcIs
<1>4. PICK c : c = p \o a  OBVIOUS
<1>5. /\ c \in Seq(Symbols) /\ Len(c) = 4 + Len(a) /\ Len(a) \in Nat /\ \A k \in 1 .. 4 : c[k] = p[k]
  <2>a. p \in Seq(Symbols) /\ a \in Seq(Symbols)  BY <1>3
  <2>1. /\ p \o a \in Seq(Symbols) /\ Len(p \o a) = Len(p) + Len(a) /\ Len(a) \in Nat
        /\ \A k \in 1 .. Len(p) : k \in 1 .. Len(p) + Len(a) /\ (p \o a)[k] = p[k]
    BY <2>a, ConcatAt
  <2>2. QED  BY <2>1, <1>3, <1>4
<1>6. PICK F \in [Nat -> Nat] : F = Upward  BY UpIs
<1>7. \A i \in Nat : F[i] = i + 4  BY <1>6, UpIs
<1>8. Renumbers(n, m, F, Same, Same, c, m.gimp)
  <2>1. n = Renumber(m, F, Same, Same, c, m.gimp)  BY <1>1, <1>2, <1>4, <1>6, PrependIs
  <2>2. QED  BY <2>1, <1>1, <1>5, <1>6, SameIs, ModuleFields DEF Renumbers
<1>9. /\ n \in Modules /\ n.fimp = c /\ n.gimp = m.gimp /\ n.globs = m.globs /\ Ids(n) = b
      /\ Len(n.funcs) = Len(m.funcs)
  <2>1. PICK S : S = Same  OBVIOUS
  <2>2. Renumbers(n, m, F, S, S, c, m.gimp)  BY <1>8, <2>1
  <2>3. /\ n \in Modules /\ n.fimp = c /\ n.gimp = m.gimp /\ n.globs = m.globs /\ Ids(n) = Ids(m)
        /\ Len(n.funcs) = Len(m.funcs)
    BY <2>2, RenumberWorks
  <2>4. QED  BY <2>3, <1>2
<1>10. NFuncs(m) = Len(a) + Len(b) /\ NFuncs(n) = NFuncs(m) + 4
  <2>1. NFuncs(m) = Len(a) + Len(b) /\ NFuncs(n) = Len(c) + Len(b)  BY <1>2, <1>3, <1>9 DEF NFuncs
  <2>2. Len(b) \in Nat  BY <1>3, RangeOf
  <2>3. QED  BY <2>1, <2>2, <1>5
<1>11. ASSUME NEW i \in Nat, i < NFuncs(m) PROVE F[i] < NFuncs(n) /\ FuncAt(n, F[i]) = FuncAt(m, i)
  <2>a. p \in Seq(Symbols) /\ a \in Seq(Symbols) /\ b \in Seq(Symbols) /\ i < Len(a) + Len(b)
    BY <1>3, <1>10, <1>11
  <2>1. /\ i + Len(p) \in Nat /\ i + Len(p) < Len(c) + Len(b)
        /\ Numbered(c, b, i + Len(p)) = Numbered(a, b, i)
    <3>1. Behind(Symbols, p, a, b, c, i)  BY <2>a, <1>4 DEF Behind
    <3>2. QED  BY <3>1, NumberedBehind
  <2>2. F[i] = i + Len(p)  BY <1>3, <1>7
  <2>3. NFuncs(n) = Len(c) + Len(b)  BY <1>3, <1>9 DEF NFuncs
  <2>4. QED  BY <2>1, <2>2, <2>3, <1>2, <1>9 DEF FuncAt
<1>12. Moving(m, n, F, Same, c, m.gimp)
  <2>1. ASSUME NEW r \in AllRefs(m), r.kind # "glob" PROVE F[FuncNum(m, r)] < Len(c) + Len(m.funcs)
    <3>1. FuncNum(m, r) \in Nat /\ FuncNum(m, r) < NFuncs(m)  BY <2>1, WholeFuncNum
    <3>2. F[FuncNum(m, r)] < NFuncs(n)  BY <3>1, <1>11
    <3>3. QED  BY <3>2, <1>9 DEF NFuncs
  <2>2. ASSUME NEW r \in AllRefs(m), r.kind = "glob" PROVE Same[r.idx] < Len(m.gimp) + Len(m.globs)
    <3>1. r \in Refs /\ InRange(m, r)  BY <1>1, AllRefsAre DEF Whole
    <3>2. r.idx \in Nat /\ r.idx < NGlobs(m)  BY <3>1, <2>2 DEF Refs, InRange
    <3>3. QED  BY <3>2, SameIs DEF NGlobs
  <2>3. ASSUME NEW i \in m.start PROVE F[i] < Len(c) + Len(m.funcs)
    <3>1. i \in Nat /\ i < NFuncs(m)  BY <1>1, <2>3, ModuleFields DEF Whole
    <3>2. QED  BY <3>1, <1>9, <1>11 DEF NFuncs
  <2>4. QED  BY <2>1, <2>2, <2>3, <1>8 DEF Moving
<1>13. Whole(n) /\ \A q \in AllRefs(n) : \E r \in AllRefs(m) : Was(m, n, F, Same, q, r)
  BY <1>12, MovingWorks
<1>14. ASSUME NEW q \in AllRefs(n), Sure(U, q) PROVE Denotes(n, q) = Meaning(U, H, q.kind, q.sym)
  <2>1. PICK r \in AllRefs(m) : Was(m, n, F, Same, q, r)  BY <1>13
  <2>2. q.sym = r.sym /\ q.kind = r.kind /\ Denotes(m, r) = Meaning(U, H, r.kind, r.sym)
    BY <2>1, <1>14 DEF Was, Surely, Sure
  <2>3. CASE q.kind = "glob"
    <3>1. /\ r.idx \in Nat /\ Denotes(m, r) = GlobAt(m, r.idx) /\ Denotes(n, q) = GlobAt(n, Same[r.idx])
      BY <2>1, <2>3 DEF Was
    <3>2. GlobAt(n, Same[r.idx]) = GlobAt(m, r.idx)  BY <3>1, <1>9, SameIs DEF GlobAt
    <3>3. QED  BY <3>1, <3>2, <2>2
  <2>4. CASE q.kind # "glob"
    <3>1. /\ FuncNum(m, r) \in Nat /\ FuncNum(m, r) < NFuncs(m)
          /\ Denotes(m, r) = FuncAt(m, FuncNum(m, r)) /\ Denotes(n, q) = FuncAt(n, F[FuncNum(m, r)])
      BY <2>1, <2>4 DEF Was
    <3>2. QED  BY <3>1, <1>11, <2>2
  <2>5. QED  BY <2>3, <2>4
<1>15. MovedUp(m, n)
  <2>1. \A i \in Nat : i < NFuncs(m) => FuncAt(n, i + 4) = FuncAt(m, i)  BY <1>7, <1>11
  <2>2. ASSUME NEW k \in 1 .. 4 PROVE FuncAt(n, k - 1) = SysProc[k]
    <3>0. PICK l \in Nat : l = Len(a)  BY <1>5
    <3>a. Len(c) = 4 + l  BY <3>0, <1>5
    <3>1. k - 1 \in Nat /\ k - 1 < Len(c) /\ Len(c) \in Nat  BY <3>a
    <3>2. Len(b) \in Nat  BY <1>3, RangeOf
    <3>3. PICK i \in Nat : i = k - 1  BY <3>1
    <3>4. i < Len(c) /\ i < Len(c) + Len(b)  BY <3>1, <3>2, <3>3
    <3>5. c \in Seq(Symbols) /\ b \in Seq(Symbols)  BY <1>3, <1>5
    <3>6. i + 1 \in 1 .. Len(c) /\ Numbered(c, b, i) = c[i + 1]  BY <3>4, <3>5, NumberedAt
    <3>a1. c[k] = p[k]  BY <1>5
    <3>7. i + 1 = k /\ c[k] = p[k]  BY <3>3, <3>a1
    <3>8. QED  BY <3>3, <3>6, <3>7, <1>2, <1>9 DEF FuncAt
  <2>3. QED  BY <2>1, <2>2, <1>9, <1>10 DEF MovedUp
<1>16. QED  BY <1>13, <1>14, <1>15 DEF Surely

\* A function, the start section and an export are added.
Adds(m, n, b, e) ==
  /\ Whole(m) /\ b \in Bodies /\ b.id = StartWrapper /\ e \in Exps
  /\ n = [m EXCEPT !.funcs = Append(@, b), !.start = {Len(m.fimp) + Len(m.funcs)}, !.exps = Append(@, e)]

\* What adding the wrapper changes.
LEMMA AddsWorks ==
  ASSUME NEW m, NEW n, NEW b, NEW e, Adds(m, n, b, e), NEW U
  PROVE  /\ Widens(m, n, U) /\ n.start = {NFuncs(m)} /\ NFuncs(m) \in Nat /\ NFuncs(m) < NFuncs(n)
         /\ FuncAt(n, NFuncs(m)) = StartWrapper
         /\ \A q \in AllRefs(n) : q \in AllRefs(m) \/ q \in b.refs \/ q = e.ref
<1>1. /\ Whole(m) /\ m \in Modules /\ b \in Bodies /\ b.id = StartWrapper /\ e \in Exps
      /\ n = [m EXCEPT !.funcs = Append(m.funcs, b), !.start = {Len(m.fimp) + Len(m.funcs)},
                       !.exps = Append(m.exps, e)]
  BY DEF Adds, Whole
<1>2. PICK f, x, t : f = m.funcs /\ x = m.exps /\ t = m.fimp  OBVIOUS
<1>3. f \in Seq(Bodies) /\ x \in Seq(Exps) /\ t \in Seq(Symbols) /\ Len(f) \in Nat /\ Len(x) \in Nat /\ Len(t) \in Nat
  BY <1>1, <1>2, ModuleFields
<1>4. PICK g, y : g = Append(f, b) /\ y = Append(x, e)  OBVIOUS
<1>5. /\ g \in Seq(Bodies) /\ Len(g) = Len(f) + 1 /\ g[Len(f) + 1] = b /\ \A k \in 1 .. Len(f) : g[k] = f[k]
  BY <1>1, <1>3, <1>4
<1>6. /\ y \in Seq(Exps) /\ Len(y) = Len(x) + 1 /\ y[Len(x) + 1] = e /\ \A k \in 1 .. Len(x) : y[k] = x[k]
  BY <1>1, <1>3, <1>4
<1>7. PICK st : st = {Len(t) + Len(f)}  OBVIOUS
<1>8. st \subseteq Nat  BY <1>3, <1>7
<1>9. n = [m EXCEPT !.funcs = g, !.start = st, !.exps = y]  BY <1>1, <1>2, <1>4, <1>7
<1>10. /\ n \in Modules /\ n.fimp = m.fimp /\ n.gimp = m.gimp /\ n.funcs = g /\ n.globs = m.globs
       /\ n.exps = y /\ n.table = m.table /\ n.start = st
  BY <1>1, <1>5, <1>6, <1>8, <1>9 DEF Modules
<1>11. PICK c, d : c = Ids(m) /\ d = Ids(n)  OBVIOUS
<1>12. /\ c \in Seq(Symbols) /\ Len(c) = Len(f) /\ d \in Seq(Symbols) /\ Len(d) = Len(f) + 1
       /\ \A k \in 1 .. Len(f) : d[k] = c[k]
       /\ d[Len(f) + 1] = StartWrapper
  <2>1. c \in Seq(Symbols) /\ Len(c) = Len(f) /\ \A k \in 1 .. Len(f) : c[k] = f[k].id
    BY <1>1, <1>2, <1>11, IdsOf
  <2>2. d \in Seq(Symbols) /\ Len(d) = Len(g) /\ \A k \in 1 .. Len(g) : d[k] = g[k].id
    BY <1>10, <1>11, IdsOf
  <2>3. \A k \in 1 .. Len(f) : k \in 1 .. Len(g)  BY <1>3, <1>5
  <2>4. Len(f) + 1 \in 1 .. Len(g)  BY <1>3, <1>5
  <2>5. QED  BY <2>1, <2>2, <2>3, <2>4, <1>1, <1>5
<1>13. PICK l \in Nat : l = Len(f)  BY <1>3
<1>14. NFuncs(m) = Len(t) + l /\ NFuncs(n) = Len(t) + l + 1
  <2>1. NFuncs(m) = Len(t) + Len(f) /\ NFuncs(n) = Len(t) + Len(g)  BY <1>2, <1>10 DEF NFuncs
  <2>2. Len(g) = l + 1 /\ Len(t) \in Nat  BY <1>3, <1>5, <1>13
  <2>3. QED  BY <2>1, <2>2, <1>13
<1>15. ASSUME NEW i \in Nat, i < NFuncs(m) PROVE i < NFuncs(n) /\ FuncAt(n, i) = FuncAt(m, i)
  <2>1. FuncAt(m, i) = Numbered(t, c, i) /\ FuncAt(n, i) = Numbered(t, d, i)  BY <1>2, <1>10, <1>11 DEF FuncAt
  <2>2. i < Len(t) + Len(c) /\ i < Len(t) + Len(d)  BY <1>3, <1>12, <1>13, <1>14, <1>15
  <2>a. t \in Seq(Symbols) /\ c \in Seq(Symbols) /\ d \in Seq(Symbols)  BY <1>3, <1>12
  <2>3. CASE i < Len(t)
    <3>1. Numbered(t, c, i) = t[i + 1] /\ Numbered(t, d, i) = t[i + 1]  BY <2>a, <2>2, <2>3, NumberedAt
    <3>2. QED  BY <3>1, <2>1, <1>3, <1>14, <1>15
  <2>4. CASE i >= Len(t)
    <3>1. i - Len(t) + 1 \in 1 .. Len(c) /\ Numbered(t, c, i) = c[i - Len(t) + 1]  BY <2>a, <2>2, <2>4, NumberedAt
    <3>2. i - Len(t) + 1 \in 1 .. Len(d) /\ Numbered(t, d, i) = d[i - Len(t) + 1]  BY <2>a, <2>2, <2>4, NumberedAt
    <3>3. d[i - Len(t) + 1] = c[i - Len(t) + 1]  BY <3>1, <1>12
    <3>4. QED  BY <3>1, <3>2, <3>3, <2>1, <1>3, <1>14, <1>15
  <2>5. QED  BY <2>3, <2>4, <1>3
<1>16. FuncAt(n, NFuncs(m)) = StartWrapper
  <2>1. PICK i \in Nat : i = NFuncs(m)  BY <1>3, <1>14
  <2>2. i >= Len(t) /\ i < Len(t) + Len(d) /\ i - Len(t) + 1 = Len(f) + 1  BY <2>1, <1>3, <1>12, <1>13, <1>14
  <2>3. t \in Seq(Symbols) /\ d \in Seq(Symbols)  BY <1>3, <1>12
  <2>4. i - Len(t) + 1 \in 1 .. Len(d) /\ Numbered(t, d, i) = d[i - Len(t) + 1]  BY <2>2, <2>3, NumberedAt
  <2>5. FuncAt(n, i) = Numbered(t, d, i)  BY <1>2, <1>10, <1>11 DEF FuncAt
  <2>6. QED  BY <2>1, <2>2, <2>4, <2>5, <1>12
<1>17. Widens(m, n, U)
  <2>1. NGlobs(n) = NGlobs(m) /\ \A i : GlobAt(n, i) = GlobAt(m, i)  BY <1>10 DEF NGlobs, GlobAt
  <2>2. QED  BY <2>1, <1>1, <1>10, <1>15 DEF Widens
<1>18. ASSUME NEW q \in AllRefs(n) PROVE q \in AllRefs(m) \/ q \in b.refs \/ q = e.ref
  <2>1. CASE \E k \in 1 .. Len(n.funcs) : q \in n.funcs[k].refs
    <3>1. PICK k \in 1 .. Len(g) : q \in g[k].refs  BY <2>1, <1>10
    <3>2. k \in 1 .. Len(f) \/ k = Len(f) + 1  BY <1>3, <1>5
    <3>3. CASE k \in 1 .. Len(f)
      <4>1. q \in m.funcs[k].refs /\ k \in 1 .. Len(m.funcs)  BY <3>1, <3>3, <1>2, <1>5
      <4>2. q \in AllRefs(m)  BY <4>1, <1>1, AllRefsAre
      <4>3. QED  BY <4>2
    <3>4. CASE k = Len(f) + 1  BY <3>1, <3>4, <1>5
    <3>5. QED  BY <3>2, <3>3, <3>4
  <2>2. CASE \E k \in 1 .. Len(n.table) : q = n.table[k]
    <3>1. \E k \in 1 .. Len(m.table) : q = m.table[k]  BY <2>2, <1>10
    <3>2. q \in AllRefs(m)  BY <3>1, <1>1, AllRefsAre
    <3>3. QED  BY <3>2
  <2>3. CASE \E k \in 1 .. Len(n.exps) : q = n.exps[k].ref
    <3>1. PICK k \in 1 .. Len(y) : q = y[k].ref  BY <2>3, <1>10
    <3>2. k \in 1 .. Len(x) \/ k = Len(x) + 1  BY <1>3, <1>6
    <3>3. CASE k \in 1 .. Len(x)
      <4>1. q = m.exps[k].ref /\ k \in 1 .. Len(m.exps)  BY <3>1, <3>3, <1>2, <1>6
      <4>2. q \in AllRefs(m)  BY <4>1, <1>1, AllRefsAre
      <4>3. QED  BY <4>2
    <3>4. CASE k = Len(x) + 1  BY <3>1, <3>4, <1>6
    <3>5. QED  BY <3>2, <3>3, <3>4
  <2>4. QED  BY <2>1, <2>2, <2>3, <1>10, AllRefsAre
<1>19. n.start = {NFuncs(m)}  BY <1>7, <1>10, <1>13, <1>14
<1>20. NFuncs(m) \in Nat /\ NFuncs(m) < NFuncs(n)  BY <1>3, <1>13, <1>14
<1>21. QED  BY <1>16, <1>17, <1>18, <1>19, <1>20

\* A wrapper of good references leaves a linked module.
LEMMA StartLinked ==
  ASSUME NEW m, NEW n, NEW b, NEW e, Adds(m, n, b, e), NEW U, NEW H, Surely(m, U, H),
         \A q \in b.refs \cup {e.ref} : Good(m, U, H, q)
  PROVE  Linked(n, U, H)
<1>1. /\ Widens(m, n, U) /\ n.start = {NFuncs(m)} /\ NFuncs(m) \in Nat /\ NFuncs(m) < NFuncs(n)
      /\ FuncAt(n, NFuncs(m)) = StartWrapper
      /\ \A q \in AllRefs(n) : q \in AllRefs(m) \/ q \in b.refs \/ q = e.ref
  BY AddsWorks
<1>2. Whole(m)  BY DEF Adds
<1>3. ASSUME NEW q \in AllRefs(n) PROVE Good(n, U, H, q)
  <2>1. Good(m, U, H, q)
    <3>1. CASE q \in AllRefs(m)  BY <3>1, <1>2, AllGood
    <3>2. CASE q \in b.refs \/ q = e.ref  BY <3>2
    <3>3. QED  BY <3>1, <3>2, <1>1, <1>3
  <2>2. QED  BY <2>1, <1>1, WidensGood
<1>4. Whole(n)
  <2>1. n \in Modules /\ InTable(n)  BY <1>1, <1>2 DEF Widens, Whole, InTable
  <2>2. QED  BY <2>1, <1>1, <1>3 DEF Whole, Good
<1>5. Surely(n, U, H)  BY <1>3 DEF Surely, Good
<1>6. QED  BY <1>1, <1>4, <1>5 DEF Linked

ShiftedRef(r) == [r EXCEPT !.idx = Up(@)]
MainOf(m) == CHOOSE r \in FuncExport(m, Main) : TRUE
NotMain(m) == {k \in DOMAIN m.exps : ~(m.exps[k].name = Main /\ m.exps[k].ref.kind = "func")}
ShiftedRefs(R) == {ShiftedRef(r) : r \in R}

\* AddCrt0, step by step.
LEMMA AddCrt0Is ==
  ASSUME NEW m
  PROVE  AddCrt0(m) = AddStart(PrependSysProc([m EXCEPT !.exps = Kept(m.exps, NotMain(m))]),
                               ShiftedRef(MainOf(m)), m.funcs[MainOf(m).idx - Len(m.fimp) + 1].argv,
                               ShiftedRefs(FuncExport(m, Exit)), ShiftedRefs(FuncExport(m, StdioExit)))
BY DEF AddCrt0, ShiftedRef, MainOf, NotMain, ShiftedRefs

\* A function found by name is an exported one.
LEMMA FuncExportIs ==
  ASSUME NEW m \in Modules, NEW x, NEW r \in FuncExport(m, x)
  PROVE  /\ r \in AllRefs(m) /\ r \in Refs /\ r.kind = "func"
         /\ \E k \in 1 .. Len(m.exps) : m.exps[k].name = x /\ m.exps[k].ref = r
<1>1. PICK e : e = m.exps  OBVIOUS
<1>2. DOMAIN e = 1 .. Len(e)  BY <1>1, ModuleFields
<1>3. PICK k \in 1 .. Len(e) : e[k].name = x /\ e[k].ref.kind = "func" /\ e[k].ref = r
  BY <1>1, <1>2 DEF FuncExport
<1>4. r \in AllRefs(m)  BY <1>1, <1>3, AllRefsAre
<1>5. r \in Refs  BY <1>4, AllRefsAre
<1>6. QED  BY <1>1, <1>3, <1>4, <1>5

\* The number of functions.
LEMMA NFuncsIs == ASSUME NEW m \in Modules PROVE NFuncs(m) \in Nat
<1>1. Len(m.fimp) \in Nat /\ Len(m.funcs) \in Nat  BY ModuleFields
<1>2. PICK a \in Nat, b \in Nat : a = Len(m.fimp) /\ b = Len(m.funcs)  BY <1>1
<1>3. NFuncs(m) = a + b  BY <1>2 DEF NFuncs
<1>4. QED  BY <1>3

\* The main that is found is a definition.
LEMMA MainIs ==
  ASSUME NEW m, Whole(m), Distinct(m.exps), HasMain(m)
  PROVE  /\ MainOf(m) \in AllRefs(m) /\ MainOf(m).kind = "func"
         /\ m.funcs[MainOf(m).idx - Len(m.fimp) + 1].argv \in BOOLEAN
<1>1. m \in Modules  BY DEF Whole
<1>2. PICK E : E = FuncExport(m, Main)  OBVIOUS
<1>3. PICK p \in E : p.idx >= Len(m.fimp)  BY <1>2 DEF HasMain
<1>4. PICK r : r = MainOf(m)  OBVIOUS
<1>5. r \in E  BY <1>2, <1>3, <1>4 DEF MainOf
<1>6. PICK e : e = m.exps  OBVIOUS
<1>7. /\ r \in AllRefs(m) /\ r \in Refs /\ r.kind = "func"
      /\ \E k \in 1 .. Len(e) : e[k].name = Main /\ e[k].ref = r
  BY <1>1, <1>2, <1>5, <1>6, FuncExportIs
<1>8. \E k \in 1 .. Len(e) : e[k].name = Main /\ e[k].ref = p  BY <1>1, <1>2, <1>3, <1>6, FuncExportIs
<1>9. PICK j \in 1 .. Len(e) : e[j].name = Main /\ e[j].ref = r  BY <1>7
<1>10. PICK k \in 1 .. Len(e) : e[k].name = Main /\ e[k].ref = p  BY <1>8
<1>11. j = k  BY <1>6, <1>9, <1>10 DEF Distinct
<1>12. r = p  BY <1>9, <1>10, <1>11
<1>13. r.idx \in Nat /\ r.idx >= Len(m.fimp) /\ r.idx < Len(m.fimp) + Len(m.funcs)
  <2>1. InRange(m, r)  BY <1>7 DEF Whole
  <2>2. QED  BY <2>1, <1>3, <1>7, <1>12 DEF Refs, InRange, NFuncs
<1>14. PICK f, l, i : f = m.funcs /\ l = Len(m.fimp) /\ i = r.idx  OBVIOUS
<1>15. f \in Seq(Bodies) /\ l \in Nat /\ Len(f) \in Nat  BY <1>1, <1>14, ModuleFields
<1>a. i \in Nat /\ i >= l /\ i < l + Len(f)  BY <1>13, <1>14
<1>16. i - l + 1 \in 1 .. Len(f)  BY <1>a, <1>15
<1>17. f[i - l + 1] \in Bodies  BY <1>15, <1>16, Entries
<1>18. f[i - l + 1].argv \in BOOLEAN  BY <1>17 DEF Bodies
<1>19. QED  BY <1>4, <1>7, <1>14, <1>18

-----------------------------------------------------------------------------
\* A reference found before the shift, shifted.
Shifts(m, p, n, U, H) == Whole(m) /\ Surely(m, U, H) /\ Unexported(m, p) /\ MovedUp(p, n)

\* The numbers of main, exit and the flush, shifted by hand, are right after the shift.
LEMMA ShiftedGood ==
  ASSUME NEW m, NEW p, NEW n, NEW U, NEW H, Shifts(m, p, n, U, H), NEW r \in AllRefs(m), r.kind = "func"
  PROVE  Good(n, U, H, ShiftedRef(r))
<1>1. Good(m, U, H, r) /\ Unexported(m, p) /\ MovedUp(p, n) /\ m \in Modules  BY AllGood DEF Shifts, Whole
<1>2. r \in Refs /\ InRange(m, r) /\ Denotes(m, r) = Meaning(U, H, "func", r.sym)  BY <1>1 DEF Good, Sure
<1>3. PICK i \in Nat : i = r.idx  BY <1>2 DEF Refs
<1>4. i < NFuncs(m) /\ Denotes(m, r) = FuncAt(m, i)
  <2>1. Denotes(m, r) = FuncAt(m, FuncNum(m, r))  BY <1>1, <1>2, DenotesIs
  <2>2. QED  BY <2>1, <1>2, <1>3 DEF FuncNum, InRange
<1>5. NFuncs(p) = NFuncs(m) /\ FuncAt(p, i) = FuncAt(m, i)  BY <1>1 DEF Unexported, NFuncs, FuncAt, Ids
<1>6. PICK q : q = ShiftedRef(r)  OBVIOUS
<1>7. q \in Refs /\ q.kind = "func" /\ q.sym = r.sym /\ q.idx = i + 4
  <2>1. q = [r EXCEPT !.idx = Up(r.idx)]  BY <1>6 DEF ShiftedRef
  <2>2. Up(r.idx) = i + 4  BY <1>3, UpIs
  <2>3. PICK j \in Nat : j = i + 4  OBVIOUS
  <2>4. q = [r EXCEPT !.idx = j]  BY <2>1, <2>2, <2>3
  <2>5. QED  BY <2>3, <2>4, <1>2 DEF Refs
<1>8. NFuncs(m) \in Nat  BY <1>1, NFuncsIs
<1>9. n \in Modules /\ NFuncs(n) = NFuncs(m) + 4 /\ FuncAt(n, i + 4) = FuncAt(m, i)
  BY <1>1, <1>4, <1>5 DEF MovedUp
<1>10. InRange(n, q)  BY <1>4, <1>7, <1>8, <1>9 DEF InRange
<1>11. Denotes(n, q) = FuncAt(n, i + 4)
  <2>1. Denotes(n, q) = FuncAt(n, FuncNum(n, q))  BY <1>7, <1>9, <1>10, DenotesIs
  <2>2. QED  BY <2>1, <1>7 DEF FuncNum
<1>12. QED  BY <1>2, <1>4, <1>6, <1>7, <1>9, <1>10, <1>11 DEF Good

\* The wrapper's calls of the host, and its stack pointer.
LEMMA HostGood ==
  ASSUME NEW p, NEW n, p \in Modules, MovedUp(p, n), NEW U, NEW H, NEW k \in 1 .. 4
  PROVE  Good(n, U, H, Ref("func", k - 1, SysProc[k]))
<1>1. PICK s \in Symbols : s = SysProc[k]  BY SysProcIs
<1>2. s \in Range(SysProc)
  <2>1. SysProc \in Seq(Symbols) /\ Len(SysProc) = 4  BY SysProcIs
  <2>2. QED  BY <2>1, <1>1, RangeOf
<1>3. PICK i \in Nat : i = k - 1  OBVIOUS
<1>4. PICK q : q = Ref("func", i, s)  OBVIOUS
<1>5. q \in Refs /\ q.kind = "func" /\ q.idx = i /\ q.sym = s  BY <1>4, RefIs
<1>6. NFuncs(p) \in Nat  BY NFuncsIs
<1>7. n \in Modules /\ i < NFuncs(n) /\ FuncAt(n, i) = s  BY <1>1, <1>3, <1>6 DEF MovedUp
<1>8. InRange(n, q)  BY <1>5, <1>7 DEF InRange
<1>9. Denotes(n, q) = s
  <2>1. Denotes(n, q) = FuncAt(n, FuncNum(n, q))  BY <1>5, <1>7, <1>8, DenotesIs
  <2>2. QED  BY <2>1, <1>5, <1>7 DEF FuncNum
<1>10. Meaning(U, H, "func", s) = s  BY <1>2, MeaningProvided
<1>11. QED  BY <1>1, <1>3, <1>4, <1>5, <1>8, <1>9, <1>10 DEF Good

\* Global 0 is the stack pointer.
LEMMA StackGood ==
  ASSUME NEW p, NEW n, MovedUp(p, n), NEW U, HasState(p, U), NEW H
  PROVE  Good(n, U, H, Ref("glob", 0, Symbol(Env, StackPointer)))
<1>1. PICK s : s = Symbol(Env, StackPointer)  OBVIOUS
<1>2. s \in Symbols /\ s \in StateImports  BY <1>1, StateIs
<1>3. PICK q : q = Ref("glob", 0, s)  OBVIOUS
<1>4. q \in Refs /\ q.kind = "glob" /\ q.idx = 0 /\ q.sym = s  BY <1>2, <1>3, RefIs
<1>5. PICK a, b : a = n.gimp /\ b = n.globs  OBVIOUS
<1>6. n \in Modules /\ (NoneUndefined(U) => Len(a) = 0) /\ Len(b) >= 2 /\ b[1] = s  BY <1>1, <1>5 DEF MovedUp, HasState
<1>7. a \in Seq(Symbols) /\ b \in Seq(Symbols) /\ Len(a) \in Nat /\ Len(b) \in Nat  BY <1>5, <1>6, ModuleFields
<1>8. InRange(n, q)
  <2>1. PICK k, l \in Nat : k = Len(a) /\ l = Len(b)  BY <1>7
  <2>2. l >= 2 /\ NGlobs(n) = k + l  BY <2>1, <1>5, <1>6 DEF NGlobs
  <2>3. 0 < NGlobs(n)  BY <2>2
  <2>4. QED  BY <2>3, <1>4 DEF InRange
<1>9. ASSUME Sure(U, q) PROVE Denotes(n, q) = s
  <2>0. NoneUndefined(U)  BY <1>4, <1>9 DEF Sure
  <2>1. Denotes(n, q) = GlobAt(n, 0)  BY <1>4, <1>6, <1>8, DenotesIs
  <2>2. GlobAt(n, 0) = Numbered(a, b, 0)  BY <1>5 DEF GlobAt
  <2>3. DOMAIN b = 1 .. Len(b) /\ 1 \in DOMAIN b  BY <1>6, <1>7
  <2>4. PICK l \in Nat : l = Len(a) /\ l = 0  BY <2>0, <1>6
  <2>5. ~(0 < l) /\ 0 - l + 1 = 1  BY <2>4
  <2>6. Numbered(a, b, 0) = b[1]  BY <2>3, <2>4, <2>5 DEF Numbered, At
  <2>7. QED  BY <2>1, <2>2, <2>6, <1>6
<1>10. Meaning(U, H, "glob", s) = s  BY <1>2, MeaningProvided
<1>11. QED  BY <1>1, <1>3, <1>4, <1>8, <1>9, <1>10 DEF Good

\* What the wrapper refers to.
LEMMA WrapperIs ==
  ASSUME NEW main, NEW argv \in BOOLEAN, NEW exit, NEW flush, NEW q \in WrapperRefs(main, argv, exit, flush)
  PROVE  \/ q = main \/ q \in exit \/ q \in flush
         \/ \E k \in 1 .. 4 : q = Ref("func", k - 1, SysProc[k])
         \/ q = Ref("glob", 0, Symbol(Env, StackPointer))
<1>1. PICK h1, h2, h3, h4, g : /\ h1 = Ref("func", 1 - 1, SysProc[1]) /\ h2 = Ref("func", 2 - 1, SysProc[2])
                               /\ h3 = Ref("func", 3 - 1, SysProc[3]) /\ h4 = Ref("func", 4 - 1, SysProc[4])
                               /\ g = Ref("glob", 0, Symbol(Env, StackPointer))
  OBVIOUS
<1>2. q \in {main} \cup exit \cup (IF exit = {} THEN {h4} \cup flush ELSE {})
                   \cup (IF argv THEN {h1, h2, h3, g} ELSE {})
  BY <1>1 DEF WrapperRefs
<1>3. q = main \/ q \in exit \/ q \in flush \/ q = h1 \/ q = h2 \/ q = h3 \/ q = h4 \/ q = g
  <2>1. CASE exit = {} /\ argv  BY <2>1, <1>2
  <2>2. CASE exit # {} /\ argv  BY <2>2, <1>2
  <2>3. CASE exit = {} /\ ~argv  BY <2>3, <1>2
  <2>4. CASE exit # {} /\ ~argv  BY <2>4, <1>2
  <2>5. QED  BY <2>1, <2>2, <2>3, <2>4
<1>4. 1 \in 1 .. 4 /\ 2 \in 1 .. 4 /\ 3 \in 1 .. 4 /\ 4 \in 1 .. 4  OBVIOUS
<1>5. ASSUME q = h1 \/ q = h2 \/ q = h3 \/ q = h4 PROVE \E k \in 1 .. 4 : q = Ref("func", k - 1, SysProc[k])
  BY <1>1, <1>4, <1>5
<1>6. QED  BY <1>1, <1>3, <1>5

WrapperBody(main, argv, exit, flush) ==
  [id |-> StartWrapper, argv |-> FALSE, refs |-> WrapperRefs(main, argv, exit, flush)]
MainExport(main) == [name |-> Main, ref |-> main]

\* The body of the start wrapper.
LEMMA WrapperBodyIs ==
  ASSUME NEW R, R \subseteq Refs, NEW b, b = [id |-> StartWrapper, argv |-> FALSE, refs |-> R]
  PROVE  b \in Bodies /\ b.id = StartWrapper /\ b.refs = R
<1>1. StartWrapper \in Symbols
  <2>1. "crt0" \in Text /\ "start" \in Text  BY DEF Text
  <2>2. QED  BY <2>1, SymbolIs DEF StartWrapper
<1>2. PICK f \in BOOLEAN : f = FALSE  OBVIOUS
<1>3. b = [id |-> StartWrapper, argv |-> f, refs |-> R]  BY <1>2
<1>4. QED  BY <1>1, <1>2, <1>3 DEF Bodies

\* AddStart, with the wrapper's body.
LEMMA AddStartIs ==
  ASSUME NEW m, NEW main, NEW argv, NEW exit, NEW flush
  PROVE  AddStart(m, main, argv, exit, flush) =
           [m EXCEPT !.funcs = Append(@, WrapperBody(main, argv, exit, flush)),
                     !.start = {Len(m.fimp) + Len(m.funcs)},
                     !.exps = Append(@, MainExport(main))]
BY DEF AddStart, WrapperBody, MainExport

\* The start-up code: the wrapper's references denote what they mean.
LEMMA Crt0Works ==
  ASSUME NEW m, NEW U, NEW H, StateLinked(m, U, H), HasMain(m), NEW n, n = AddCrt0(m)
  PROVE  Linked(n, U, H)
<1>1. Whole(m) /\ Surely(m, U, H) /\ m.start = {} /\ HasState(m, U) /\ Distinct(m.exps) /\ m \in Modules
  BY DEF StateLinked, Whole
<1>2. PICK p : p = [m EXCEPT !.exps = Kept(m.exps, NotMain(m))]  OBVIOUS
<1>3. PICK s : s = PrependSysProc(p)  OBVIOUS
<1>4. PICK main, argv, exit, flush :
        /\ main = ShiftedRef(MainOf(m)) /\ argv = m.funcs[MainOf(m).idx - Len(m.fimp) + 1].argv
        /\ exit = ShiftedRefs(FuncExport(m, Exit)) /\ flush = ShiftedRefs(FuncExport(m, StdioExit))
  OBVIOUS
<1>5. Unexported(m, p)
  <2>1. PICK K : K = NotMain(m)  OBVIOUS
  <2>2. K \subseteq DOMAIN m.exps  BY <2>1 DEF NotMain
  <2>3. p = [m EXCEPT !.exps = Kept(m.exps, K)]  BY <2>1, <1>2
  <2>4. QED  BY <2>2, <2>3, <1>1, UnexportWorks
<1>6. Whole(p) /\ Surely(p, U, H) /\ p \in Modules /\ HasState(p, U)
  <2>1. Whole(p) /\ Surely(p, U, H)  BY <1>1, <1>5, UnexportedLinked
  <2>2. QED  BY <2>1, <1>1, <1>5 DEF Unexported, HasState
<1>7. Whole(s) /\ Surely(s, U, H) /\ MovedUp(p, s)  BY <1>3, <1>6, PrependWorks
<1>8. Shifts(m, p, s, U, H)  BY <1>1, <1>5, <1>7 DEF Shifts
<1>9. Good(s, U, H, main) /\ argv \in BOOLEAN
  <2>1. PICK r : r = MainOf(m)  OBVIOUS
  <2>2. r \in AllRefs(m) /\ r.kind = "func" /\ argv \in BOOLEAN  BY <2>1, <1>1, <1>4, MainIs
  <2>3. Good(s, U, H, ShiftedRef(r))  BY <2>2, <1>8, ShiftedGood
  <2>4. QED  BY <2>1, <2>2, <2>3, <1>4
<1>10. ASSUME NEW x, NEW q \in ShiftedRefs(FuncExport(m, x)) PROVE Good(s, U, H, q)
  <2>1. PICK r \in FuncExport(m, x) : q = ShiftedRef(r)  BY <1>10 DEF ShiftedRefs
  <2>2. r \in AllRefs(m) /\ r.kind = "func"  BY <1>1, FuncExportIs
  <2>3. Good(s, U, H, ShiftedRef(r))  BY <2>2, <1>8, ShiftedGood
  <2>4. QED  BY <2>1, <2>3
<1>11. \A q \in exit \cup flush : Good(s, U, H, q)
  <2>1. \A q \in ShiftedRefs(FuncExport(m, Exit)) : Good(s, U, H, q)  BY <1>10
  <2>2. \A q \in ShiftedRefs(FuncExport(m, StdioExit)) : Good(s, U, H, q)  BY <1>10
  <2>3. QED  BY <2>1, <2>2, <1>4
<1>12. PICK R : R = WrapperRefs(main, argv, exit, flush)  OBVIOUS
<1>13. ASSUME NEW q \in R PROVE Good(s, U, H, q)
  <2>1. \/ q = main \/ q \in exit \/ q \in flush
        \/ \E k \in 1 .. 4 : q = Ref("func", k - 1, SysProc[k])
        \/ q = Ref("glob", 0, Symbol(Env, StackPointer))
    BY <1>9, <1>12, <1>13, WrapperIs
  <2>2. CASE q = main  BY <2>2, <1>9
  <2>3. CASE q \in exit \/ q \in flush  BY <2>3, <1>11
  <2>4. CASE \E k \in 1 .. 4 : q = Ref("func", k - 1, SysProc[k])
    <3>1. PICK k \in 1 .. 4 : q = Ref("func", k - 1, SysProc[k])  BY <2>4
    <3>2. Good(s, U, H, Ref("func", k - 1, SysProc[k]))  BY <1>6, <1>7, HostGood
    <3>3. QED  BY <3>1, <3>2
  <2>5. CASE q = Ref("glob", 0, Symbol(Env, StackPointer))
    <3>1. Good(s, U, H, Ref("glob", 0, Symbol(Env, StackPointer)))  BY <1>6, <1>7, StackGood
    <3>2. QED  BY <3>1, <2>5
  <2>6. QED  BY <2>1, <2>2, <2>3, <2>4, <2>5
<1>14. PICK b, e : b = WrapperBody(main, argv, exit, flush) /\ e = MainExport(main)  OBVIOUS
<1>15. b \in Bodies /\ b.id = StartWrapper /\ b.refs = R
  <2>1. R \subseteq Refs  BY <1>13 DEF Good
  <2>2. b = [id |-> StartWrapper, argv |-> FALSE, refs |-> R]  BY <1>12, <1>14 DEF WrapperBody
  <2>3. QED  BY <2>1, <2>2, WrapperBodyIs
<1>16. e \in Exps /\ e.ref = main
  <2>1. main \in Refs /\ Main \in Text  BY <1>9, TextIs DEF Good
  <2>2. e = [name |-> Main, ref |-> main]  BY <1>14 DEF MainExport
  <2>3. QED  BY <2>1, <2>2, ExpIs
<1>17. n = [s EXCEPT !.funcs = Append(@, b), !.start = {Len(s.fimp) + Len(s.funcs)}, !.exps = Append(@, e)]
  <2>1. n = AddStart(s, main, argv, exit, flush)  BY <1>2, <1>3, <1>4, AddCrt0Is
  <2>2. QED  BY <2>1, <1>14, AddStartIs, ZenonT(30)
<1>18. Adds(s, n, b, e)  BY <1>7, <1>15, <1>16, <1>17 DEF Adds
<1>19. \A q \in b.refs \cup {e.ref} : Good(s, U, H, q)  BY <1>9, <1>13, <1>15, <1>16
<1>20. QED  BY <1>7, <1>18, <1>19, StartLinked

\* crt0::synthesize keeps what every reference denotes.
LEMMA SynthesizeWorks ==
  ASSUME NEW m, NEW U, NEW H, ImportsResolved(m, U, H), Program(U, H),
         NEW noStdlib, NEW n, n = Synthesize(m, noStdlib)
  PROVE  Linked(n, U, H)
<1>1. PICK s : s = MaterialiseState(m)  OBVIOUS
<1>2. StateLinked(s, U, H)  BY <1>1, MaterialisedLinked
<1>3. n = IF noStdlib \/ ~HasMain(s) THEN s ELSE AddCrt0(s)  BY <1>1 DEF Synthesize
<1>4. CASE noStdlib \/ ~HasMain(s)
  <2>1. n = s  BY <1>3, <1>4
  <2>2. QED  BY <2>1, <1>2 DEF StateLinked, Linked
<1>5. CASE ~(noStdlib \/ ~HasMain(s))
  <2>1. n = AddCrt0(s) /\ HasMain(s)  BY <1>3, <1>5
  <2>2. QED  BY <2>1, <1>2, Crt0Works
<1>6. QED  BY <1>4, <1>5

\* A renumbering through which every reference keeps what it denotes.
Keeping(m, n, F, G, fi, gi) ==
  /\ Moving(m, n, F, G, fi, gi)
  /\ \A r \in AllRefs(m) : r.kind # "glob" => FuncAt(n, F[FuncNum(m, r)]) = FuncAt(m, FuncNum(m, r))
  /\ \A r \in AllRefs(m) : r.kind = "glob" => GlobAt(n, G[r.idx]) = GlobAt(m, r.idx)
  /\ \A i \in m.start : FuncAt(n, F[i]) = FuncAt(m, i)

\* The fields of a module whose functions and globals are renumbered.
LEMMA RenumberFields ==
  ASSUME NEW m, NEW n, NEW F, NEW G, NEW fi, NEW gi, Renumbers(n, m, F, G, Same, fi, gi)
  PROVE  /\ n \in Modules /\ n.fimp = fi /\ n.gimp = gi /\ n.globs = m.globs /\ Ids(n) = Ids(m)
         /\ Len(n.funcs) = Len(m.funcs) /\ n.start = {F[i] : i \in m.start}
<1>1. PICK S : S = Same  OBVIOUS
<1>2. Renumbers(n, m, F, G, S, fi, gi)  BY <1>1
<1>3. QED  BY <1>2, RenumberWorks

\* A renumbering that keeps what references denote keeps a linked module linked.
LEMMA KeepingLinked ==
  ASSUME NEW m, NEW n, NEW F, NEW G, NEW fi, NEW gi, Keeping(m, n, F, G, fi, gi),
         NEW U, NEW H, Linked(m, U, H)
  PROVE  Linked(n, U, H)
<1>1. Moving(m, n, F, G, fi, gi) /\ Renumbers(n, m, F, G, Same, fi, gi)  BY DEF Keeping, Moving
<1>2. Whole(n) /\ \A q \in AllRefs(n) : \E r \in AllRefs(m) : Was(m, n, F, G, q, r)  BY <1>1, MovingWorks
<1>3. n.start = {F[i] : i \in m.start}  BY <1>1, RenumberFields
<1>4. ASSUME NEW q \in AllRefs(n), Sure(U, q) PROVE Denotes(n, q) = Meaning(U, H, q.kind, q.sym)
  <2>1. PICK r \in AllRefs(m) : Was(m, n, F, G, q, r)  BY <1>2
  <2>2. q.kind = r.kind /\ q.sym = r.sym /\ Denotes(m, r) = Meaning(U, H, r.kind, r.sym)
    BY <2>1, <1>4 DEF Was, Linked, Surely, Sure
  <2>3. CASE q.kind = "glob"
    <3>1. Denotes(m, r) = GlobAt(m, r.idx) /\ Denotes(n, q) = GlobAt(n, G[r.idx])  BY <2>1, <2>3 DEF Was
    <3>2. GlobAt(n, G[r.idx]) = GlobAt(m, r.idx)  BY <2>2, <2>3 DEF Keeping
    <3>3. QED  BY <3>1, <3>2, <2>2
  <2>4. CASE q.kind # "glob"
    <3>1. Denotes(m, r) = FuncAt(m, FuncNum(m, r)) /\ Denotes(n, q) = FuncAt(n, F[FuncNum(m, r)])
      BY <2>1, <2>4 DEF Was
    <3>2. FuncAt(n, F[FuncNum(m, r)]) = FuncAt(m, FuncNum(m, r))  BY <2>2, <2>4 DEF Keeping
    <3>3. QED  BY <3>1, <3>2, <2>2
  <2>5. QED  BY <2>3, <2>4
<1>5. ASSUME NEW j \in n.start PROVE FuncAt(n, j) = StartWrapper
  <2>1. PICK i \in m.start : j = F[i]  BY <1>3, <1>5
  <2>2. FuncAt(n, F[i]) = FuncAt(m, i) /\ FuncAt(m, i) = StartWrapper  BY DEF Keeping, Linked
  <2>3. QED  BY <2>1, <2>2
<1>6. QED  BY <1>2, <1>4, <1>5 DEF Linked, Surely

-----------------------------------------------------------------------------
\* Dropping global imports nothing uses.
GlobsDropped(m, n, drop) ==
  /\ drop \subseteq 0 .. Len(m.gimp) - 1 /\ \A r \in AllRefs(m) : r.kind = "glob" => r.idx \notin drop
  /\ n = Renumber(m, Same, [i \in Nat |-> NewNumber(drop, i)], Same, m.fimp, Without(m.gimp, drop))

\* Dropping unused global imports loses no reference.
LEMMA DropGlobs ==
  ASSUME NEW m, NEW n, NEW drop, GlobsDropped(m, n, drop), NEW U, NEW H, Linked(m, U, H)
  PROVE  Linked(n, U, H)
<1>1. Whole(m) /\ m \in Modules /\ Surely(m, U, H)  BY DEF Linked, Whole
<1>2. PICK a, b, w : a = m.gimp /\ b = m.globs /\ w = Without(m.gimp, drop)  OBVIOUS
<1>3. a \in Seq(Symbols) /\ b \in Seq(Symbols)  BY <1>1, <1>2, ModuleFields
<1>4. /\ drop \subseteq 0 .. Len(a) - 1 /\ \A r \in AllRefs(m) : r.kind = "glob" => r.idx \notin drop
      /\ w = Without(a, drop)
  BY <1>2 DEF GlobsDropped
<1>5. w \in Seq(Symbols) /\ \A i \in Nat : NewNumber(drop, i) \in Nat  BY <1>3, <1>4, WithoutWorks
<1>6. PICK G : G = [i \in Nat |-> NewNumber(drop, i)]  OBVIOUS
<1>7. G \in [Nat -> Nat] /\ \A i \in Nat : G[i] = NewNumber(drop, i)  BY <1>5, <1>6
<1>8. Renumbers(n, m, Same, G, Same, m.fimp, w)
  <2>1. n = Renumber(m, Same, G, Same, m.fimp, w)  BY <1>2, <1>6 DEF GlobsDropped
  <2>2. QED  BY <2>1, <1>1, <1>5, <1>7, SameIs, ModuleFields DEF Renumbers
<1>9. PICK S : S = Same  OBVIOUS
<1>10. n \in Modules /\ n.fimp = m.fimp /\ n.gimp = w /\ n.globs = b /\ Ids(n) = Ids(m)
  BY <1>2, <1>8, RenumberFields
<1>11. ASSUME NEW r \in AllRefs(m), r.kind = "glob"
       PROVE  G[r.idx] < Len(w) + Len(m.globs) /\ GlobAt(n, G[r.idx]) = GlobAt(m, r.idx)
  <2>1. r \in Refs /\ InRange(m, r)  BY <1>1, AllRefsAre DEF Whole
  <2>2. PICK i \in Nat : i = r.idx  BY <2>1 DEF Refs
  <2>3. i < Len(a) + Len(b) /\ i \notin drop  BY <2>1, <2>2, <1>2, <1>4, <1>11 DEF InRange, NGlobs
  <2>6. Leaves(Symbols, a, b, drop, i)  BY <2>3, <1>3, <1>4 DEF Leaves
  <2>4. /\ NewNumber(drop, i) \in Nat
        /\ NewNumber(drop, i) < Len(Without(a, drop)) + Len(b)
        /\ Numbered(Without(a, drop), b, NewNumber(drop, i)) = Numbered(a, b, i)
    BY <2>6, NumberedWithout
  <2>5. QED  BY <2>2, <2>4, <1>2, <1>4, <1>7, <1>10 DEF GlobAt
<1>12. ASSUME NEW r \in AllRefs(m), r.kind # "glob"
       PROVE  Same[FuncNum(m, r)] < Len(m.fimp) + Len(m.funcs)
              /\ FuncAt(n, Same[FuncNum(m, r)]) = FuncAt(m, FuncNum(m, r))
  <2>1. FuncNum(m, r) \in Nat /\ FuncNum(m, r) < NFuncs(m)  BY <1>1, <1>12, WholeFuncNum
  <2>2. Same[FuncNum(m, r)] = FuncNum(m, r)  BY <2>1, SameIs
  <2>3. QED  BY <2>1, <2>2, <1>10 DEF NFuncs, FuncAt
<1>13. ASSUME NEW i \in m.start
       PROVE  Same[i] < Len(m.fimp) + Len(m.funcs) /\ FuncAt(n, Same[i]) = FuncAt(m, i)
  <2>1. i \in Nat /\ i < NFuncs(m)  BY <1>1, <1>13, ModuleFields DEF Whole
  <2>2. Same[i] = i  BY <2>1, SameIs
  <2>3. QED  BY <2>1, <2>2, <1>10 DEF NFuncs, FuncAt
<1>14. Moving(m, n, Same, G, m.fimp, w)  BY <1>1, <1>8, <1>11, <1>12, <1>13 DEF Moving
<1>15. Keeping(m, n, Same, G, m.fimp, w)  BY <1>11, <1>12, <1>13, <1>14 DEF Keeping
<1>16. PICK K : K = Same  OBVIOUS
<1>17. Keeping(m, n, K, G, m.fimp, w)  BY <1>15, <1>16
<1>18. QED  BY <1>17, KeepingLinked

\* Dropping function imports nothing uses.
FuncsDropped(m, n, drop) ==
  /\ drop \subseteq 0 .. Len(m.fimp) - 1 /\ \A r \in AllRefs(m) : r.kind = "func" => r.idx \notin drop
  /\ \A i \in m.start : i \notin drop
  /\ n = Renumber(m, [i \in Nat |-> NewNumber(drop, i)], Same, Same, Without(m.fimp, drop), m.gimp)

\* The function a reference reaches is one some reference names.
LEMMA FuncNumUsed ==
  ASSUME NEW m, Whole(m), NEW r \in AllRefs(m), r.kind # "glob"
  PROVE  \E q \in AllRefs(m) : q.kind = "func" /\ q.idx = FuncNum(m, r)
<1>1. m \in Modules /\ InTable(m) /\ InRange(m, r)  BY DEF Whole
<1>2. r \in Refs  BY <1>1, AllRefsAre
<1>3. CASE r.kind = "func"  BY <1>3 DEF FuncNum
<1>4. CASE r.kind = "slot"
  <2>1. PICK t : t = m.table  OBVIOUS
  <2>2. t \in Seq(Refs) /\ DOMAIN t = 1 .. Len(t) /\ Len(t) \in Nat  BY <1>1, <2>1, ModuleFields
  <2>3. r.idx \in Nat /\ r.idx < Len(t)  BY <1>1, <1>2, <1>4, <2>1 DEF Refs, InRange
  <2>4. PICK k \in 1 .. Len(t) : k = r.idx + 1  BY <2>2, <2>3
  <2>5. t[k].kind = "func"  BY <2>1, <2>2, <1>1 DEF InTable
  <2>6. t[k] \in AllRefs(m)  BY <2>1, <1>1, AllRefsAre
  <2>7. FuncNum(m, r) = t[k].idx  BY <2>1, <2>4, <1>4 DEF FuncNum
  <2>8. QED  BY <2>5, <2>6, <2>7
<1>5. QED  BY <1>2, <1>3, <1>4 DEF Refs

\* Dropping unused function imports loses no reference.
LEMMA DropFuncs ==
  ASSUME NEW m, NEW n, NEW drop, FuncsDropped(m, n, drop), NEW U, NEW H, Linked(m, U, H)
  PROVE  Linked(n, U, H)
<1>1. Whole(m) /\ m \in Modules /\ Surely(m, U, H)  BY DEF Linked, Whole
<1>2. PICK a, b, w : a = m.fimp /\ b = Ids(m) /\ w = Without(m.fimp, drop)  OBVIOUS
<1>3. a \in Seq(Symbols) /\ b \in Seq(Symbols) /\ Len(b) = Len(m.funcs)  BY <1>1, <1>2, ModuleFields, IdsOf
<1>4. /\ drop \subseteq 0 .. Len(a) - 1 /\ \A r \in AllRefs(m) : r.kind = "func" => r.idx \notin drop
      /\ \A i \in m.start : i \notin drop
      /\ w = Without(a, drop)
  BY <1>2 DEF FuncsDropped
<1>5. w \in Seq(Symbols) /\ \A i \in Nat : NewNumber(drop, i) \in Nat  BY <1>3, <1>4, WithoutWorks
<1>6. PICK F : F = [i \in Nat |-> NewNumber(drop, i)]  OBVIOUS
<1>7. F \in [Nat -> Nat] /\ \A i \in Nat : F[i] = NewNumber(drop, i)  BY <1>5, <1>6
<1>8. Renumbers(n, m, F, Same, Same, w, m.gimp)
  <2>1. n = Renumber(m, F, Same, Same, w, m.gimp)  BY <1>2, <1>6 DEF FuncsDropped
  <2>2. QED  BY <2>1, <1>1, <1>5, <1>7, SameIs, ModuleFields DEF Renumbers
<1>9. n \in Modules /\ n.fimp = w /\ n.gimp = m.gimp /\ n.globs = m.globs /\ Ids(n) = b
  <2>1. PICK K : K = Same  OBVIOUS
  <2>2. Renumbers(n, m, F, K, Same, w, m.gimp)  BY <1>8, <2>1
  <2>3. QED  BY <2>2, <1>2, RenumberFields
<1>10. ASSUME NEW i \in Nat, i < NFuncs(m), i \notin drop
       PROVE  F[i] < Len(w) + Len(m.funcs) /\ FuncAt(n, F[i]) = FuncAt(m, i)
  <2>1. i < Len(a) + Len(b)  BY <1>2, <1>3, <1>10 DEF NFuncs
  <2>4. Leaves(Symbols, a, b, drop, i)  BY <2>1, <1>3, <1>4, <1>10 DEF Leaves
  <2>2. /\ NewNumber(drop, i) \in Nat
        /\ NewNumber(drop, i) < Len(Without(a, drop)) + Len(b)
        /\ Numbered(Without(a, drop), b, NewNumber(drop, i)) = Numbered(a, b, i)
    BY <2>4, NumberedWithout
  <2>3. QED  BY <2>2, <1>2, <1>3, <1>4, <1>7, <1>9 DEF FuncAt
<1>11. ASSUME NEW r \in AllRefs(m), r.kind # "glob"
       PROVE  F[FuncNum(m, r)] < Len(w) + Len(m.funcs) /\ FuncAt(n, F[FuncNum(m, r)]) = FuncAt(m, FuncNum(m, r))
  <2>1. FuncNum(m, r) \in Nat /\ FuncNum(m, r) < NFuncs(m)  BY <1>1, <1>11, WholeFuncNum
  <2>2. FuncNum(m, r) \notin drop
    <3>1. PICK q \in AllRefs(m) : q.kind = "func" /\ q.idx = FuncNum(m, r)  BY <1>1, <1>11, FuncNumUsed
    <3>2. QED  BY <3>1, <1>4
  <2>3. QED  BY <2>1, <2>2, <1>10
<1>12. ASSUME NEW r \in AllRefs(m), r.kind = "glob"
       PROVE  Same[r.idx] < Len(m.gimp) + Len(m.globs) /\ GlobAt(n, Same[r.idx]) = GlobAt(m, r.idx)
  <2>1. r \in Refs /\ InRange(m, r)  BY <1>1, AllRefsAre DEF Whole
  <2>2. r.idx \in Nat /\ r.idx < NGlobs(m)  BY <2>1, <1>12 DEF Refs, InRange
  <2>3. Same[r.idx] = r.idx  BY <2>2, SameIs
  <2>4. QED  BY <2>2, <2>3, <1>9 DEF NGlobs, GlobAt
<1>13. ASSUME NEW i \in m.start PROVE F[i] < Len(w) + Len(m.funcs) /\ FuncAt(n, F[i]) = FuncAt(m, i)
  <2>1. i \in Nat /\ i < NFuncs(m)  BY <1>1, <1>13, ModuleFields DEF Whole
  <2>2. QED  BY <2>1, <1>4, <1>10
<1>14. Moving(m, n, F, Same, w, m.gimp)  BY <1>1, <1>8, <1>11, <1>12, <1>13 DEF Moving
<1>15. Keeping(m, n, F, Same, w, m.gimp)  BY <1>11, <1>12, <1>13, <1>14 DEF Keeping
<1>16. PICK K : K = Same  OBVIOUS
<1>17. Keeping(m, n, F, K, w, m.gimp)  BY <1>15, <1>16
<1>18. QED  BY <1>17, KeepingLinked

\* What is used is what the references and the start section name.
LEMMA UsedIs ==
  ASSUME NEW m, NEW kind
  PROVE  /\ \A r \in AllRefs(m) : r.kind = kind => r.idx \in Used(m, kind)
         /\ kind = "func" => m.start \subseteq Used(m, kind)
BY DEF Used

\* PruneGlobalImports is a renumbering of the globals.
LEMMA PruneGlobalsIs ==
  ASSUME NEW m \in Modules, NEW rt, NEW n, n = PruneGlobalImports(m, rt),
         NEW drop, drop = Unused(m, "glob", m.gimp, rt)
  PROVE  n = Renumber(m, Same, [i \in Nat |-> NewNumber(drop, i)], Same, m.fimp, Without(m.gimp, drop))
<1>1. PICK G : G = [i \in Nat |-> NewNumber(drop, i)]  OBVIOUS
<1>2. PICK r : r = Reindex(m, Same, G, Same)  OBVIOUS
<1>3. n = [r EXCEPT !.gimp = Without(@, drop)]  BY <1>1, <1>2 DEF PruneGlobalImports
<1>4. PICK fs, es, tb, st : /\ fs = MovedFuncs(m.funcs, Same, G, Same) /\ es = MovedExps(m.exps, Same, G, Same)
                            /\ tb = MovedTable(m.table, Same, G, Same) /\ st = {Same[i] : i \in m.start}
  OBVIOUS
<1>5. r = [fimp |-> m.fimp, gimp |-> m.gimp, funcs |-> fs, globs |-> m.globs, exps |-> es, table |-> tb, start |-> st]
  BY <1>2, <1>4, ReindexIs
<1>6. n = [fimp |-> m.fimp, gimp |-> Without(m.gimp, drop), funcs |-> fs, globs |-> m.globs,
           exps |-> es, table |-> tb, start |-> st]
  BY <1>3, <1>5
<1>7. QED  BY <1>1, <1>4, <1>6 DEF Renumber

\* PruneFunctionImports is a renumbering of the functions.
LEMMA PruneFunctionsIs ==
  ASSUME NEW m \in Modules, NEW rt, NEW n, n = PruneFunctionImports(m, rt),
         NEW drop, drop = Unused(m, "func", m.fimp, rt)
  PROVE  n = Renumber(m, [i \in Nat |-> NewNumber(drop, i)], Same, Same, Without(m.fimp, drop), m.gimp)
<1>1. PICK F : F = [i \in Nat |-> NewNumber(drop, i)]  OBVIOUS
<1>2. PICK r : r = Reindex(m, F, Same, Same)  OBVIOUS
<1>3. n = [r EXCEPT !.fimp = Without(@, drop)]  BY <1>1, <1>2 DEF PruneFunctionImports
<1>4. PICK fs, es, tb, st : /\ fs = MovedFuncs(m.funcs, F, Same, Same) /\ es = MovedExps(m.exps, F, Same, Same)
                            /\ tb = MovedTable(m.table, F, Same, Same) /\ st = {F[i] : i \in m.start}
  OBVIOUS
<1>5. r = [fimp |-> m.fimp, gimp |-> m.gimp, funcs |-> fs, globs |-> m.globs, exps |-> es, table |-> tb, start |-> st]
  BY <1>2, <1>4, ReindexIs
<1>6. n = [fimp |-> Without(m.fimp, drop), gimp |-> m.gimp, funcs |-> fs, globs |-> m.globs,
           exps |-> es, table |-> tb, start |-> st]
  BY <1>3, <1>5
<1>7. QED  BY <1>1, <1>4, <1>6 DEF Renumber

\* Pruning takes away only what nothing refers to.
LEMMA PruneGlobalsWorks ==
  ASSUME NEW m, NEW U, NEW H, Linked(m, U, H), NEW rt, NEW n, n = PruneGlobalImports(m, rt)
  PROVE  Linked(n, U, H)
<1>1. m \in Modules  BY DEF Linked, Whole
<1>2. PICK drop : drop = Unused(m, "glob", m.gimp, rt)  OBVIOUS
<1>3. n = Renumber(m, Same, [i \in Nat |-> NewNumber(drop, i)], Same, m.fimp, Without(m.gimp, drop))
  BY <1>1, <1>2, PruneGlobalsIs
<1>4. drop \subseteq 0 .. Len(m.gimp) - 1 /\ \A i \in drop : i \notin Used(m, "glob")
  BY <1>2 DEF Unused
<1>5. \A r \in AllRefs(m) : r.kind = "glob" => r.idx \in Used(m, "glob")  BY UsedIs
<1>6. GlobsDropped(m, n, drop)  BY <1>3, <1>4, <1>5 DEF GlobsDropped
<1>7. QED  BY <1>6, DropGlobs

\* Pruning function imports loses no reference.
LEMMA PruneFunctionsWorks ==
  ASSUME NEW m, NEW U, NEW H, Linked(m, U, H), NEW rt, NEW n, n = PruneFunctionImports(m, rt)
  PROVE  Linked(n, U, H)
<1>1. m \in Modules  BY DEF Linked, Whole
<1>2. PICK drop : drop = Unused(m, "func", m.fimp, rt)  OBVIOUS
<1>3. n = Renumber(m, [i \in Nat |-> NewNumber(drop, i)], Same, Same, Without(m.fimp, drop), m.gimp)
  BY <1>1, <1>2, PruneFunctionsIs
<1>4. drop \subseteq 0 .. Len(m.fimp) - 1 /\ \A i \in drop : i \notin Used(m, "func")
  BY <1>2 DEF Unused
<1>5. /\ \A r \in AllRefs(m) : r.kind = "func" => r.idx \in Used(m, "func")
      /\ m.start \subseteq Used(m, "func")
  BY UsedIs
<1>6. FuncsDropped(m, n, drop)  BY <1>3, <1>4, <1>5 DEF FuncsDropped
<1>7. QED  BY <1>6, DropFuncs

\* Pruning loses no reference.
LEMMA PruneWorks ==
  ASSUME NEW m, NEW U, NEW H, Linked(m, U, H), NEW rt, NEW n, n = PruneImports(m, rt)
  PROVE  Linked(n, U, H)
<1>1. PICK p : p = PruneGlobalImports(m, rt)  OBVIOUS
<1>2. Linked(p, U, H)  BY <1>1, PruneGlobalsWorks
<1>3. n = PruneFunctionImports(p, rt)  BY <1>1 DEF PruneImports
<1>4. QED  BY <1>2, <1>3, PruneFunctionsWorks

\* The stages of the mark, and the function that lists them.
Stages(m, f, n) == f = [k \in 0 .. n |-> IF k = 0 THEN Roots(m) ELSE WithCalls(m, f[k - 1])]

\* The mark is the last of its stages.
LEMMA MarkIs ==
  ASSUME NEW m
  PROVE  Mark(m) = (CHOOSE f : Stages(m, f, Len(m.funcs)))[Len(m.funcs)]
BY DEF Mark, Stages

\* The stages of the mark exist, by induction on their number.
LEMMA StagesExist ==
  ASSUME NEW m, NEW N \in Nat
  PROVE  \E f : Stages(m, f, N)
<1>1. PICK T : T = {n \in Nat : \E f : Stages(m, f, n)}  OBVIOUS
<1>2. 0 \in T
  <2>1. PICK f : f = [k \in 0 .. 0 |-> Roots(m)]  OBVIOUS
  <2>2. Stages(m, f, 0)  BY <2>1 DEF Stages
  <2>3. QED  BY <1>1, <2>2
<1>3. ASSUME NEW n \in T PROVE n + 1 \in T
  <2>1. PICK f : Stages(m, f, n)  BY <1>1
  <2>2. n \in Nat  BY <1>1
  <2>3. PICK g : g = [k \in 0 .. n + 1 |-> IF k = 0 THEN Roots(m) ELSE WithCalls(m, f[k - 1])]  OBVIOUS
  <2>4. ASSUME NEW k \in 0 .. n PROVE g[k] = f[k]
    <3>1. k \in 0 .. n + 1  BY <2>2
    <3>2. g[k] = IF k = 0 THEN Roots(m) ELSE WithCalls(m, f[k - 1])  BY <2>3, <3>1
    <3>3. f[k] = IF k = 0 THEN Roots(m) ELSE WithCalls(m, f[k - 1])  BY <2>1 DEF Stages
    <3>4. QED  BY <3>2, <3>3
  <2>5. \A k \in 0 .. n + 1 : k # 0 => k - 1 \in 0 .. n  BY <2>2
  <2>6. \A k \in 0 .. n + 1 : (IF k = 0 THEN Roots(m) ELSE WithCalls(m, f[k - 1]))
                                = (IF k = 0 THEN Roots(m) ELSE WithCalls(m, g[k - 1]))
    BY <2>4, <2>5
  <2>7. g = [k \in 0 .. n + 1 |-> IF k = 0 THEN Roots(m) ELSE WithCalls(m, g[k - 1])]
    BY <2>3, <2>6
  <2>8. Stages(m, g, n + 1)  BY <2>7 DEF Stages
  <2>9. QED  BY <1>1, <2>2, <2>8
<1>4. T = Nat
  <2>1. T \subseteq Nat  BY <1>1
  <2>2. QED  BY <1>2, <1>3, <2>1, InductionSet
<1>5. QED  BY <1>1, <1>4

Numbers(m) == 0 .. NFuncs(m) - 1
Closed(m, S) == \A i \in S : Calls(m, i) \subseteq S

\* The mark starts with the roots and adds calls, stage by stage.
LEMMA MarkStages ==
  ASSUME NEW m, NEW N \in Nat, N = Len(m.funcs)
  PROVE  \E f : /\ f[0] = Roots(m) /\ f[N] = Mark(m)
                /\ \A k \in 1 .. N : f[k] = WithCalls(m, f[k - 1])
<1>1. PICK f : f = CHOOSE g : Stages(m, g, N)  OBVIOUS
<1>2. Stages(m, f, N)  BY <1>1, StagesExist
<1>3. f[N] = Mark(m)  BY <1>1, MarkIs
<1>4. \A k \in 0 .. N : f[k] = IF k = 0 THEN Roots(m) ELSE WithCalls(m, f[k - 1])
  BY <1>2 DEF Stages
<1>5. f[0] = Roots(m)  BY <1>4
<1>6. \A k \in 1 .. N : f[k] = WithCalls(m, f[k - 1])  BY <1>4
<1>7. QED  BY <1>3, <1>5, <1>6

\* A function reference of a whole module is a number of one of its functions.
LEMMA FuncRefIn ==
  ASSUME NEW m, Whole(m), NEW r \in AllRefs(m), r.kind = "func"
  PROVE  r.idx \in Numbers(m)
<1>1. r \in Refs /\ InRange(m, r)  BY AllRefsAre DEF Whole
<1>2. r.idx \in Nat /\ r.idx < NFuncs(m)  BY <1>1 DEF Refs, InRange
<1>3. NFuncs(m) \in Nat  BY NFuncsIs DEF Whole
<1>4. QED  BY <1>2, <1>3 DEF Numbers

\* What a function calls: an import nothing, a definition what its body refers to.
LEMMA CallsAre ==
  ASSUME NEW m \in Modules, NEW i \in Numbers(m)
  PROVE  /\ i < Len(m.fimp) => Calls(m, i) = {}
         /\ i >= Len(m.fimp) => /\ i - Len(m.fimp) + 1 \in 1 .. Len(m.funcs)
                                /\ \A x : x \in Calls(m, i) <=>
                                     \E r \in m.funcs[i - Len(m.fimp) + 1].refs : r.kind = "func" /\ r.idx = x
<1>1. Len(m.fimp) \in Nat /\ Len(m.funcs) \in Nat  BY ModuleFields
<1>2. i < Len(m.fimp) => Calls(m, i) = {}  BY DEF Calls
<1>3. ASSUME i >= Len(m.fimp) PROVE i - Len(m.fimp) + 1 \in 1 .. Len(m.funcs)
  <2>1. PICK p \in Nat, q \in Nat : p = Len(m.fimp) /\ q = Len(m.funcs)  BY <1>1
  <2>5. NFuncs(m) = p + q  BY <2>1 DEF NFuncs
  <2>6. Numbers(m) = 0 .. (p + q) - 1  BY <2>5 DEF Numbers
  <2>2. i \in 0 .. (p + q) - 1 /\ i >= p  BY <1>3, <2>1, <2>6
  <2>3. i - p + 1 \in 1 .. q  BY <2>2
  <2>4. QED  BY <2>1, <2>3
<1>4. ASSUME i >= Len(m.fimp), NEW x
      PROVE  x \in Calls(m, i) <=> \E r \in m.funcs[i - Len(m.fimp) + 1].refs : r.kind = "func" /\ r.idx = x
  <2>1. ~(i < Len(m.fimp))  BY <1>1, <1>4 DEF Numbers
  <2>2. Calls(m, i) = {r.idx : r \in {q \in m.funcs[i - Len(m.fimp) + 1].refs : q.kind = "func"}}
    BY <2>1 DEF Calls
  <2>3. QED  BY <2>2
<1>5. QED  BY <1>2, <1>3, <1>4

\* Calls are numbers of functions.
LEMMA CallsIn ==
  ASSUME NEW m, Whole(m), NEW i \in Numbers(m)
  PROVE  Calls(m, i) \subseteq Numbers(m)
<1>1. m \in Modules /\ Len(m.fimp) \in Nat  BY ModuleFields DEF Whole
<1>2. CASE i < Len(m.fimp)  BY <1>1, <1>2, CallsAre
<1>3. CASE i >= Len(m.fimp)
  <2>1. PICK k : k = i - Len(m.fimp) + 1  OBVIOUS
  <2>2. k \in 1 .. Len(m.funcs)  BY <2>1, <1>1, <1>3, CallsAre
  <2>3. \A x \in Calls(m, i) : \E r \in m.funcs[k].refs : r.kind = "func" /\ r.idx = x
    BY <2>1, <1>1, <1>3, CallsAre
  <2>4. \A r \in m.funcs[k].refs : r \in AllRefs(m)  BY <2>2, <1>1, AllRefsAre
  <2>5. QED  BY <2>3, <2>4, FuncRefIn
<1>4. QED  BY <1>1, <1>2, <1>3 DEF Numbers

\* The roots.
LEMMA RootsAre ==
  ASSUME NEW m, Whole(m)
  PROVE  /\ Roots(m) \subseteq Numbers(m) /\ 0 .. Len(m.fimp) - 1 \subseteq Roots(m)
         /\ m.start \subseteq Roots(m)
         /\ \A k \in 1 .. Len(m.table) : m.table[k].idx \in Roots(m)
<1>1. m \in Modules /\ NFuncs(m) \in Nat /\ Len(m.fimp) \in Nat /\ Len(m.funcs) \in Nat
  BY ModuleFields, NFuncsIs DEF Whole
<1>2. m.start \subseteq Numbers(m)  BY <1>1, ModuleFields DEF Whole, Numbers
<1>3. 0 .. Len(m.fimp) - 1 \subseteq Numbers(m)
  <2>1. PICK p \in Nat, q \in Nat : p = Len(m.fimp) /\ q = Len(m.funcs)  BY <1>1
  <2>2. NFuncs(m) = p + q  BY <2>1 DEF NFuncs
  <2>3. Numbers(m) = 0 .. (p + q) - 1  BY <2>2 DEF Numbers
  <2>4. 0 .. p - 1 \subseteq 0 .. (p + q) - 1  OBVIOUS
  <2>5. QED  BY <2>1, <2>3, <2>4
<1>4. DOMAIN m.table = 1 .. Len(m.table) /\ DOMAIN m.exps = 1 .. Len(m.exps)  BY <1>1, ModuleFields
<1>5. \A k \in 1 .. Len(m.table) : m.table[k] \in AllRefs(m) /\ m.table[k].kind = "func"
  BY <1>1, <1>4, AllRefsAre DEF Whole, InTable
<1>6. \A k \in 1 .. Len(m.table) : m.table[k].idx \in Numbers(m)  BY <1>5, FuncRefIn
<1>7. \A k \in 1 .. Len(m.exps) : m.exps[k].ref \in AllRefs(m)  BY <1>1, AllRefsAre
<1>8. \A k \in 1 .. Len(m.exps) : m.exps[k].ref.kind = "func" => m.exps[k].ref.idx \in Numbers(m)
  BY <1>7, FuncRefIn
<1>9. PICK E : E = {m.exps[k].ref.idx : k \in {j \in DOMAIN m.exps : m.exps[j].ref.kind = "func"}}
  OBVIOUS
<1>10. E \subseteq Numbers(m)  BY <1>4, <1>8, <1>9
<1>11. PICK T : T = {m.table[k].idx : k \in DOMAIN m.table}  OBVIOUS
<1>12. T \subseteq Numbers(m) /\ \A k \in 1 .. Len(m.table) : m.table[k].idx \in T
  BY <1>4, <1>6, <1>11
<1>13. Roots(m) = (IF m.start # {} THEN m.start ELSE E) \cup T \cup 0 .. Len(m.fimp) - 1
  BY <1>9, <1>11 DEF Roots
<1>14. Roots(m) \subseteq Numbers(m)  BY <1>2, <1>3, <1>10, <1>12, <1>13
<1>15. QED  BY <1>12, <1>13, <1>14

-----------------------------------------------------------------------------
\* A stage is closed, or holds as many functions as there were stages.
Stage(m, S, k) ==
  /\ Roots(m) \subseteq S /\ S \subseteq Numbers(m)
  /\ Closed(m, S) \/ Cardinality(S) >= Len(m.fimp) + k

\* Sets of function numbers are finite, and there are at most as many as functions.
LEMMA NumbersFinite ==
  ASSUME NEW m \in Modules, NEW S, S \subseteq Numbers(m)
  PROVE  /\ IsFiniteSet(S) /\ Cardinality(S) \in Nat /\ Cardinality(S) <= NFuncs(m)
         /\ Cardinality(S) = NFuncs(m) => S = Numbers(m)
<1>1. NFuncs(m) \in Nat  BY NFuncsIs
<1>2. IsFiniteSet(0 .. NFuncs(m) - 1) /\ Cardinality(0 .. NFuncs(m) - 1) = NFuncs(m)
  BY <1>1, FS_Interval
<1>3. IsFiniteSet(Numbers(m)) /\ Cardinality(Numbers(m)) = NFuncs(m)  BY <1>2 DEF Numbers
<1>4. IsFiniteSet(S) /\ Cardinality(S) <= Cardinality(Numbers(m))
      /\ (Cardinality(S) = Cardinality(Numbers(m)) => S = Numbers(m))
  BY <1>3, FS_Subset
<1>5. Cardinality(S) \in Nat  BY <1>4, FS_CardinalityType
<1>6. QED  BY <1>3, <1>4, <1>5

\* The roots are the first stage.
LEMMA FirstStage ==
  ASSUME NEW m, Whole(m)
  PROVE  Stage(m, Roots(m), 0)
<1>1. m \in Modules /\ Len(m.fimp) \in Nat  BY ModuleFields DEF Whole
<1>2. Roots(m) \subseteq Numbers(m) /\ 0 .. Len(m.fimp) - 1 \subseteq Roots(m)  BY RootsAre
<1>3. IsFiniteSet(Roots(m)) /\ Cardinality(Roots(m)) \in Nat  BY <1>1, <1>2, NumbersFinite
<1>4. Cardinality(0 .. Len(m.fimp) - 1) = Len(m.fimp)  BY <1>1, FS_Interval
<1>5. Cardinality(0 .. Len(m.fimp) - 1) <= Cardinality(Roots(m))  BY <1>2, <1>3, FS_Subset
<1>6. Cardinality(Roots(m)) >= Len(m.fimp) + 0  BY <1>1, <1>3, <1>4, <1>5
<1>7. QED  BY <1>2, <1>6 DEF Stage

\* A stage that is not closed is followed by a larger one.
LEMMA NextStage ==
  ASSUME NEW m, Whole(m), NEW S, NEW k \in Nat, Stage(m, S, k)
  PROVE  Stage(m, WithCalls(m, S), k + 1)
<1>1. m \in Modules /\ Len(m.fimp) \in Nat  BY ModuleFields DEF Whole
<1>2. PICK T : T = WithCalls(m, S)  OBVIOUS
<1>3. \A x : x \in T <=> x \in S \/ \E i \in S : x \in Calls(m, i)  BY <1>2 DEF WithCalls
<1>4. Roots(m) \subseteq S /\ S \subseteq Numbers(m)  BY DEF Stage
<1>5. S \subseteq T /\ T \subseteq Numbers(m)
  <2>1. \A i \in S : Calls(m, i) \subseteq Numbers(m)  BY <1>4, CallsIn
  <2>2. QED  BY <1>3, <1>4, <2>1
<1>6. CASE Closed(m, S)
  <2>1. T = S  BY <1>3, <1>6 DEF Closed
  <2>2. QED  BY <1>2, <1>4, <1>6, <2>1 DEF Stage
<1>7. CASE ~Closed(m, S)
  <2>1. PICK x : x \in T /\ x \notin S  BY <1>3, <1>7 DEF Closed
  <2>2. Cardinality(S) >= Len(m.fimp) + k  BY <1>7 DEF Stage
  <2>3. IsFiniteSet(S) /\ Cardinality(S) \in Nat  BY <1>1, <1>4, NumbersFinite
  <2>4. IsFiniteSet(T) /\ Cardinality(T) \in Nat  BY <1>1, <1>5, NumbersFinite
  <2>5. Cardinality(S) <= Cardinality(T) /\ (Cardinality(S) = Cardinality(T) => S = T)
    BY <1>5, <2>4, FS_Subset
  <2>8. PICK p \in Nat, c \in Nat, d \in Nat : p = Len(m.fimp) /\ c = Cardinality(S) /\ d = Cardinality(T)
    BY <1>1, <2>3, <2>4
  <2>9. c >= p + k /\ c <= d /\ c # d  BY <2>1, <2>2, <2>5, <2>8
  <2>10. d >= p + (k + 1)  BY <2>9
  <2>6. Cardinality(T) >= Len(m.fimp) + (k + 1)  BY <2>8, <2>10
  <2>7. QED  BY <1>2, <1>4, <1>5, <2>6 DEF Stage
<1>8. QED  BY <1>6, <1>7

\* The mark is closed under calls: no function it keeps calls one it leaves.
LEMMA MarkWorks ==
  ASSUME NEW m, Whole(m)
  PROVE  Roots(m) \subseteq Mark(m) /\ Mark(m) \subseteq Numbers(m) /\ Closed(m, Mark(m))
<1>1. m \in Modules /\ Len(m.fimp) \in Nat  BY ModuleFields DEF Whole
<1>2. PICK N \in Nat : N = Len(m.funcs)  BY <1>1, ModuleFields
<1>3. PICK f : /\ f[0] = Roots(m) /\ f[N] = Mark(m)
               /\ \A k \in 1 .. N : f[k] = WithCalls(m, f[k - 1])
  BY <1>2, MarkStages
<1>4. PICK T : T = {k \in Nat : k <= N => Stage(m, f[k], k)}  OBVIOUS
<1>5. 0 \in T  BY <1>3, <1>4, FirstStage
<1>6. ASSUME NEW k \in T PROVE k + 1 \in T
  <2>1. k \in Nat  BY <1>4
  <2>2. SUFFICES ASSUME k + 1 <= N PROVE Stage(m, f[k + 1], k + 1)  BY <1>4, <2>1
  <2>3. Stage(m, f[k], k)  BY <1>4, <2>1, <2>2
  <2>4. Stage(m, WithCalls(m, f[k]), k + 1)  BY <2>1, <2>3, NextStage
  <2>5. k + 1 \in 1 .. N /\ (k + 1) - 1 = k  BY <2>1, <2>2
  <2>6. f[k + 1] = WithCalls(m, f[k])  BY <1>3, <2>5
  <2>7. QED  BY <2>4, <2>6
<1>7. T = Nat
  <2>1. T \subseteq Nat  BY <1>4
  <2>2. QED  BY <1>5, <1>6, <2>1, InductionSet
<1>8. Stage(m, Mark(m), N)  BY <1>3, <1>4, <1>7
<1>9. Roots(m) \subseteq Mark(m) /\ Mark(m) \subseteq Numbers(m)  BY <1>8 DEF Stage
<1>10. Closed(m, Mark(m))
  <2>1. SUFFICES ASSUME ~Closed(m, Mark(m)) PROVE Mark(m) = Numbers(m)
    <3>1. ASSUME Mark(m) = Numbers(m) PROVE Closed(m, Mark(m))  BY <3>1, CallsIn DEF Closed
    <3>2. QED  BY <3>1
  <2>2. Cardinality(Mark(m)) >= NFuncs(m)  BY <1>2, <1>8, <2>1 DEF Stage, NFuncs
  <2>3. Cardinality(Mark(m)) = NFuncs(m)
    <3>1. Cardinality(Mark(m)) \in Nat /\ Cardinality(Mark(m)) <= NFuncs(m)  BY <1>1, <1>9, NumbersFinite
    <3>2. NFuncs(m) \in Nat  BY <1>1, NFuncsIs
    <3>3. QED  BY <2>2, <3>1, <3>2
  <2>4. QED  BY <1>1, <1>9, <2>3, NumbersFinite
<1>11. QED  BY <1>9, <1>10

\* Dropping definitions: the numbers within the definitions.
LEMMA LowShift ==
  ASSUME NEW p \in Nat, NEW dead, dead \subseteq Nat, IsFiniteSet(dead), \A d \in dead : d >= p,
         NEW gone, gone = {d - p : d \in dead}, NEW i \in Nat
  PROVE  /\ i < p => NewNumber(dead, i) = i
         /\ i >= p => NewNumber(dead, i) = p + NewNumber(gone, i - p)
<1> DEFINE low == {d \in dead : d < i}
           down == {d \in gone : d < i - p}
           f == [d \in low |-> d - p]
<1>1. IsFiniteSet(low)  BY FS_Subset
<1>2. ASSUME i < p PROVE NewNumber(dead, i) = i
  <2>1. low = {}  BY <1>2
  <2>2. Cardinality(low) = 0  BY <2>1, FS_EmptySet
  <2>3. QED  BY <2>2 DEF NewNumber
<1>3. ASSUME i >= p PROVE NewNumber(dead, i) = p + NewNumber(gone, i - p)
  <2>1. \A d \in low : d \in Nat /\ d >= p /\ d - p \in down  OBVIOUS
  <2>2. f \in [low -> down]  BY <2>1
  <2>3. \A a, b \in low : f[a] = f[b] => a = b  BY <2>1
  <2>4. \A k \in down : k + p \in low /\ f[k + p] = k  OBVIOUS
  <2>5. f \in Bijection(low, down)  BY <2>2, <2>3, <2>4 DEF Bijection, Injection, Surjection, IsInjective
  <2>6. ExistsBijection(low, down)  BY <2>5 DEF ExistsBijection
  <2>7. Cardinality(down) = Cardinality(low)  BY <2>6, <1>1, FS_Bijection
  <2>8. Cardinality(low) \in Nat  BY <1>1, FS_CardinalityType
  <2>9. NewNumber(dead, i) = i - Cardinality(low) /\ NewNumber(gone, i - p) = (i - p) - Cardinality(down)
    BY DEF NewNumber
  <2>10. QED  BY <2>7, <2>8, <2>9
<1>4. QED  BY <1>2, <1>3

\* The functions that die, and the module without them.
Dead(m) == (Len(m.fimp) .. Len(m.fimp) + Len(m.funcs) - 1) \ Mark(m)
Gone(m) == {i - Len(m.fimp) : i \in Dead(m)}
Alive(m) == {k \in DOMAIN m.exps : m.exps[k].ref.kind = "func" => m.exps[k].ref.idx \notin Dead(m)}
Trimmed(m) == [m EXCEPT !.funcs = Without(m.funcs, Gone(m)), !.exps = Kept(m.exps, Alive(m))]

\* Eliminate: what is left, renumbered.
LEMMA EliminateIs ==
  ASSUME NEW m
  PROVE  Eliminate(m) = Reindex(Trimmed(m), [i \in Nat |-> NewNumber(Dead(m), i)], Same, Same)
BY DEF Eliminate, Trimmed, Dead, Gone, Alive

\* The dead functions are the definitions that are not marked.
LEMMA DeadIs ==
  ASSUME NEW m, Whole(m), NEW dead, dead = Dead(m), NEW gone, gone = Gone(m)
  PROVE  /\ dead \subseteq Nat /\ IsFiniteSet(dead) /\ \A d \in dead : d >= Len(m.fimp)
         /\ gone = {d - Len(m.fimp) : d \in dead} /\ gone \subseteq 0 .. Len(m.funcs) - 1
         /\ \A i \in Mark(m) : i \in Numbers(m) /\ i \notin dead
         /\ \A i \in Numbers(m) : i \notin dead /\ i >= Len(m.fimp) => i \in Mark(m)
<1>1. m \in Modules  BY DEF Whole
<1>2. PICK p \in Nat, q \in Nat : p = Len(m.fimp) /\ q = Len(m.funcs)  BY <1>1, ModuleFields
<1>3. dead = (p .. (p + q) - 1) \ Mark(m)  BY <1>2 DEF Dead
<1>4. gone = {d - p : d \in dead}  BY <1>2 DEF Gone
<1>5. NFuncs(m) = p + q  BY <1>2 DEF NFuncs
<1>6. Numbers(m) = 0 .. (p + q) - 1  BY <1>5 DEF Numbers
<1>7. Mark(m) \subseteq Numbers(m)  BY MarkWorks
<1>8. dead \subseteq Nat /\ \A d \in dead : d >= p  BY <1>3
<1>9. IsFiniteSet(dead)
  <2>1. IsFiniteSet(p .. (p + q) - 1)  BY FS_Interval
  <2>2. QED  BY <1>3, <2>1, FS_Subset
<1>10. gone \subseteq 0 .. q - 1  BY <1>3, <1>4
<1>11. \A i \in Mark(m) : i \in Numbers(m) /\ i \notin dead  BY <1>3, <1>7
<1>12. \A i \in Numbers(m) : i \notin dead /\ i >= p => i \in Mark(m)  BY <1>3, <1>6
<1>13. QED  BY <1>2, <1>4, <1>8, <1>9, <1>10, <1>11, <1>12

\* What is left of the module, before its numbers are rewritten.
LEMMA TrimmedIs ==
  ASSUME NEW m, Whole(m), NEW p, p = Trimmed(m)
  PROVE  /\ p \in Modules /\ p.fimp = m.fimp /\ p.gimp = m.gimp /\ p.globs = m.globs
         /\ p.table = m.table /\ p.start = m.start /\ p.funcs = Without(m.funcs, Gone(m))
         /\ \A n \in 1 .. Len(p.exps) : \E k \in Alive(m) : p.exps[n] = m.exps[k]
<1>1. m \in Modules  BY DEF Whole
<1>2. PICK e, s, gone : e = m.exps /\ s = m.funcs /\ gone = Gone(m)  OBVIOUS
<1>3. e \in Seq(Exps) /\ s \in Seq(Bodies) /\ \A k \in DOMAIN e : e[k] \in Exps  BY <1>1, <1>2, ModuleFields
<1>4. gone \subseteq 0 .. Len(s) - 1  BY <1>2, DeadIs
<1>5. PICK K : K = Alive(m)  OBVIOUS
<1>6. K \subseteq DOMAIN e  BY <1>2, <1>5 DEF Alive
<1>7. PICK d, t : d = Kept(e, K) /\ t = Without(s, gone)  OBVIOUS
<1>8. d \in Seq(Exps) /\ \A n \in 1 .. Len(d) : \E k \in K : d[n] = e[k]
  <2>1. \A k \in K : e[k] \in Exps  BY <1>3, <1>6
  <2>2. QED  BY <2>1, <1>3, <1>6, <1>7, KeptOf
<1>9. t \in Seq(Bodies)  BY <1>3, <1>4, <1>7, WithoutWorks
<1>10. p = [m EXCEPT !.funcs = t, !.exps = d]  BY <1>2, <1>5, <1>7 DEF Trimmed
<1>11. /\ p \in Modules /\ p.fimp = m.fimp /\ p.gimp = m.gimp /\ p.globs = m.globs
       /\ p.table = m.table /\ p.start = m.start /\ p.funcs = t /\ p.exps = d
  BY <1>1, <1>8, <1>9, <1>10 DEF Modules
<1>12. QED  BY <1>2, <1>5, <1>7, <1>8, <1>11

\* A function that is kept is found under its new number.
LEMMA AliveAt ==
  ASSUME NEW m, Whole(m), NEW p, p = Trimmed(m), NEW dead, dead = Dead(m), NEW i \in Numbers(m), i \notin dead
  PROVE  /\ NewNumber(dead, i) \in Nat /\ NewNumber(dead, i) < NFuncs(p)
         /\ FuncAt(p, NewNumber(dead, i)) = FuncAt(m, i)
<1>1. m \in Modules /\ p \in Modules /\ p.fimp = m.fimp /\ p.funcs = Without(m.funcs, Gone(m))
  BY TrimmedIs DEF Whole
<1>2. PICK a, b, c, s, t, gone : /\ a = m.fimp /\ b = Ids(m) /\ c = Ids(p) /\ s = m.funcs /\ t = p.funcs
                                 /\ gone = Gone(m)
  OBVIOUS
<1>3. /\ a \in Seq(Symbols) /\ b \in Seq(Symbols) /\ c \in Seq(Symbols) /\ s \in Seq(Bodies) /\ t \in Seq(Bodies)
      /\ Len(b) = Len(s) /\ Len(c) = Len(t)
      /\ \A k \in 1 .. Len(s) : b[k] = s[k].id
      /\ \A k \in 1 .. Len(t) : c[k] = t[k].id
  BY <1>1, <1>2, ModuleFields, IdsOf
<1>4. /\ dead \subseteq Nat /\ IsFiniteSet(dead) /\ \A d \in dead : d >= Len(a)
      /\ gone = {d - Len(a) : d \in dead} /\ gone \subseteq 0 .. Len(s) - 1
  BY <1>2, DeadIs
<1>5. PICK l \in Nat, n \in Nat, k \in Nat : l = Len(a) /\ n = Len(s) /\ k = Len(t)
  BY <1>3, Entries
<1>6. NFuncs(m) = l + n /\ NFuncs(p) = l + k  BY <1>1, <1>2, <1>5 DEF NFuncs
<1>7. i \in Nat /\ i < l + n  BY <1>6 DEF Numbers
<1>8. FuncAt(m, i) = Numbered(a, b, i) /\ FuncAt(p, NewNumber(dead, i)) = Numbered(a, c, NewNumber(dead, i))
  BY <1>1, <1>2 DEF FuncAt
<1>9. CASE i < l
  <2>1. NewNumber(dead, i) = i
    <3>1. \A d \in dead : d >= l  BY <1>4, <1>5
    <3>2. gone = {d - l : d \in dead}  BY <1>4, <1>5
    <3>3. QED  BY <3>1, <3>2, <1>4, <1>7, <1>9, LowShift
  <2>2. i < Len(a) + Len(b) /\ i < Len(a) + Len(c) /\ i < Len(a)  BY <1>3, <1>5, <1>7, <1>9
  <2>3. Numbered(a, b, i) = a[i + 1]  BY <2>2, <1>3, <1>7, NumberedAt
  <2>4. Numbered(a, c, i) = a[i + 1]  BY <2>2, <1>3, <1>7, NumberedAt
  <2>5. i < l + k  BY <1>5, <1>7, <1>9
  <2>6. QED  BY <2>1, <2>3, <2>4, <2>5, <1>6, <1>7, <1>8
<1>10. CASE i >= l
  <2>1. PICK j \in Nat : j = i - l  BY <1>7, <1>10
  <2>2. NewNumber(dead, i) = l + NewNumber(gone, j)
    <3>1. \A d \in dead : d >= l  BY <1>4, <1>5
    <3>2. gone = {d - l : d \in dead}  BY <1>4, <1>5
    <3>3. QED  BY <2>1, <3>1, <3>2, <1>4, <1>7, <1>10, LowShift
  <2>3. j \notin gone
    <3>1. SUFFICES ASSUME NEW d \in dead, j = d - l PROVE FALSE  BY <1>4, <1>5
    <3>2. d \in Nat  BY <1>4
    <3>3. d = i  BY <2>1, <3>1, <3>2, <1>7
    <3>4. QED  BY <3>3
  <2>4. t = Without(s, gone)  BY <1>1, <1>2
  <2>5. j \in 0 .. Len(s) - 1  BY <2>1, <1>5, <1>7
  <2>6. PICK h : h = NewNumber(gone, j)  OBVIOUS
  <2>7. h \in Nat /\ h < Len(t) /\ t[h + 1] = s[j + 1]
    <3>1. s \in Seq(Bodies) /\ gone \subseteq 0 .. Len(s) - 1  BY <1>3, <1>4
    <3>2. NewNumber(gone, j) \in Nat  BY <3>1, <2>1, WithoutWorks
    <3>3. /\ NewNumber(gone, j) < Len(Without(s, gone))
          /\ Without(s, gone)[NewNumber(gone, j) + 1] = s[j + 1]
      <4>1. PICK S : S = Bodies  OBVIOUS
      <4>2. s \in Seq(S) /\ gone \subseteq 0 .. Len(s) - 1  BY <3>1, <4>1
      <4>3. \A x \in 0 .. Len(s) - 1 : x \notin gone =>
              /\ NewNumber(gone, x) < Len(Without(s, gone))
              /\ Without(s, gone)[NewNumber(gone, x) + 1] = s[x + 1]
        BY <4>2, WithoutWorks, ZenonT(30)
      <4>4. QED  BY <4>3, <2>3, <2>5
    <3>4. QED  BY <3>2, <3>3, <2>4, <2>6
  <2>8. Numbered(a, b, i) = b[j + 1]
    <3>1. i < Len(a) + Len(b) /\ i >= Len(a)  BY <1>3, <1>5, <1>7, <1>10
    <3>2. Numbered(a, b, i) = b[i - Len(a) + 1]  BY <3>1, <1>3, <1>7, NumberedAt
    <3>3. QED  BY <3>2, <2>1, <1>5
  <2>9. l + h \in Nat /\ l + h < l + k /\ (l + h) - l + 1 = h + 1  BY <2>7, <1>5
  <2>10. Numbered(a, c, l + h) = c[h + 1]
    <3>1. PICK x \in Nat : x = l + h  BY <2>9
    <3>2. x < Len(a) + Len(c) /\ x >= Len(a) /\ x - Len(a) + 1 = h + 1  BY <3>1, <2>7, <2>9, <1>3, <1>5
    <3>3. Numbered(a, c, x) = c[x - Len(a) + 1]  BY <3>2, <1>3, NumberedAt
    <3>4. QED  BY <3>1, <3>2, <3>3
  <2>11. b[j + 1] = s[j + 1].id  BY <2>5, <1>3, <1>5
  <2>12. c[h + 1] = t[h + 1].id  BY <2>7, <1>3, <1>5
  <2>13. QED  BY <2>2, <2>6, <2>7, <2>8, <2>9, <2>10, <2>11, <2>12, <1>6, <1>8
<1>11. QED  BY <1>7, <1>9, <1>10

\* What is left refers only to functions that are kept.
LEMMA AliveRefs ==
  ASSUME NEW m, Whole(m), NEW p, p = Trimmed(m), NEW r \in AllRefs(p)
  PROVE  /\ r \in AllRefs(m) /\ r \in Refs /\ InRange(m, r)
         /\ r.kind # "glob" => FuncNum(m, r) \in Numbers(m) /\ FuncNum(m, r) \notin Dead(m)
<1>1. /\ m \in Modules /\ p \in Modules /\ p.table = m.table /\ p.funcs = Without(m.funcs, Gone(m))
      /\ \A n \in 1 .. Len(p.exps) : \E k \in Alive(m) : p.exps[n] = m.exps[k]
  BY TrimmedIs DEF Whole
<1>2. \A i \in Mark(m) : i \in Numbers(m) /\ i \notin Dead(m)  BY DeadIs
<1>3. \A i \in Roots(m) : i \in Mark(m)  BY MarkWorks
<1>4. \A k \in 1 .. Len(m.table) : m.table[k].idx \in Mark(m)  BY <1>3, RootsAre
<1>5. ASSUME NEW q \in AllRefs(m), q.kind = "slot"
      PROVE  FuncNum(m, q) \in Numbers(m) /\ FuncNum(m, q) \notin Dead(m)
  <2>1. q \in Refs /\ InRange(m, q)  BY <1>5, <1>1, AllRefsAre DEF Whole
  <2>2. PICK l \in Nat : l = Len(m.table)  BY <1>1, ModuleFields
  <2>3. q.idx \in Nat /\ q.idx < l  BY <2>1, <2>2, <1>5 DEF Refs, InRange
  <2>4. q.idx + 1 \in 1 .. l  BY <2>3
  <2>5. FuncNum(m, q) = m.table[q.idx + 1].idx  BY <1>5 DEF FuncNum
  <2>6. QED  BY <2>2, <2>4, <2>5, <1>2, <1>4
<1>6. ASSUME NEW q \in AllRefs(m), q.kind = "func", q.idx \notin Dead(m)
      PROVE  FuncNum(m, q) \in Numbers(m) /\ FuncNum(m, q) \notin Dead(m)
  <2>1. FuncNum(m, q) = q.idx  BY <1>6 DEF FuncNum
  <2>2. QED  BY <2>1, <1>6, FuncRefIn
<1>7. SUFFICES ASSUME TRUE PROVE r \in AllRefs(m) /\ (r.kind = "func" => r.idx \notin Dead(m))
  <2>1. ASSUME r \in AllRefs(m) PROVE r \in Refs /\ InRange(m, r)  BY <2>1, <1>1, AllRefsAre DEF Whole
  <2>2. r \in Refs => r.kind \in {"func", "glob", "slot"}  BY DEF Refs
  <2>3. QED  BY <2>1, <2>2, <1>5, <1>6
<1>8. CASE \E h \in 1 .. Len(p.funcs) : r \in p.funcs[h].refs
  <2>1. PICK h \in 1 .. Len(p.funcs) : r \in p.funcs[h].refs  BY <1>8
  <2>2. PICK s, t, gone : s = m.funcs /\ t = p.funcs /\ gone = Gone(m)  OBVIOUS
  <2>3. s \in Seq(Bodies) /\ gone \subseteq 0 .. Len(s) - 1 /\ t = Without(s, gone)
    BY <2>2, <1>1, ModuleFields, DeadIs
  <2>4. PICK K : K = {k \in DOMAIN s : k - 1 \notin gone}  OBVIOUS
  <2>5. t = Kept(s, K) /\ K \subseteq DOMAIN s  BY <2>3, <2>4 DEF Without
  <2>6. PICK k \in K : t[h] = s[k]  BY <2>1, <2>2, <2>3, <2>5, KeptWorks
  <2>7. PICK l \in Nat, n \in Nat : l = Len(m.fimp) /\ n = Len(s)  BY <1>1, <2>2, ModuleFields
  <2>8. DOMAIN s = 1 .. n  BY <2>3, <2>7, Entries
  <2>9. k \in 1 .. n /\ k - 1 \notin gone  BY <2>4, <2>8
  <2>10. PICK i \in Nat : i = l + k - 1  BY <2>9
  <2>11. i \in Numbers(m) /\ i >= l /\ i - l + 1 = k
    <3>1. NFuncs(m) = l + n  BY <2>2, <2>7 DEF NFuncs
    <3>2. Numbers(m) = 0 .. (l + n) - 1  BY <3>1 DEF Numbers
    <3>3. QED  BY <3>2, <2>9, <2>10
  <2>12. i \notin Dead(m)
    <3>1. SUFFICES ASSUME i \in Dead(m) PROVE k - 1 \in gone  BY <2>9
    <3>2. gone = {d - l : d \in Dead(m)}  BY <2>2, <2>7, DeadIs
    <3>3. k - 1 = i - l  BY <2>9, <2>10
    <3>4. QED  BY <3>1, <3>2, <3>3
  <2>13. i \in Mark(m)  BY <2>7, <2>11, <2>12, DeadIs
  <2>14. Calls(m, i) \subseteq Mark(m)  BY <2>13, MarkWorks DEF Closed
  <2>15. r \in m.funcs[k].refs  BY <2>1, <2>2, <2>6
  <2>16. r \in AllRefs(m)  BY <2>15, <2>2, <2>7, <2>9, <1>1, AllRefsAre
  <2>17. r.kind = "func" => r.idx \in Calls(m, i)
    <3>1. \A x : x \in Calls(m, i) <=> \E q \in m.funcs[i - Len(m.fimp) + 1].refs : q.kind = "func" /\ q.idx = x
      BY <2>7, <2>11, <1>1, CallsAre
    <3>2. i - Len(m.fimp) + 1 = k  BY <2>7, <2>11
    <3>3. QED  BY <3>1, <3>2, <2>15
  <2>18. QED  BY <2>14, <2>16, <2>17, <1>2
<1>9. CASE \E k \in 1 .. Len(p.table) : r = p.table[k]
  <2>1. PICK k \in 1 .. Len(m.table) : r = m.table[k]  BY <1>9, <1>1
  <2>2. r \in AllRefs(m)  BY <2>1, <1>1, AllRefsAre
  <2>3. r.idx \in Mark(m)  BY <2>1, <1>4
  <2>4. QED  BY <2>2, <2>3, <1>2
<1>10. CASE \E k \in 1 .. Len(p.exps) : r = p.exps[k].ref
  <2>1. PICK k \in Alive(m) : r = m.exps[k].ref  BY <1>10, <1>1
  <2>2. k \in 1 .. Len(m.exps)  BY <1>1, ModuleFields DEF Alive
  <2>3. r \in AllRefs(m)  BY <2>1, <2>2, <1>1, AllRefsAre
  <2>4. r.kind = "func" => r.idx \notin Dead(m)  BY <2>1 DEF Alive
  <2>5. QED  BY <2>3, <2>4
<1>11. QED  BY <1>1, <1>8, <1>9, <1>10, AllRefsAre

\* The eliminated module: what is left, renumbered.
Eliminates(m, n, p, F, dead) ==
  /\ Whole(m) /\ p = Trimmed(m) /\ dead = Dead(m)
  /\ F \in [Nat -> Nat] /\ \A i \in Nat : F[i] = NewNumber(dead, i)
  /\ Renumbers(n, p, F, Same, Same, p.fimp, p.gimp)

\* Eliminate is a renumbering of what is left.
LEMMA EliminatesIs ==
  ASSUME NEW m, Whole(m), NEW n, n = Eliminate(m)
  PROVE  \E p, F, dead : Eliminates(m, n, p, F, dead)
<1>1. PICK p, dead : p = Trimmed(m) /\ dead = Dead(m)  OBVIOUS
<1>2. p \in Modules  BY <1>1, TrimmedIs
<1>3. dead \subseteq Nat /\ IsFiniteSet(dead)  BY <1>1, DeadIs
<1>4. ASSUME NEW i \in Nat PROVE NewNumber(dead, i) \in Nat
  <2>1. PICK low : low = {d \in dead : d < i}  OBVIOUS
  <2>2. IsFiniteSet(0 .. i - 1) /\ Cardinality(0 .. i - 1) = i  BY FS_Interval
  <2>8. \A d \in low : d \in Nat /\ d < i  BY <2>1, <1>3
  <2>3. low \subseteq 0 .. i - 1  BY <2>8
  <2>4. IsFiniteSet(low) /\ Cardinality(low) <= i  BY <2>2, <2>3, FS_Subset
  <2>5. Cardinality(low) \in Nat  BY <2>4, FS_CardinalityType
  <2>6. NewNumber(dead, i) = i - Cardinality(low)  BY <2>1 DEF NewNumber
  <2>7. QED  BY <2>4, <2>5, <2>6
<1>5. PICK F : F = [i \in Nat |-> NewNumber(dead, i)]  OBVIOUS
<1>6. F \in [Nat -> Nat] /\ \A i \in Nat : F[i] = NewNumber(dead, i)  BY <1>4, <1>5
<1>7. n = Reindex(p, F, Same, Same)  BY <1>1, <1>5, EliminateIs
<1>8. PICK S : S = Same  OBVIOUS
<1>9. n = [fimp |-> p.fimp, gimp |-> p.gimp, funcs |-> MovedFuncs(p.funcs, F, S, S), globs |-> p.globs,
           exps |-> MovedExps(p.exps, F, S, S), table |-> MovedTable(p.table, F, S, S),
           start |-> {F[i] : i \in p.start}]
  BY <1>2, <1>7, <1>8, ReindexIs
<1>10. n = Renumber(p, F, S, S, p.fimp, p.gimp)  BY <1>9 DEF Renumber
<1>11. p.fimp \in Seq(Symbols) /\ p.gimp \in Seq(Symbols)  BY <1>2, ModuleFields
<1>12. Renumbers(n, p, F, Same, Same, p.fimp, p.gimp)
  BY <1>2, <1>6, <1>8, <1>10, <1>11, SameIs DEF Renumbers
<1>13. Eliminates(m, n, p, F, dead)  BY <1>1, <1>6, <1>12 DEF Eliminates
<1>14. QED  BY <1>13

\* The spaces of the eliminated module.
LEMMA EliminatedSpaces ==
  ASSUME NEW m, NEW n, NEW p, NEW F, NEW dead, Eliminates(m, n, p, F, dead)
  PROVE  /\ n \in Modules /\ NFuncs(n) = NFuncs(p) /\ NGlobs(n) = NGlobs(m)
         /\ \A i : FuncAt(n, i) = FuncAt(p, i) /\ GlobAt(n, i) = GlobAt(m, i)
         /\ TableMoved(m, n, F, Same, Same) /\ InTable(n)
         /\ n.start = {F[i] : i \in m.start}
         /\ \A q \in AllRefs(n) : \E r \in AllRefs(p) : q = Move(r, F, Same, Same)
<1>1. Whole(m) /\ p = Trimmed(m) /\ F \in [Nat -> Nat]  BY DEF Eliminates
<1>2. /\ p \in Modules /\ p.gimp = m.gimp /\ p.globs = m.globs /\ p.table = m.table /\ p.start = m.start
  BY <1>1, TrimmedIs
<1>3. PICK S, fi, gi : S = Same /\ fi = p.fimp /\ gi = p.gimp  OBVIOUS
<1>4. Renumbers(n, p, F, S, S, fi, gi)  BY <1>3 DEF Eliminates
<1>5. /\ n \in Modules /\ n.fimp = fi /\ n.gimp = gi /\ n.globs = p.globs
      /\ Ids(n) = Ids(p) /\ Len(n.funcs) = Len(p.funcs)
      /\ Len(n.table) = Len(p.table)
      /\ \A k \in 1 .. Len(p.table) : n.table[k] = Move(p.table[k], F, S, S)
      /\ InTable(p) => InTable(n)
      /\ n.start = {F[i] : i \in p.start}
      /\ \A q \in AllRefs(n) : \E r \in AllRefs(p) : q = Move(r, F, S, S)
  BY <1>4, RenumberWorks
<1>6. InTable(n)
  <2>1. InTable(m)  BY <1>1 DEF Whole
  <2>2. InTable(p)  BY <2>1, <1>2 DEF InTable
  <2>3. QED  BY <2>2, <1>5
<1>7. TableMoved(m, n, F, Same, Same)
  <2>1. PICK l \in Nat : l = Len(m.table)  BY <1>2, ModuleFields
  <2>2. \A i \in 0 .. l - 1 : i + 1 \in 1 .. l  OBVIOUS
  <2>3. \A i \in 0 .. l - 1 : Same[i] = i /\ i < l  BY SameIs
  <2>4. Len(n.table) = l /\ \A k \in 1 .. l : n.table[k] = Move(m.table[k], F, Same, Same)
    BY <2>1, <1>2, <1>3, <1>5
  <2>5. \A i \in 0 .. l - 1 : Same[i] < l /\ n.table[Same[i] + 1] = Move(m.table[i + 1], F, Same, Same)
    BY <2>2, <2>3, <2>4
  <2>6. QED  BY <2>1, <2>4, <2>5 DEF TableMoved
<1>8. NFuncs(n) = NFuncs(p) /\ NGlobs(n) = NGlobs(m)  BY <1>2, <1>3, <1>5 DEF NFuncs, NGlobs
<1>9. \A i : FuncAt(n, i) = FuncAt(p, i) /\ GlobAt(n, i) = GlobAt(m, i)
  BY <1>2, <1>3, <1>5 DEF FuncAt, GlobAt
<1>10. QED  BY <1>2, <1>3, <1>5, <1>6, <1>7, <1>8, <1>9

\* Dead code elimination takes away no function that is still referred to.
LEMMA EliminateWorks ==
  ASSUME NEW m, NEW U, NEW H, Linked(m, U, H), NEW n, n = Eliminate(m)
  PROVE  Linked(n, U, H)
<1>1. Whole(m) /\ m \in Modules /\ Surely(m, U, H) /\ InTable(m)  BY DEF Linked, Whole
<1>2. PICK p, F, dead : Eliminates(m, n, p, F, dead)  BY <1>1, EliminatesIs
<1>3. /\ p = Trimmed(m) /\ dead = Dead(m) /\ F \in [Nat -> Nat]
      /\ \A i \in Nat : F[i] = NewNumber(dead, i)
  BY <1>2 DEF Eliminates
<1>4. /\ n \in Modules /\ NFuncs(n) = NFuncs(p) /\ NGlobs(n) = NGlobs(m)
      /\ \A i : FuncAt(n, i) = FuncAt(p, i) /\ GlobAt(n, i) = GlobAt(m, i)
      /\ TableMoved(m, n, F, Same, Same) /\ InTable(n)
      /\ n.start = {F[i] : i \in m.start}
      /\ \A q \in AllRefs(n) : \E r \in AllRefs(p) : q = Move(r, F, Same, Same)
  BY <1>2, EliminatedSpaces
<1>5. ASSUME NEW i \in Numbers(m), i \notin dead
      PROVE  F[i] < NFuncs(n) /\ FuncAt(n, F[i]) = FuncAt(m, i)
  <2>1. i \in Nat  BY DEF Numbers
  <2>2. F[i] = NewNumber(dead, i)  BY <2>1, <1>3
  <2>3. NewNumber(dead, i) < NFuncs(p) /\ FuncAt(p, NewNumber(dead, i)) = FuncAt(m, i)
    BY <1>1, <1>3, <1>5, AliveAt
  <2>4. QED  BY <2>2, <2>3, <1>4
<1>6. ASSUME NEW r \in AllRefs(p)
      PROVE  /\ Move(r, F, Same, Same) \in Refs /\ InRange(n, Move(r, F, Same, Same))
             /\ Denotes(n, Move(r, F, Same, Same)) = Denotes(m, r)
             /\ Move(r, F, Same, Same).kind = r.kind /\ Move(r, F, Same, Same).sym = r.sym
             /\ r \in AllRefs(m)
  <2>1. /\ r \in AllRefs(m) /\ r \in Refs /\ InRange(m, r)
        /\ r.kind # "glob" => FuncNum(m, r) \in Numbers(m) /\ FuncNum(m, r) \notin dead
    BY <1>1, <1>3, <1>6, AliveRefs
  <2>2. PICK S : S = Same  OBVIOUS
  <2>3. S \in [Nat -> Nat] /\ (\A i \in Nat : S[i] = i) /\ TableMoved(m, n, F, S, S)
    BY <2>2, <1>4, SameIs
  <2>4. r.kind = "func" => F[r.idx] < NFuncs(n)
    <3>1. SUFFICES ASSUME r.kind = "func" PROVE F[r.idx] < NFuncs(n)  OBVIOUS
    <3>2. FuncNum(m, r) = r.idx /\ r.kind # "glob"  BY <3>1 DEF FuncNum
    <3>3. QED  BY <3>2, <2>1, <1>5
  <2>5. r.kind = "glob" => r.idx \in Nat /\ S[r.idx] = r.idx /\ S[r.idx] < NGlobs(n)
    <3>1. SUFFICES ASSUME r.kind = "glob" PROVE r.idx \in Nat /\ r.idx < NGlobs(m)  BY <2>3, <1>4
    <3>2. QED  BY <3>1, <2>1 DEF Refs, InRange
  <2>6. /\ Move(r, F, S, S) \in Refs /\ InRange(n, Move(r, F, S, S))
        /\ Denotes(n, Move(r, F, S, S)) = IF r.kind = "glob" THEN GlobAt(n, S[r.idx])
                                                             ELSE FuncAt(n, F[FuncNum(m, r)])
    BY <2>1, <2>3, <2>4, <2>5, <1>1, <1>3, <1>4, MovedDenotes
  <2>7. Denotes(m, r) = IF r.kind = "glob" THEN GlobAt(m, r.idx) ELSE FuncAt(m, FuncNum(m, r))
    BY <2>1, <1>1, DenotesIs
  <2>8. Move(r, F, S, S).kind = r.kind /\ Move(r, F, S, S).sym = r.sym
    BY <2>1, <2>3, <1>3, MoveKeeps
  <2>9. Denotes(n, Move(r, F, S, S)) = Denotes(m, r)
    <3>1. CASE r.kind = "glob"  BY <3>1, <2>5, <2>6, <2>7, <1>4
    <3>2. CASE r.kind # "glob"  BY <3>2, <2>1, <2>6, <2>7, <1>5
    <3>3. QED  BY <3>1, <3>2
  <2>10. QED  BY <2>1, <2>2, <2>6, <2>8, <2>9
<1>7. ASSUME NEW q \in AllRefs(n)
      PROVE  InRange(n, q) /\ (Sure(U, q) => Denotes(n, q) = Meaning(U, H, q.kind, q.sym))
  <2>1. PICK r \in AllRefs(p) : q = Move(r, F, Same, Same)  BY <1>4
  <2>2. Sure(U, r) => Denotes(m, r) = Meaning(U, H, r.kind, r.sym)  BY <2>1, <1>1, <1>6 DEF Surely
  <2>3. QED  BY <2>1, <2>2, <1>6 DEF Sure
<1>8. ASSUME NEW i \in m.start
      PROVE  F[i] < NFuncs(n) /\ FuncAt(n, F[i]) = StartWrapper
  <2>1. i \in Mark(m)  BY <1>1, RootsAre, MarkWorks
  <2>2. i \in Numbers(m) /\ i \notin dead  BY <2>1, <1>1, <1>3, DeadIs
  <2>3. FuncAt(m, i) = StartWrapper  BY DEF Linked
  <2>4. QED  BY <2>2, <2>3, <1>5
<1>9. Whole(n)  BY <1>4, <1>7, <1>8 DEF Whole
<1>10. QED  BY <1>4, <1>7, <1>8, <1>9 DEF Linked, Surely

\* What each phase hands to the next.
LaterPhases == {"dce", "prune", "diagnose", "end"}
LinkInv ==
  /\ phase \in {"resolve", "crt0"} \cup LaterPhases
  /\ phase = "crt0" => ImportsResolved(out, Units, Host)
  /\ phase \in LaterPhases => Linked(out, Units, Host)

\* Fewer units are linkable, too.
LEMMA LinkableSubset ==
  ASSUME NEW S, Linkable(S), NEW T, T \subseteq S
  PROVE  Linkable(T)
BY DEF Linkable

\* The units merged make up a program as Linkable describes it.
LEMMA ProgramIs ==
  ASSUME ScanTyped
  PROVE  Program(Units, Host)
<1>1. PICK inputs, U : inputs = job.inputs /\ U = Units  OBVIOUS
<1>2. inputs \in Seq(Input) /\ Linkable(SourceUnits(inputs)) /\ Env \notin Host /\ "sys_proc" \in Host
  BY <1>1, JobIs DEF ScanTyped
<1>3. U \subseteq SourceUnits(inputs)  BY <1>1 DEF ScanTyped
<1>4. Linkable(U)  BY <1>2, <1>3, LinkableSubset
<1>5. \A u \in U : u \in TranslationUnit  BY <1>2, <1>3, UnitsTyped
<1>6. QED  BY <1>1, <1>2, <1>4, <1>5 DEF Program

\* The phases, one by one.
LEMMA LinkPhase ==
  ASSUME ScanTyped, NEW from, NEW to, to # "resolve", Phase(from, to)
  PROVE  Units' = Units /\ Host' = Host /\ job' = job /\ phase = from /\ phase' = to
BY PhaseWorks DEF Host

\* Phase 2, resolution, on the merge of the units.
LEMMA LinkResolve ==
  ASSUME ScanTyped, MergeInv, LinkInv, Resolve
  PROVE  LinkInv'
<1>1. Phase("resolve", "crt0") /\ out' = ResolveImports(out, Host)  BY DEF Resolve
<1>2. Units' = Units /\ Host' = Host /\ phase = "resolve" /\ phase' = "crt0"
  BY <1>1, LinkPhase
<1>3. MergedFrom(out, Units) /\ Program(Units, Host)  BY <1>2, ProgramIs DEF MergeInv
<1>4. PICK n : n = ResolveImports(out, Host)  OBVIOUS
<1>5. ImportsResolved(n, Units, Host)  BY <1>3, <1>4, ResolveWorks
<1>6. QED  BY <1>1, <1>2, <1>4, <1>5 DEF LinkInv, LaterPhases

\* Phase 3, crt0.
LEMMA LinkCrt0 ==
  ASSUME ScanTyped, LinkInv, Crt0
  PROVE  LinkInv'
<1>1. Phase("crt0", "dce") /\ out' = Synthesize(out, job.noStdlib)  BY Zenon DEF Crt0
<1>2. Units' = Units /\ Host' = Host /\ phase = "crt0" /\ phase' = "dce"
  BY <1>1, LinkPhase
<1>3. ImportsResolved(out, Units, Host) /\ Program(Units, Host)  BY <1>2, ProgramIs DEF LinkInv
<1>4. PICK n : n = Synthesize(out, job.noStdlib)  OBVIOUS
<1>5. Linked(n, Units, Host)  BY <1>3, <1>4, SynthesizeWorks
<1>6. QED  BY <1>1, <1>2, <1>4, <1>5 DEF LinkInv, LaterPhases

\* Phase 4, dead code elimination.
LEMMA LinkEliminate ==
  ASSUME ScanTyped, LinkInv, DeadCodeElim
  PROVE  LinkInv'
<1>1. Phase("dce", "prune") /\ out' = Eliminate(out)  BY DEF DeadCodeElim
<1>2. Units' = Units /\ Host' = Host /\ phase = "dce" /\ phase' = "prune"
  BY <1>1, LinkPhase
<1>3. Linked(out, Units, Host)  BY <1>2 DEF LinkInv, LaterPhases
<1>4. PICK n : n = Eliminate(out)  OBVIOUS
<1>5. Linked(n, Units, Host)  BY <1>3, <1>4, EliminateWorks
<1>6. QED  BY <1>1, <1>2, <1>4, <1>5 DEF LinkInv, LaterPhases

\* Phase 5, pruning.
LEMMA LinkPrune ==
  ASSUME ScanTyped, LinkInv, Prune
  PROVE  LinkInv'
<1>1. Phase("prune", "diagnose") /\ out' = PruneImports(out, Runtime)  BY DEF Prune
<1>2. Units' = Units /\ Host' = Host /\ phase = "prune" /\ phase' = "diagnose"
  BY <1>1, LinkPhase
<1>3. Linked(out, Units, Host)  BY <1>2 DEF LinkInv, LaterPhases
<1>4. PICK n : n = PruneImports(out, Runtime)  OBVIOUS
<1>5. Linked(n, Units, Host)  BY <1>3, <1>4, PruneWorks
<1>6. QED  BY <1>1, <1>2, <1>4, <1>5 DEF LinkInv, LaterPhases

\* Phase 6, diagnostics: the output stays.
LEMMA LinkDiagnose ==
  ASSUME ScanTyped, LinkInv, Diagnose
  PROVE  LinkInv'
<1>1. Phase("diagnose", "end") /\ out' = out  BY DEF Diagnose
<1>2. Units' = Units /\ Host' = Host /\ phase = "diagnose" /\ phase' = "end"
  BY <1>1, LinkPhase
<1>3. Linked(out, Units, Host)  BY <1>2 DEF LinkInv, LaterPhases
<1>4. QED  BY <1>1, <1>2, <1>3 DEF LinkInv, LaterPhases

\* No phase has run at first.
LEMMA LinkInit == Init => LinkInv
<1>1. Init => phase = "resolve"  BY Zenon DEF Init
<1>2. QED  BY <1>1 DEF LinkInv, LaterPhases

\* Every step hands on what the next phase needs.
LEMMA LinkStep ==
  ASSUME ScanTyped, MergeInv, LinkInv, [Next]_vars
  PROVE  LinkInv'
<1>1. CASE MergeTU
  <2>1. pc = "merge" /\ phase' = phase  BY <1>1 DEF MergeTU, Pull!MergeTU
  <2>2. phase' = "resolve"  BY <2>1 DEF ScanTyped
  <2>3. QED  BY <2>2 DEF LinkInv, LaterPhases
<1>2. CASE PullMember
  <2>1. pc = "member" /\ phase' = phase  BY <1>2 DEF PullMember, Pull!PullMember
  <2>2. phase' = "resolve"  BY <2>1 DEF ScanTyped
  <2>3. QED  BY <2>2 DEF LinkInv, LaterPhases
<1>3. CASE Scan
  <2>1. Units' = Units /\ UNCHANGED <<job, out, phase>>  BY <1>3, ScanWorks
  <2>2. QED  BY <2>1 DEF LinkInv, Host
<1>4. CASE Resolve  BY <1>4, LinkResolve
<1>5. CASE Crt0  BY <1>5, LinkCrt0
<1>6. CASE DeadCodeElim  BY <1>6, LinkEliminate
<1>7. CASE Prune  BY <1>7, LinkPrune
<1>8. CASE Diagnose  BY <1>8, LinkDiagnose
<1>9. CASE UNCHANGED vars
  <2>1. UNCHANGED <<job, cmd, next, archives, exports, imports, pulled, arch, pc, out, phase>>
    BY <1>9 DEF vars, scanVars
  <2>2. Units' = Units  BY <2>1, ScanSame DEF ScanTyped
  <2>3. QED  BY <2>1, <2>2 DEF LinkInv, Host
<1>10. QED  BY <1>1, <1>2, <1>3, <1>4, <1>5, <1>6, <1>7, <1>8, <1>9 DEF Next, Finished

\* UndefinedObjects is empty exactly when each extern object is public in some unit.
LEMMA NoneUndefinedIs == UndefinedObjects = {} <=> NoneUndefined(Units)
BY DEF UndefinedObjects, ObjectDefined, NoneUndefined

\* No renumbering loses a reference.
LEMMA FaithfulIs ==
  ASSUME ScanTyped, MergeInv, LinkInv
  PROVE  RefsFaithful
<1>1. CASE phase = "resolve"
  <2>1. Named(out) /\ out.start = {}  BY <1>1 DEF MergeInv, MergedFrom
  <2>2. QED  BY <1>1, <2>1 DEF RefsFaithful, Faithful, Named
<1>2. CASE phase = "crt0"
  <2>1. Meant(out, Units, Host) /\ out.start = {}  BY <1>2 DEF LinkInv, ImportsResolved
  <2>2. \A r \in AllRefs(out) : Denotes(out, r) = Means(r.kind, r.sym)  BY <2>1, MeansIs DEF Meant
  <2>3. phase # "resolve"  BY <1>2
  <2>4. QED  BY <2>1, <2>2, <2>3 DEF RefsFaithful, Faithful
<1>3. CASE phase \in LaterPhases
  <2>1. phase # "resolve" /\ phase \notin {"resolve", "crt0"}  BY <1>3 DEF LaterPhases
  <2>2. Surely(out, Units, Host) /\ \A i \in out.start : FuncAt(out, i) = StartWrapper
    BY <1>3 DEF LinkInv, Linked
  <2>3. ASSUME NEW r \in AllRefs(out), r.kind # "glob" \/ phase \in {"resolve", "crt0"} \/ UndefinedObjects = {}
        PROVE  Faithful(r)
    <3>1. Sure(Units, r)  BY <2>1, <2>3, NoneUndefinedIs DEF Sure
    <3>2. Denotes(out, r) = Means(r.kind, r.sym)  BY <3>1, <2>2, MeansIs DEF Surely
    <3>3. QED  BY <3>2, <2>1 DEF Faithful
  <2>4. QED  BY <2>2, <2>3 DEF RefsFaithful
<1>4. QED  BY <1>1, <1>2, <1>3 DEF LinkInv

\* No renumbering loses a reference: at every phase boundary each call, table slot, global access and export
\* of the output denotes the very definition the source meant, whatever the number of units (RefsFaithful).
THEOREM RefsCorrect == Spec => []RefsFaithful
<1>1. Init => ScanTyped /\ MergeInv /\ LinkInv  BY ScanInit, MergeInit, LinkInit
<1>2. ScanTyped /\ MergeInv /\ LinkInv /\ [Next]_vars => ScanTyped' /\ MergeInv' /\ LinkInv'
  BY MergeStep, LinkStep
<1>3. ScanTyped /\ MergeInv /\ LinkInv => RefsFaithful  BY FaithfulIs
<1>4. QED  BY <1>1, <1>2, <1>3, PTL DEF Spec
=============================================================================
