---- MODULE SetFacts ----
(***************************************************************************)
(* Facts about sets of positions of a ledger that the proofs about several  *)
(* components need: a non-empty bounded set has a greatest member, which is *)
(* what Max chooses; what the cardinalities 0 and 1 say of a set; and how a *)
(* count of marked positions changes as the ledger grows at its end.        *)
(***************************************************************************)
EXTENDS Integers, FiniteSetsExt, FiniteSetTheorems, WellFoundedInduction, TLAPS

\* The order of the natural numbers is well-founded, with its relation written out.
LEMMA LessThanWellFounded == IsWellFoundedOn({ss \in Nat \X Nat : ss[1] < ss[2]}, Nat)
  BY NatLessThanWellFounded DEF OpToRel

\* A non-empty set of natural numbers has a least member.
LEMMA LeastExists ==
    ASSUME NEW S, S \subseteq Nat, S # {}
    PROVE  \E x \in S : \A y \in S : x <= y
  <1> DEFINE R == {ss \in Nat \X Nat : ss[1] < ss[2]}
  <1>1. IsWellFoundedOn(R, Nat)
    BY LessThanWellFounded
  <1> HIDE DEF R
  <1>2. PICK x \in S : \A y \in S : <<y, x>> \notin R
    BY <1>1, WFMin
  <1>3. ASSUME NEW y \in S PROVE x <= y
    <2>1. x \in Nat /\ y \in Nat /\ ~(y < x)
      <3>1. <<y, x>> \in Nat \X Nat
        OBVIOUS
      <3>2. <<y, x>>[1] = y /\ <<y, x>>[2] = x
        OBVIOUS
      <3> QED BY <1>2, <3>1, <3>2 DEF R
    <2> QED BY <2>1
  <1> QED BY <1>3

\* A non-empty set of natural numbers up to n has a greatest member.
LEMMA GreatestExists ==
    ASSUME NEW n \in Nat, NEW S, S \subseteq 0..n, S # {}
    PROVE  \E x \in S : \A y \in S : x >= y
  <1> DEFINE T == {m \in Nat : \E x \in S : m = n - x}
  <1>1. T \subseteq Nat /\ T # {}
    <2>1. PICK x \in S : x \in 0..n
      OBVIOUS
    <2>2. n - x \in Nat
      BY <2>1
    <2> QED BY <2>1, <2>2
  <1>2. PICK t \in T : \A u \in T : t <= u
    <2> HIDE DEF T
    <2> QED BY <1>1, LeastExists
  <1>3. PICK x \in S : t = n - x
    OBVIOUS
  <1>4. ASSUME NEW y \in S PROVE x >= y
    <2>1. x \in 0..n /\ y \in 0..n
      OBVIOUS
    <2>2. n - y \in T
      BY <2>1
    <2>3. t <= n - y
      BY <1>2, <2>2
    <2> QED BY <1>3, <2>1, <2>3
  <1> QED BY <1>4

\* Max is a member that none exceeds.
LEMMA MaxFacts ==
    ASSUME NEW n \in Nat, NEW S, S \subseteq 0..n, S # {}
    PROVE  Max(S) \in S /\ \A y \in S : y <= Max(S)
  <1>1. PICK x \in S : \A y \in S : x >= y
    BY GreatestExists
  <1>2. Max(S) \in S /\ \A y \in S : Max(S) >= y
    BY <1>1 DEF Max
  <1> QED BY <1>2

\* A member that none exceeds is the maximum.
LEMMA MaxUnique ==
    ASSUME NEW n \in Nat, NEW S, S \subseteq 0..n, NEW x \in S, \A y \in S : y <= x
    PROVE  Max(S) = x
  <1>1. Max(S) \in S /\ x <= Max(S)
    BY MaxFacts
  <1>2. Max(S) \in 0..n /\ x \in 0..n /\ Max(S) <= x
    BY <1>1
  <1> QED BY <1>1, <1>2

\* Positions up to n are finitely many.
LEMMA PositionsFinite ==
    ASSUME NEW n \in Nat, NEW S, S \subseteq 1..n
    PROVE  IsFiniteSet(S)
  <1>1. IsFiniteSet(1..n)
    BY FS_Interval
  <1> QED BY <1>1, FS_Subset

\* One position at most.
LEMMA AtMostOne ==
    ASSUME NEW n \in Nat, NEW S, S \subseteq 1..n
    PROVE  Cardinality(S) <= 1 <=> \A x, y \in S : x = y
  <1>1. IsFiniteSet(S) /\ Cardinality(S) \in Nat
    BY PositionsFinite, FS_CardinalityType
  <1>2. Cardinality(S) = 0 <=> S = {}
    BY <1>1, FS_EmptySet
  <1>3. Cardinality(S) = 1 <=> \E x : S = {x}
    BY <1>1, FS_Singleton
  <1>4. (\A x, y \in S : x = y) <=> S = {} \/ \E x : S = {x}
    <2>1. ASSUME \A x, y \in S : x = y, S # {} PROVE \E x : S = {x}
      <3>1. PICK x \in S : TRUE
        BY <2>1
      <3>2. S = {x}
        BY <2>1, <3>1
      <3> QED BY <3>2
    <2> QED BY <2>1
  <1> QED BY <1>1, <1>2, <1>3, <1>4

\* Exactly one position.
LEMMA ExactlyOne ==
    ASSUME NEW n \in Nat, NEW S, S \subseteq 1..n
    PROVE  Cardinality(S) = 1 <=> \E x : S = {x}
  BY PositionsFinite, FS_Singleton

\* k further positions after the n first ones.
LEMMA CountExtended ==
    ASSUME NEW n \in Nat, NEW k \in Nat, NEW S, S \subseteq 1..n
    PROVE  Cardinality(S \cup ((n + 1)..(n + k))) = Cardinality(S) + k
  <1> DEFINE T == (n + 1)..(n + k)
  <1>1. IsFiniteSet(S) /\ Cardinality(S) \in Nat
    BY PositionsFinite, FS_CardinalityType
  <1>2. IsFiniteSet(T) /\ Cardinality(T) = k
    <2>1. IsFiniteSet(T) /\ Cardinality(T) = IF n + 1 > n + k THEN 0 ELSE (n + k) - (n + 1) + 1
      BY FS_Interval, n + 1 \in Int, n + k \in Int
    <2> HIDE DEF T
    <2> QED BY <2>1
  <1>3. S \cap T = {}
    OBVIOUS
  <1> HIDE DEF T
  <1>4. Cardinality(S \cap T) = 0
    BY <1>3, FS_EmptySet
  <1>5. Cardinality(S \cup T) = Cardinality(S) + Cardinality(T) - Cardinality(S \cap T)
    BY <1>1, <1>2, FS_Union
  <1>6. Cardinality(S \cup T) = Cardinality(S) + k
    BY <1>1, <1>2, <1>4, <1>5
  <1> QED BY <1>6 DEF T

\* Further positions do not precede the earlier ones, and each is preceded by all of those.
LEMMA RanksExtended ==
    ASSUME NEW n \in Nat, NEW k \in Nat, NEW S, S \subseteq 1..n
    PROVE  /\ \A i \in 1..(n + 1) : {j \in S \cup ((n + 1)..(n + k)) : j < i} = {j \in S : j < i}
           /\ \A m \in 1..k : Cardinality({j \in S \cup ((n + 1)..(n + k)) : j < n + m}) = Cardinality(S) + (m - 1)
  <1>1. \A i \in 1..(n + 1) : {j \in S \cup ((n + 1)..(n + k)) : j < i} = {j \in S : j < i}
    OBVIOUS
  <1>2. ASSUME NEW m \in 1..k
        PROVE  Cardinality({j \in S \cup ((n + 1)..(n + k)) : j < n + m}) = Cardinality(S) + (m - 1)
    <2>1. m - 1 \in Nat /\ m <= k
      OBVIOUS
    <2>2. ASSUME NEW j
          PROVE  (j \in S \cup ((n + 1)..(n + k)) /\ j < n + m) <=> j \in S \cup ((n + 1)..(n + (m - 1)))
      <3>1. j \in S => j \in Nat /\ j <= n
        OBVIOUS
      <3>2. j \in (n + 1)..(n + k) /\ j < n + m <=> j \in (n + 1)..(n + (m - 1))
        BY <2>1
      <3> QED BY <3>1, <3>2
    <2>3. {j \in S \cup ((n + 1)..(n + k)) : j < n + m} = S \cup ((n + 1)..(n + (m - 1)))
      BY <2>2
    <2>4. Cardinality(S \cup ((n + 1)..(n + (m - 1)))) = Cardinality(S) + (m - 1)
      BY <2>1, CountExtended
    <2> QED BY <2>3, <2>4
  <1> QED BY <1>1, <1>2
====
