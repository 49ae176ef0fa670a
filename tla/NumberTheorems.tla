--------------------------- MODULE NumberTheorems ---------------------------
(***************************************************************************)
(* Facts about naturals, powers of two and division that the proofs of     *)
(* several components rest on.  Induction over a number takes the least    *)
(* one at which a statement fails (LeastNat).                              *)
(***************************************************************************)
EXTENDS Integers, FiniteSetTheorems, FunctionTheorems, WellFoundedInduction, TLAPS

-----------------------------------------------------------------------------
(* Least numbers and powers of two.                                        *)

(* A set of naturals has a least one. *)
LEMMA LeastNat ==
    ASSUME NEW T, T \subseteq Nat, T # {}
    PROVE  \E x \in T : \A y \in T : x <= y
<1>. DEFINE R == StrictSubsetOrdering(Nat)
            U == {0 .. k : k \in T}
<1>1. U \subseteq FiniteSubsetsOf(Nat) /\ U # {}
  <2>1. \A k \in T : k \in Nat /\ IsFiniteSet(0 .. k) /\ 0 .. k \in SUBSET Nat
      BY FS_Interval
  <2>. QED BY <2>1 DEF FiniteSubsetsOf
<1>2. IsWellFoundedOn(R, FiniteSubsetsOf(Nat))
    BY FS_StrictSubsetOrderingWellFounded
<1>3. PICK m \in U : \A v \in U : <<v, m>> \notin R
  <2>. HIDE DEF U, R
  <2>. QED BY <1>1, <1>2, WFMin
<1>4. PICK x \in T : m = 0 .. x
    OBVIOUS
<1>5. ASSUME NEW y \in T, y < x PROVE FALSE
  <2>1. 0 .. y \subseteq 0 .. x /\ x \in 0 .. x /\ x \notin 0 .. y
      BY <1>5
  <2>2. 0 .. y \in SUBSET Nat /\ 0 .. x \in SUBSET Nat
      OBVIOUS
  <2>3. <<0 .. y, 0 .. x>> \in R
      BY <2>1, <2>2 DEF StrictSubsetOrdering
  <2>. QED BY <1>3, <1>4, <2>3
<1>. QED BY <1>5

(* The subsets of 1 .. n are counted by 2 ^ n; those of 1 .. n + 1 are     *)
(* they and as many that hold n + 1 besides.                               *)
LEMMA PowerDouble ==
    ASSUME NEW n \in Nat
    PROVE  2 ^ (n + 1) = 2 * 2 ^ n /\ 2 ^ n \in Nat \ {0}
<1>. DEFINE S == 1 .. n
            A == SUBSET S
            B == {s \cup {n + 1} : s \in A}
            f == [s \in A |-> s \cup {n + 1}]
<1>1. IsFiniteSet(S) /\ Cardinality(S) = n
    BY FS_Interval
<1>2. IsFiniteSet(A) /\ Cardinality(A) = 2 ^ n
    BY <1>1, FS_SUBSET
<1>3. Cardinality(A) \in Nat /\ Cardinality(A) # 0
  <2>1. A # {}
      OBVIOUS
  <2>. HIDE DEF A
  <2>. QED BY <1>2, <2>1, FS_CardinalityType, FS_EmptySet
<1>4. IsFiniteSet(1 .. n + 1) /\ Cardinality(1 .. n + 1) = n + 1
    BY FS_Interval
<1>5. IsFiniteSet(SUBSET (1 .. n + 1)) /\ Cardinality(SUBSET (1 .. n + 1)) = 2 ^ (n + 1)
    BY <1>4, FS_SUBSET
<1>6. n + 1 \notin S /\ 1 .. n + 1 = S \cup {n + 1}
    OBVIOUS
<1>7. SUBSET (1 .. n + 1) = A \cup B
  <2>1. ASSUME NEW s \in SUBSET (S \cup {n + 1}) PROVE s \in A \cup B
    <3>1. CASE n + 1 \in s
      <4>1. s \ {n + 1} \in A /\ s = (s \ {n + 1}) \cup {n + 1}
        <5>. HIDE DEF S
        <5>. QED BY <3>1
      <4>. HIDE DEF A
      <4>. QED BY <4>1
    <3>2. CASE n + 1 \notin s
      <4>. HIDE DEF S
      <4>. QED BY <3>2
    <3>. QED BY <3>1, <3>2
  <2>2. ASSUME NEW s \in A \cup B PROVE s \in SUBSET (S \cup {n + 1})
    <3>. HIDE DEF S
    <3>. QED OBVIOUS
  <2>. QED BY <1>6, <2>1, <2>2
<1>8. A \cap B = {}
  <2>. SUFFICES ASSUME NEW s \in A, s \in B PROVE FALSE
      OBVIOUS
  <2>1. n + 1 \in s
      OBVIOUS
  <2>. HIDE DEF S, B
  <2>. QED BY <1>6, <2>1
<1>9. ExistsBijection(A, B)
  <2>1. f \in [A -> B]
      OBVIOUS
  <2>2. ASSUME NEW s \in A, NEW t \in A, f[s] = f[t] PROVE s = t
    <3>1. s = (s \cup {n + 1}) \ {n + 1} /\ t = (t \cup {n + 1}) \ {n + 1}
      <4>. HIDE DEF S
      <4>. QED BY <1>6
    <3>2. f[s] = s \cup {n + 1} /\ f[t] = t \cup {n + 1}
        OBVIOUS
    <3>. QED BY <2>2, <3>1, <3>2
  <2>3. \A b \in B : \E s \in A : f[s] = b
      OBVIOUS
  <2>. HIDE DEF A, B, f
  <2>4. f \in Bijection(A, B)
      BY <2>1, <2>2, <2>3 DEF Bijection, Injection, Surjection, IsInjective
  <2>. QED BY <2>4 DEF ExistsBijection
<1>10. IsFiniteSet(B) /\ Cardinality(B) = 2 ^ n
  <2>. HIDE DEF A, B
  <2>. QED BY <1>2, <1>9, FS_Bijection
<1>11. Cardinality(A \cup B) = 2 ^ n + 2 ^ n - 0
  <2>1. Cardinality(A \cap B) = 0
    <3>. HIDE DEF A, B
    <3>. QED BY <1>8, FS_EmptySet
  <2>. HIDE DEF A, B
  <2>. QED BY <1>2, <1>10, <2>1, FS_Union
<1>12. 2 ^ (n + 1) = 2 ^ n + 2 ^ n - 0
  <2>. HIDE DEF A, B
  <2>. QED BY <1>5, <1>7, <1>11
<1>13. 2 ^ n \in Nat /\ 2 ^ n # 0
  <2>. HIDE DEF A
  <2>. QED BY <1>2, <1>3
<1>. QED BY <1>12, <1>13

LEMMA PowerZero == 2 ^ 0 = 1 /\ 2 ^ 1 = 2 /\ 2 ^ 2 = 4
<1>1. 2 ^ 0 = 1
    OBVIOUS
<1>2. 2 ^ (0 + 1) = 2 * 2 ^ 0 /\ 2 ^ (1 + 1) = 2 * 2 ^ 1
    BY PowerDouble
<1>. QED BY <1>1, <1>2

LEMMA PowerSum ==
    ASSUME NEW a \in Nat, NEW b \in Nat
    PROVE  2 ^ (a + b) = 2 ^ a * 2 ^ b
<1>. DEFINE Bad == {k \in Nat : 2 ^ (a + k) # 2 ^ a * 2 ^ k}
<1>1. Bad = {}
  <2>. SUFFICES ASSUME Bad # {} PROVE FALSE
      OBVIOUS
  <2>1. PICK k \in Bad : \A y \in Bad : k <= y
      BY LeastNat
  <2>2. CASE k = 0
    <3>1. 2 ^ a \in Nat /\ a + 0 = a
        BY PowerDouble
    <3>2. 2 ^ (a + 0) = 2 ^ a * 2 ^ 0
        BY <3>1, PowerZero
    <3>. QED BY <2>1, <2>2, <3>2
  <2>3. CASE k # 0
    <3>1. k - 1 \in Nat /\ k - 1 \notin Bad
        BY <2>1, <2>3
    <3>. PICK j \in Nat : j = k - 1
        BY <3>1
    <3>2. 2 ^ (a + j) = 2 ^ a * 2 ^ j
        BY <3>1
    <3>3. /\ 2 ^ ((a + j) + 1) = 2 * 2 ^ (a + j)
          /\ 2 ^ (j + 1) = 2 * 2 ^ j
          /\ 2 ^ a \in Nat /\ 2 ^ j \in Nat
        BY PowerDouble
    <3>4. 2 ^ a * (2 * 2 ^ j) = 2 * (2 ^ a * 2 ^ j)
        BY <3>3
    <3>5. (a + j) + 1 = a + k /\ j + 1 = k
        OBVIOUS
    <3>. QED BY <2>1, <3>2, <3>3, <3>4, <3>5
  <2>. QED BY <2>2, <2>3
<1>. QED BY <1>1

-----------------------------------------------------------------------------
(* Division.                                                               *)

LEMMA Quotient ==
    ASSUME NEW v \in Nat, NEW d \in Nat \ {0}, NEW q \in Nat, NEW r \in Nat,
           v = d * q + r, r < d
    PROVE  v \div d = q /\ v % d = r
OBVIOUS

LEMMA Divided ==
    ASSUME NEW v \in Nat, NEW d \in Nat \ {0}
    PROVE  /\ v \div d \in Nat /\ v % d \in Nat /\ v % d < d
           /\ v = d * (v \div d) + (v % d)
OBVIOUS

(* Dividing twice is dividing by the product. *)
LEMMA DividedTwice ==
    ASSUME NEW v \in Nat, NEW d \in Nat \ {0}, NEW e \in Nat \ {0}
    PROVE  /\ (v \div d) \div e = v \div (d * e)
           /\ v % (d * e) = d * ((v \div d) % e) + (v % d)
<1>. PICK q \in Nat : q = v \div d
    BY Divided
<1>. PICK r \in Nat : r = v % d
    BY Divided
<1>. PICK p \in Nat : p = q \div e
    BY Divided
<1>. PICK t \in Nat : t = q % e
    BY Divided
<1>1. v = d * q + r /\ r < d /\ q = e * p + t /\ t < e
    BY Divided
<1>2. d * e \in Nat \ {0}
    OBVIOUS
<1>3. d * t + r \in Nat
    OBVIOUS
<1>4. d * t + r < d * e
  <2>1. t + 1 <= e
      BY <1>1
  <2>2. d * (t + 1) <= d * e
      BY <2>1
  <2>3. d * (t + 1) = d * t + d
      OBVIOUS
  <2>. QED BY <1>1, <2>2, <2>3
<1>5. v = (d * e) * p + (d * t + r)
  <2>1. d * (e * p + t) = (d * e) * p + d * t
    <3>1. d * (e * p + t) = d * (e * p) + d * t
        OBVIOUS
    <3>2. d * (e * p) = (d * e) * p
        OBVIOUS
    <3>. QED BY <3>1, <3>2
  <2>2. d * q = (d * e) * p + d * t
      BY <1>1, <2>1
  <2>3. d * q \in Nat /\ (d * e) * p \in Nat /\ d * t \in Nat
      OBVIOUS
  <2>. QED BY <1>1, <2>2, <2>3
<1>6. v \div (d * e) = p /\ v % (d * e) = d * t + r
  <2>1. PICK de \in Nat \ {0} : de = d * e
      BY <1>2
  <2>2. PICK s \in Nat : s = d * t + r
      BY <1>3
  <2>3. v = de * p + s /\ s < de
      BY <1>4, <1>5, <2>1, <2>2
  <2>4. v \div de = p /\ v % de = s
      BY <2>3, Quotient
  <2>. QED BY <2>1, <2>2, <2>4
<1>. QED BY <1>6

LEMMA MultipleAdded ==
    ASSUME NEW x \in Nat, NEW d \in Nat \ {0}, NEW z \in Nat
    PROVE  (x + d * z) \div d = (x \div d) + z
<1>1. PICK q \in Nat : q = x \div d
    BY Divided
<1>2. PICK r \in Nat : r = x % d
    BY Divided
<1>3. x = d * q + r /\ r < d
    BY <1>1, <1>2, Divided
<1>4. d * (q + z) = d * q + d * z /\ d * q \in Nat /\ d * z \in Nat
    OBVIOUS
<1>5. PICK v \in Nat : v = x + d * z
    BY <1>4
<1>6. PICK s \in Nat : s = q + z
    OBVIOUS
<1>7. v = d * s + r
    BY <1>3, <1>4, <1>5, <1>6
<1>8. v \div d = s
    BY <1>3, <1>7, Quotient
<1>. QED BY <1>1, <1>5, <1>6, <1>8
=============================================================================
