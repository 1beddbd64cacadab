----------------------------- MODULE FoldLemmas -----------------------------
(***************************************************************************)
(* What FoldLeft computes, for any operator.  The provers cannot           *)
(* instantiate a theorem about an operator, so the operator is a constant  *)
(* of this module: INSTANCE FoldLemmas WITH Op <- ... has the theorems for *)
(* the operator that is needed.                                            *)
(*                                                                         *)
(* The theorems on induction of the library have the same limit; one that  *)
(* is about a set of numbers in place of a predicate follows from the      *)
(* minimum that every set of numbers has (WFMin).                          *)
(***************************************************************************)
EXTENDS Integers, Sequences, SequencesExt, NaturalsInduction, WellFoundedInduction, TLAPS

CONSTANT Op(_, _)

Fold(base, seq) == FoldLeft(Op, base, seq)
-----------------------------------------------------------------------------
Below == {p \in Nat \X Nat : p[1] < p[2]}

\* A set of numbers that is not empty has a least one.
LEMMA Least ==
    ASSUME NEW S, S \subseteq Nat, S # {}
    PROVE  \E n \in S : \A m \in S : n <= m
<1>1. IsWellFoundedOn(OpToRel(<, Nat), Nat)
  BY NatLessThanWellFounded
<1>2. OpToRel(<, Nat) = Below
  BY DEF OpToRel, Below
<1>3. IsWellFoundedOn(Below, Nat)
  BY <1>1, <1>2
<1>4. \E n \in S : \A m \in S : <<m, n>> \notin Below
  BY <1>3, WFMin
<1>5. PICK n \in S : \A m \in S : <<m, n>> \notin Below
  BY <1>4
<1>6. \A m \in S : ~(m < n)
  BY <1>5 DEF Below
<1> QED
  BY <1>6

\* Induction: a set with 0, and with the successor of each of its numbers, has all numbers.
LEMMA Induction ==
    ASSUME NEW S, 0 \in S, \A n \in Nat : n \in S => n + 1 \in S
    PROVE  Nat \subseteq S
<1> DEFINE T == Nat \ S
<1>1. CASE T # {}
  <2>1. T \subseteq Nat
    OBVIOUS
  <2>2. PICK n \in T : \A m \in T : n <= m
    <3> HIDE DEF T
    <3> QED
      BY <1>1, <2>1, Least
  <2>3. n # 0 /\ n - 1 \in Nat /\ n - 1 \notin T
    BY <2>2
  <2> QED
    BY <2>2, <2>3
<1> QED
  BY <1>1
-----------------------------------------------------------------------------
\* The function that FoldLeft defines, on the sets of positions up to n.
Folds(base, seq, n, F) ==
    F = [s \in SUBSET (1..n) |-> IF s = {} THEN base ELSE Op(F[s \ {Max(s)}], seq[Max(s)])]

\* The greatest of a set of positions.
LEMMA MaxOfPositions ==
    ASSUME NEW n \in Nat, NEW s \in SUBSET (1..n), s # {}
    PROVE  /\ Max(s) \in s /\ s \ {Max(s)} \in SUBSET (1..n)
           /\ n \in s => Max(s) = n
           /\ n \notin s => s \in SUBSET (1..(n - 1))
           /\ \A k \in s : (\A j \in s : k >= j) => Max(s) = k
<1> DEFINE T == {m \in Nat : \A k \in s : k <= m}
<1>1. n \in T /\ T \subseteq Nat
  OBVIOUS
<1>2. PICK m \in T : \A k \in T : m <= k
  <2> HIDE DEF T
  <2> QED
    BY <1>1, Least
<1>3. m \in s
  <2> SUFFICES ASSUME m \notin s PROVE FALSE
    OBVIOUS
  <2>1. m \in Nat /\ \A k \in s : k \in Nat /\ k > 0 /\ k < m
    BY <1>2
  <2>2. m > 0
    <3>1. PICK k : k \in s
      OBVIOUS
    <3> QED
      BY <2>1, <3>1
  <2>3. m - 1 \in T
    BY <2>1, <2>2
  <2> QED
    BY <2>3, <2>1, <1>2
<1>4. m \in s /\ \A k \in s : m >= k
  BY <1>2, <1>3
<1>5. Max(s) \in s /\ \A k \in s : Max(s) >= k
  <2>1. \E x \in s : \A y \in s : x >= y
    BY <1>4
  <2> QED
    BY <2>1 DEF Max
<1>6. Max(s) \in 1..n /\ \A k \in s : k \in 1..n
  BY <1>5
<1>7. \A k \in s : (\A j \in s : k >= j) => Max(s) = k
  BY <1>5, <1>6
<1>8. n \in s => Max(s) = n
  <2> SUFFICES ASSUME n \in s PROVE Max(s) = n
    OBVIOUS
  <2>1. Max(s) >= n
    BY <1>5
  <2> QED
    BY <2>1, <1>6
<1>9. n \notin s => \A k \in s : k \in 1..(n - 1)
  BY <1>6
<1> QED
  BY <1>5, <1>7, <1>8, <1>9

\* There is such a function for every n.
LEMMA FoldsExists ==
    ASSUME NEW base, NEW seq
    PROVE  \A n \in Nat : \E F : Folds(base, seq, n, F)
<1> DEFINE S == {n \in Nat : \E F : Folds(base, seq, n, F)}
<1>1. 0 \in S
  <2>1. SUBSET (1..0) = {{}}
    OBVIOUS
  <2>2. Folds(base, seq, 0, [s \in SUBSET (1..0) |-> base])
    BY <2>1 DEF Folds
  <2> QED
    BY <2>2
<1>2. ASSUME NEW n \in Nat, n \in S PROVE n + 1 \in S
  <2>1. PICK F : Folds(base, seq, n, F)
    BY <1>2
  <2> DEFINE m == n + 1
             G == [s \in SUBSET (1..m) |-> IF m \in s THEN Op(F[s \ {m}], seq[m]) ELSE F[s]]
  <2>2. \A s \in SUBSET (1..n) : s \in SUBSET (1..m) /\ m \notin s /\ G[s] = F[s]
    OBVIOUS
  <2>3. ASSUME NEW s \in SUBSET (1..m)
        PROVE  G[s] = IF s = {} THEN base ELSE Op(G[s \ {Max(s)}], seq[Max(s)])
    <3>1. CASE m \in s
      <4>1. Max(s) = m
        BY <3>1, MaxOfPositions
      <4>2. s \ {m} \in SUBSET (1..n)
        OBVIOUS
      <4>3. G[s \ {m}] = F[s \ {m}]
        BY <4>2, <2>2
      <4>4. G[s] = Op(F[s \ {m}], seq[m])
        BY <3>1
      <4> QED
        BY <3>1, <4>1, <4>3, <4>4
    <3>2. CASE m \notin s
      <4>1. s \in SUBSET (1..n)
        BY <3>2
      <4>2. s # {} => s \ {Max(s)} \in SUBSET (1..n)
        BY <4>1
      <4>3. G[s] = F[s] /\ (s # {} => G[s \ {Max(s)}] = F[s \ {Max(s)}])
        BY <4>1, <4>2, <2>2
      <4>4. F[s] = IF s = {} THEN base ELSE Op(F[s \ {Max(s)}], seq[Max(s)])
        <5> HIDE DEF G
        <5> QED
          BY <4>1, <2>1 DEF Folds
      <4> QED
        BY <4>3, <4>4
    <3> QED
      BY <3>1, <3>2
  <2>4. G = [s \in SUBSET (1..m) |-> IF s = {} THEN base ELSE Op(G[s \ {Max(s)}], seq[Max(s)])]
    <3>1. DOMAIN G = SUBSET (1..m) /\ G = [s \in SUBSET (1..m) |-> G[s]]
      OBVIOUS
    <3> HIDE DEF G
    <3> QED
      BY <3>1, <2>3
  <2>5. Folds(base, seq, m, G)
    <3> HIDE DEF G
    <3> QED
      BY <2>4 DEF Folds
  <2> QED
    BY <2>5
<1>3. Nat \subseteq S
  <2> HIDE DEF S
  <2> QED
    BY <1>1, <1>2, Induction
<1> QED
  BY <1>3

\* Where two sequences agree, so do their functions.
LEMMA FoldsAgree ==
    ASSUME NEW base, NEW seq, NEW tup, NEW n \in Nat, NEW m \in Nat, n <= m,
           \A i \in 1..n : seq[i] = tup[i],
           NEW F, NEW G, Folds(base, seq, n, F), Folds(base, tup, m, G)
    PROVE  \A s \in SUBSET (1..n) : F[s] = G[s]
<1> DEFINE S == {k \in Nat : k <= n => \A s \in SUBSET (1..k) : F[s] = G[s]}
<1>0. /\ \A s \in SUBSET (1..n) : F[s] = IF s = {} THEN base ELSE Op(F[s \ {Max(s)}], seq[Max(s)])
      /\ \A s \in SUBSET (1..n) : G[s] = IF s = {} THEN base ELSE Op(G[s \ {Max(s)}], tup[Max(s)])
  <2>1. 1..n \subseteq 1..m
    OBVIOUS
  <2>2. \A s \in SUBSET (1..m) : G[s] = IF s = {} THEN base ELSE Op(G[s \ {Max(s)}], tup[Max(s)])
    BY DEF Folds
  <2>3. \A s \in SUBSET (1..n) : F[s] = IF s = {} THEN base ELSE Op(F[s \ {Max(s)}], seq[Max(s)])
    BY DEF Folds
  <2> QED
    BY <2>1, <2>2, <2>3
<1>1. 0 \in S
  <2>1. \A s \in SUBSET (1..0) : s = {} /\ s \in SUBSET (1..n)
    OBVIOUS
  <2> QED
    BY <2>1, <1>0
<1>2. ASSUME NEW k \in Nat, k \in S PROVE k + 1 \in S
  <2> SUFFICES ASSUME k + 1 <= n, NEW s \in SUBSET (1..(k + 1)) PROVE F[s] = G[s]
    OBVIOUS
  <2>1. s \in SUBSET (1..n)
    OBVIOUS
  <2>2. CASE k + 1 \notin s
    <3>1. s \in SUBSET (1..k)
      BY <2>2
    <3> QED
      BY <3>1, <1>2
  <2>3. CASE k + 1 \in s
    <3>1. Max(s) = k + 1 /\ s \ {k + 1} \in SUBSET (1..k)
      BY <2>3, MaxOfPositions
    <3>2. F[s \ {k + 1}] = G[s \ {k + 1}]
      BY <3>1, <1>2
    <3>3. k + 1 \in 1..n
      OBVIOUS
    <3>4. F[s] = Op(F[s \ {k + 1}], seq[k + 1]) /\ G[s] = Op(G[s \ {k + 1}], tup[k + 1])
      <4> HIDE DEF S
      <4> QED
        BY <3>1, <2>1, <2>3, <1>0
    <3> QED
      BY <3>2, <3>3, <3>4
  <2> QED
    BY <2>2, <2>3
<1>3. Nat \subseteq S
  <2> HIDE DEF S
  <2> QED
    BY <1>1, <1>2, Induction
<1>4. n \in S
  BY <1>3
<1> QED
  BY <1>4

\* FoldLeft is the value of such a function at all positions.
LEMMA FoldValue ==
    ASSUME NEW base, NEW seq, NEW n \in Nat, DOMAIN seq = 1..n
    PROVE  \E F : Folds(base, seq, n, F) /\ Fold(base, seq) = F[1..n]
<1> DEFINE G == CHOOSE F : Folds(base, seq, n, F)
<1>1. Folds(base, seq, n, G)
  BY FoldsExists
<1>2. Fold(base, seq) = G[1..n]
  BY DEF Fold, FoldLeft, MapThenFoldSet, Folds
<1> QED
  BY <1>1, <1>2
-----------------------------------------------------------------------------
LEMMA FoldEmpty ==
    ASSUME NEW base
    PROVE  Fold(base, <<>>) = base
<1>1. DOMAIN <<>> = 1..0
  OBVIOUS
<1>2. PICK F : Folds(base, <<>>, 0, F) /\ Fold(base, <<>>) = F[1..0]
  BY <1>1, FoldValue
<1>3. 1..0 = {} /\ {} \in SUBSET (1..0)
  OBVIOUS
<1> QED
  BY <1>2, <1>3 DEF Folds

\* FoldLeft of a sequence with one more element.
LEMMA FoldAppend ==
    ASSUME NEW X, NEW base, NEW seq \in Seq(X), NEW x
    PROVE  Fold(base, Append(seq, x)) = Op(Fold(base, seq), x)
<1> DEFINE n == Len(seq)
           tup == Append(seq, x)
<1>1. n \in Nat /\ DOMAIN seq = 1..n /\ DOMAIN tup = 1..(n + 1)
      /\ (\A i \in 1..n : seq[i] = tup[i]) /\ tup[n + 1] = x
  OBVIOUS
<1>0. n + 1 \in Nat /\ n <= n + 1 /\ n + 1 \in 1..(n + 1)
  BY <1>1
<1> HIDE DEF n, tup
<1>2. PICK F : Folds(base, seq, n, F) /\ Fold(base, seq) = F[1..n]
  BY <1>1, FoldValue
<1>3. PICK G : Folds(base, tup, n + 1, G) /\ Fold(base, tup) = G[1..(n + 1)]
  BY <1>1, FoldValue
<1>4. F[1..n] = G[1..n]
  <2>1. \A s \in SUBSET (1..n) : F[s] = G[s]
    BY <1>0, <1>1, <1>2, <1>3, FoldsAgree
  <2> QED
    BY <2>1
<1>5. Max(1..(n + 1)) = n + 1 /\ 1..(n + 1) # {} /\ (1..(n + 1)) \ {n + 1} = 1..n
  <2>1. 1..(n + 1) \in SUBSET (1..(n + 1)) /\ 1..(n + 1) # {}
    BY <1>0
  <2>2. Max(1..(n + 1)) = n + 1
    BY <1>0, <2>1, MaxOfPositions
  <2> QED
    BY <2>1, <2>2, <1>1
<1>6. G[1..(n + 1)] = Op(G[1..n], tup[n + 1])
  BY <1>1, <1>3, <1>5 DEF Folds
<1> QED
  BY <1>1, <1>2, <1>3, <1>4, <1>6 DEF tup

\* A prefix grows by an element at a time.
LEMMA PrefixGrows ==
    ASSUME NEW X, NEW seq \in Seq(X), NEW k \in Nat, k + 1 <= Len(seq)
    PROVE  /\ SubSeq(seq, 1, k) \in Seq(X) /\ seq[k + 1] \in X
           /\ SubSeq(seq, 1, k + 1) = Append(SubSeq(seq, 1, k), seq[k + 1])
<1>1. Len(seq) \in Nat /\ \A i \in 1..Len(seq) : seq[i] \in X
  OBVIOUS
<1>2. SubSeq(seq, 1, k) \in Seq(X) /\ Len(SubSeq(seq, 1, k)) = k
      /\ \A i \in 1..k : SubSeq(seq, 1, k)[i] = seq[i]
  BY <1>1
<1>3. SubSeq(seq, 1, k + 1) \in Seq(X) /\ Len(SubSeq(seq, 1, k + 1)) = k + 1
      /\ \A i \in 1..(k + 1) : SubSeq(seq, 1, k + 1)[i] = seq[i]
  BY <1>1
<1> QED
  BY <1>1, <1>2, <1>3

\* What holds of the base and is handed on by every step holds of the result.
LEMMA FoldInduct ==
    ASSUME NEW X, NEW base, NEW seq \in Seq(X), NEW P, <<0, base>> \in P,
           \A i \in 1..Len(seq) : \A v : <<i - 1, v>> \in P => <<i, Op(v, seq[i])>> \in P
    PROVE  <<Len(seq), Fold(base, seq)>> \in P
<1> DEFINE S == {k \in Nat : k <= Len(seq) => <<k, Fold(base, SubSeq(seq, 1, k))>> \in P}
<1>1. 0 \in S
  <2>1. SubSeq(seq, 1, 0) = <<>>
    OBVIOUS
  <2> QED
    BY <2>1, FoldEmpty
<1>2. ASSUME NEW k \in Nat, k \in S PROVE k + 1 \in S
  <2> SUFFICES ASSUME k + 1 <= Len(seq) PROVE <<k + 1, Fold(base, SubSeq(seq, 1, k + 1))>> \in P
    OBVIOUS
  <2>1. Len(seq) \in Nat /\ k <= Len(seq) /\ k + 1 \in 1..Len(seq) /\ (k + 1) - 1 = k
    OBVIOUS
  <2>2. <<k, Fold(base, SubSeq(seq, 1, k))>> \in P
    BY <1>2, <2>1
  <2>3. Fold(base, SubSeq(seq, 1, k + 1)) = Op(Fold(base, SubSeq(seq, 1, k)), seq[k + 1])
    <3> DEFINE part == SubSeq(seq, 1, k)
    <3>1. part \in Seq(X) /\ SubSeq(seq, 1, k + 1) = Append(part, seq[k + 1])
      BY PrefixGrows
    <3> HIDE DEF part
    <3>2. Fold(base, Append(part, seq[k + 1])) = Op(Fold(base, part), seq[k + 1])
      BY <3>1, FoldAppend
    <3> QED
      BY <3>1, <3>2 DEF part
  <2>4. <<k + 1, Op(Fold(base, SubSeq(seq, 1, k)), seq[k + 1])>> \in P
    BY <2>1, <2>2
  <2> QED
    BY <2>3, <2>4
<1>3. Nat \subseteq S
  <2> HIDE DEF S
  <2> QED
    BY <1>1, <1>2, Induction
<1>4. SubSeq(seq, 1, Len(seq)) = seq
  OBVIOUS
<1>5. Len(seq) \in S
  <2>1. Len(seq) \in Nat
    OBVIOUS
  <2> HIDE DEF S
  <2> QED
    BY <1>3, <2>1
<1>6. Len(seq) <= Len(seq)
  OBVIOUS
<1> QED
  BY <1>4, <1>5, <1>6

\* FoldLeft of two sequences, one after the other.
LEMMA FoldConcat ==
    ASSUME NEW X, NEW base, NEW seq \in Seq(X), NEW tup \in Seq(X)
    PROVE  Fold(base, seq \o tup) = Fold(Fold(base, seq), tup)
<1> DEFINE S == {k \in Nat : k <= Len(tup) =>
                    Fold(base, seq \o SubSeq(tup, 1, k)) = Fold(Fold(base, seq), SubSeq(tup, 1, k))}
<1>1. 0 \in S
  <2>1. SubSeq(tup, 1, 0) = <<>> /\ seq \o <<>> = seq
    OBVIOUS
  <2> QED
    BY <2>1, FoldEmpty
<1>2. ASSUME NEW k \in Nat, k \in S PROVE k + 1 \in S
  <2> SUFFICES ASSUME k + 1 <= Len(tup)
               PROVE  Fold(base, seq \o SubSeq(tup, 1, k + 1)) = Fold(Fold(base, seq), SubSeq(tup, 1, k + 1))
    OBVIOUS
  <2> DEFINE part == SubSeq(tup, 1, k)
  <2>1. k <= Len(tup)
    OBVIOUS
  <2>2. part \in Seq(X) /\ tup[k + 1] \in X /\ SubSeq(tup, 1, k + 1) = Append(part, tup[k + 1])
    BY PrefixGrows
  <2>3. Fold(base, seq \o part) = Fold(Fold(base, seq), part)
    BY <1>2, <2>1
  <2> HIDE DEF part, S
  <2>4. seq \o part \in Seq(X) /\ seq \o Append(part, tup[k + 1]) = Append(seq \o part, tup[k + 1])
    BY <2>2
  <2>5. Fold(base, Append(seq \o part, tup[k + 1])) = Op(Fold(base, seq \o part), tup[k + 1])
    <3> DEFINE whole == seq \o part
    <3>1. whole \in Seq(X)
      BY <2>4
    <3> HIDE DEF whole
    <3>2. Fold(base, Append(whole, tup[k + 1])) = Op(Fold(base, whole), tup[k + 1])
      BY <3>1, FoldAppend
    <3> QED
      BY <3>2 DEF whole
  <2>6. Fold(Fold(base, seq), Append(part, tup[k + 1])) = Op(Fold(Fold(base, seq), part), tup[k + 1])
    BY <2>2, FoldAppend
  <2> QED
    BY <2>2, <2>3, <2>4, <2>5, <2>6
<1>3. Nat \subseteq S
  <2> HIDE DEF S
  <2> QED
    BY <1>1, <1>2, Induction
<1>4. SubSeq(tup, 1, Len(tup)) = tup
  OBVIOUS
<1>5. Len(tup) \in S
  <2>1. Len(tup) \in Nat
    OBVIOUS
  <2> HIDE DEF S
  <2> QED
    BY <1>3, <2>1
<1>6. Len(tup) <= Len(tup)
  OBVIOUS
<1> QED
  BY <1>4, <1>5, <1>6
=============================================================================
