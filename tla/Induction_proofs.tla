-------------------------- MODULE Induction_proofs --------------------------
(***************************************************************************)
(* Induction over data for the other proofs: every set of numbers has a    *)
(* least one, so a claim about all lengths is proved by contradiction on   *)
(* the shortest sequence that violates it; and a fold over a sequence,     *)
(* written as a recursive function, exists.                                *)
(***************************************************************************)
EXTENDS Integers, Sequences, SequenceTheorems, FiniteSetTheorems, TLAPS

\* Every set of numbers has a least one: the ranges 1 .. n are well-founded by inclusion.
LEMMA LeastNumber ==
  ASSUME NEW T \in SUBSET Nat, T # {}
  PROVE  \E n \in T : \A k \in T : n <= k
<1> DEFINE Ranges == {1 .. n : n \in T}
<1>1. Ranges \subseteq FiniteSubsetsOf(Nat) /\ Ranges # {}
  <2>1. ASSUME NEW n \in T PROVE 1 .. n \in FiniteSubsetsOf(Nat)
    <3>1. n \in Int /\ 1 \in Int /\ 1 .. n \subseteq Nat
      OBVIOUS
    <3>2. IsFiniteSet(1 .. n)
      BY <3>1, FS_Interval
    <3> QED
      BY <3>1, <3>2 DEF FiniteSubsetsOf
  <2> QED
    BY <2>1
<1>2. PICK r \in Ranges : \A q \in Ranges : <<q, r>> \notin StrictSubsetOrdering(Nat)
  <2> HIDE DEF Ranges
  <2> QED
    BY <1>1, FS_StrictSubsetOrderingWellFounded, WFMin
<1>3. PICK n \in T : r = 1 .. n
  BY <1>2
<1>4. ASSUME NEW k \in T, k < n PROVE FALSE
  <2>1. 1 .. k \in SUBSET Nat /\ 1 .. n \in SUBSET Nat /\ 1 .. k \subseteq 1 .. n
    BY <1>4
  <2>2. n \in 1 .. n /\ n \notin 1 .. k
    BY <1>4
  <2>3. <<1 .. k, 1 .. n>> \in StrictSubsetOrdering(Nat)
    BY <2>1, <2>2 DEF StrictSubsetOrdering
  <2> QED
    BY <1>2, <1>3, <2>3
<1> QED
  BY <1>4

\* run is the fold of op over s: run[i] is the result after the first i elements.
IsFold(run, first, op, s) ==
  /\ run[0] = first
  /\ \A i \in 1 .. Len(s) : run[i] = op[run[i - 1]][s[i]]

LEMMA FoldExists ==
  ASSUME NEW X, NEW first \in X, NEW A, NEW op \in [X -> [A -> X]], NEW s \in Seq(A)
  PROVE  \E run \in [0 .. Len(s) -> X] : IsFold(run, first, op, s)
<1> DEFINE UpTo(run, n) == run[0] = first /\ \A i \in 1 .. n : run[i] = op[run[i - 1]][s[i]]
           Bad == {n \in 0 .. Len(s) : ~ \E run \in [0 .. n -> X] : UpTo(run, n)}
<1>1. SUFFICES ASSUME Bad # {} PROVE FALSE
  <2>1. Len(s) \in 0 .. Len(s)
    OBVIOUS
  <2>2. PICK run \in [0 .. Len(s) -> X] : UpTo(run, Len(s))
    BY <1>1, <2>1
  <2> QED
    BY <2>2 DEF IsFold
<1>2. PICK n \in Bad : \A k \in Bad : n <= k
  <2>1. Bad \in SUBSET Nat
    OBVIOUS
  <2> HIDE DEF Bad
  <2> QED
    BY <1>1, <2>1, LeastNumber
<1>3. n # 0
  <2> SUFFICES ASSUME n = 0 PROVE FALSE
    OBVIOUS
  <2> DEFINE run == [i \in 0 .. 0 |-> first]
  <2>1. run \in [0 .. n -> X] /\ UpTo(run, n)
    OBVIOUS
  <2> QED
    BY <1>2, <2>1
<1>4. n - 1 \in 0 .. Len(s) /\ n \in 1 .. Len(s) /\ n - 1 \notin Bad
  <2>1. Len(s) \in Nat /\ n \in 0 .. Len(s)
    BY <1>2
  <2> HIDE DEF Bad
  <2> QED
    BY <1>2, <1>3, <2>1
<1>5. PICK run \in [0 .. n - 1 -> X] : UpTo(run, n - 1)
  BY <1>4
<1> DEFINE longer == [i \in 0 .. n |-> IF i = n THEN op[run[n - 1]][s[n]] ELSE run[i]]
<1>6. op[run[n - 1]][s[n]] \in X
  <2>1. run[n - 1] \in X /\ s[n] \in A
    BY <1>4, ElementOfSeq
  <2> QED
    BY <2>1
<1>7. longer \in [0 .. n -> X] /\ longer[0] = first
  <2>1. \A i \in 0 .. n : i # n => i \in 0 .. n - 1 /\ run[i] \in X
    BY <1>4, <1>5
  <2>2. 0 \in 0 .. n /\ 0 # n /\ run[0] = first
    BY <1>4, <1>5
  <2> QED
    BY <1>6, <2>1, <2>2
<1>8. ASSUME NEW i \in 1 .. n PROVE longer[i] = op[longer[i - 1]][s[i]]
  <2>1. longer[i - 1] = run[i - 1]
    BY <1>4
  <2>2. CASE i = n
    BY <1>4, <2>1, <2>2
  <2>3. CASE i # n
    <3>1. i \in 1 .. n - 1 /\ longer[i] = run[i]
      BY <1>4, <2>3
    <3> QED
      BY <1>5, <2>1, <3>1
  <2> QED
    BY <2>2, <2>3
<1>9. UpTo(longer, n)
  BY <1>7, <1>8
<1> HIDE DEF UpTo, longer
<1> QED
  BY <1>2, <1>7, <1>9

\* Two folds whose sequences start alike agree so far.
LEMMA FoldsAgree ==
  ASSUME NEW first, NEW op, NEW s, NEW t, NEW f, NEW g, NEW n \in Nat, n <= Len(s), n <= Len(t),
         Len(s) \in Nat, Len(t) \in Nat, \A i \in 1 .. n : s[i] = t[i],
         IsFold(f, first, op, s), IsFold(g, first, op, t)
  PROVE  \A i \in 0 .. n : f[i] = g[i]
<1> DEFINE Bad == {i \in 0 .. n : f[i] # g[i]}
<1> SUFFICES ASSUME Bad # {} PROVE FALSE
  OBVIOUS
<1>1. PICK i \in Bad : \A k \in Bad : i <= k
  <2>1. Bad \in SUBSET Nat
    OBVIOUS
  <2> HIDE DEF Bad
  <2> QED
    BY <2>1, LeastNumber
<1>2. i # 0
  BY <1>1 DEF IsFold
<1>3. i - 1 \in 0 .. n /\ i - 1 \notin Bad
  BY <1>1, <1>2
<1>4. f[i - 1] = g[i - 1]
  BY <1>3
<1>5. i \in 1 .. Len(s) /\ i \in 1 .. Len(t) /\ i \in 1 .. n
  BY <1>1, <1>2
<1> QED
  BY <1>1, <1>4, <1>5 DEF IsFold
=============================================================================
