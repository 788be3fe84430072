----------------------- MODULE WebSocketRelay_proofs -----------------------
(***************************************************************************)
(* Proofs about WebSocketRelay, for any number of connections, any feed    *)
(* and any limits: every connection is served or told to end, and what it  *)
(* is sent has no gap.                                                     *)
(***************************************************************************)
EXTENDS WebSocketRelay, Induction_proofs, SequenceTheorems, FiniteSetTheorems, TLAPS

-----------------------------------------------------------------------------
(* What a connection is sent, as a sequence of bundles: an opening, of at  *)
(* most one bundle, and then packets at+1, at+2, ...                       *)

OpenLen(op) == IF op = <<>> THEN 0 ELSE 1
Prior(op, at, s, i) == IF i = OpenLen(op) + 1 THEN at ELSE LastOf(s[i - 1])
Reach(op, at, s) == Prior(op, at, s, Len(s) + 1)

Chained(op, at, s) ==
  /\ OpenLen(op) = 1 => Len(s) >= 1 /\ s[1] = op
  /\ \A i \in OpenLen(op) + 1 .. Len(s) :
       s[i] # <<>> /\ ContinuesFrom(s[i], Prior(op, at, s, i))

\* A stream with the partial bundle behind it reaches the last packet published.
UpTo(op, at, s, rest, last) ==
  ContinuesFrom(rest, Reach(op, at, s)) /\ Reach(op, at, s) + Len(rest) = last

LEMMA ChainedReach ==
  ASSUME NEW op, NEW at \in Int, NEW s \in Seq(Bundles), Chained(op, at, s)
  PROVE  Len(s) >= OpenLen(op) /\ Reach(op, at, s) \in Int
<1>1. Len(s) \in Nat /\ OpenLen(op) \in {0, 1} /\ Len(s) >= OpenLen(op)
  BY LenProperties DEF Chained, OpenLen
<1>2. CASE Len(s) = OpenLen(op)
  BY <1>1, <1>2 DEF Reach, Prior
<1>3. CASE Len(s) > OpenLen(op)
  <2>1. Len(s) \in OpenLen(op) + 1 .. Len(s) /\ Len(s) \in 1 .. Len(s)
    BY <1>1, <1>3 DEF OpenLen
  <2>2. s[Len(s)] # <<>> /\ s[Len(s)] \in Seq(Packets)
    BY <2>1, ElementOfSeq DEF Chained, Bundles
  <2>3. Len(s[Len(s)]) \in 1 .. Len(s[Len(s)])
    BY <2>2, EmptySeq
  <2>4. LastOf(s[Len(s)]) \in Packets
    BY <2>2, <2>3, ElementOfSeq DEF LastOf
  <2>5. Reach(op, at, s) = LastOf(s[Len(s)])
    <3>1. Len(s) + 1 # OpenLen(op) + 1 /\ (Len(s) + 1) - 1 = Len(s)
      BY <1>1, <1>3
    <3> QED
      BY <3>1 DEF Reach, Prior
  <2> QED
    BY <1>1, <2>4, <2>5 DEF Packets
<1> QED
  BY <1>1, <1>2, <1>3

\* A bundle that continues a stream extends it, and the stream then ends with it.
LEMMA ChainedAppend ==
  ASSUME NEW op, NEW at \in Int, NEW s \in Seq(Bundles), Chained(op, at, s),
         NEW b \in Bundles, b # <<>>, ContinuesFrom(b, Reach(op, at, s))
  PROVE  /\ Chained(op, at, Append(s, b))
         /\ Reach(op, at, Append(s, b)) = Reach(op, at, s) + Len(b)
<1> DEFINE t == Append(s, b)
<1>1. Len(s) \in Nat /\ Len(s) >= OpenLen(op) /\ OpenLen(op) \in {0, 1} /\ Reach(op, at, s) \in Int
  BY LenProperties, ChainedReach DEF OpenLen
<1>2. /\ t \in Seq(Bundles) /\ Len(t) = Len(s) + 1 /\ t[Len(s) + 1] = b
      /\ \A i \in 1 .. Len(s) : t[i] = s[i]
  BY AppendProperties
<1> HIDE DEF t
<1>3. \A i \in OpenLen(op) + 1 .. Len(s) + 1 : Prior(op, at, t, i) = Prior(op, at, s, i)
  BY <1>1, <1>2 DEF Prior
<1>4. OpenLen(op) = 1 => Len(t) >= 1 /\ t[1] = op
  BY <1>1, <1>2 DEF Chained
<1>5. ASSUME NEW i \in OpenLen(op) + 1 .. Len(t)
      PROVE  t[i] # <<>> /\ ContinuesFrom(t[i], Prior(op, at, t, i))
  <2>1. CASE i = Len(s) + 1
    BY <1>1, <1>2, <1>3, <2>1 DEF Reach
  <2>2. CASE i \in OpenLen(op) + 1 .. Len(s)
    <3>1. i \in 1 .. Len(s)
      BY <1>1, <2>2
    <3> QED
      BY <1>2, <1>3, <2>2, <3>1 DEF Chained
  <2> QED
    BY <1>1, <1>2, <2>1, <2>2
<1>6. Len(b) \in Nat \ {0} /\ Len(b) \in 1 .. Len(b)
  BY EmptySeq DEF Bundles
<1>7. Reach(op, at, t) = Reach(op, at, s) + Len(b)
  <2>1. Reach(op, at, t) = LastOf(b)
    BY <1>1, <1>2 DEF Reach, Prior
  <2> QED
    BY <1>6, <2>1 DEF LastOf, ContinuesFrom
<1>8. Chained(op, at, t)
  BY <1>4, <1>5 DEF Chained
<1> QED
  BY <1>7, <1>8 DEF t

-----------------------------------------------------------------------------
(* The three ways in which what a connection is sent is written down.      *)

LEMMA SentBundle ==
  ASSUME NEW r, r \in Seq(Bundles), NEW w, w \in Seq(Bundles), NEW q, q \in Seq(Bundles),
         NEW b, b \in Bundles
  PROVE  r \o w \o Append(q, b) = Append(r \o w \o q, b)
<1>1. r \o w \in Seq(Bundles)
  BY ConcatProperties
<1> QED
  BY <1>1, ConcatProperties, AppendProperties, SeqEqual

LEMMA SentMoved ==
  ASSUME NEW r \in Seq(Bundles), NEW q \in Seq(Bundles), q # <<>>
  PROVE  r \o <<Head(q)>> \o Tail(q) = r \o <<>> \o q
OBVIOUS

LEMMA SentWritten ==
  ASSUME NEW r \in Seq(Bundles), NEW w \in Seq(Bundles), NEW q \in Seq(Bundles)
  PROVE  (r \o w) \o <<>> \o q = r \o w \o q
OBVIOUS

-----------------------------------------------------------------------------
(* The cached control packets.                                             *)

LEMMA LatestEmpty == ASSUME NEW kind, NEW n \in Nat PROVE Latest(kind, n, n) = NoPacket
BY DEF Latest

LEMMA LatestStep ==
  ASSUME NEW kind, NEW lo \in Nat, NEW hi \in Nat, lo <= hi
  PROVE  Latest(kind, lo, hi + 1) = IF Feed[hi + 1] = kind THEN hi + 1 ELSE Latest(kind, lo, hi)
<1> DEFINE P(n) == {p \in lo + 1 .. n : Feed[p] = kind}
<1>1. CASE Feed[hi + 1] = kind
  <2>1. hi + 1 \in P(hi + 1) /\ \A q \in P(hi + 1) : q <= hi + 1
    BY <1>1
  <2>2. \A p \in P(hi + 1) : (\A q \in P(hi + 1) : q <= p) => p = hi + 1
    BY <2>1
  <2>3. (CHOOSE p \in P(hi + 1) : \A q \in P(hi + 1) : q <= p) = hi + 1
    BY <2>1, <2>2
  <2>4. P(hi + 1) # {}
    BY <2>1
  <2>5. Latest(kind, lo, hi + 1) = IF P(hi + 1) = {} THEN NoPacket
                                   ELSE CHOOSE p \in P(hi + 1) : \A q \in P(hi + 1) : q <= p
    BY DEF Latest
  <2>6. Latest(kind, lo, hi + 1) = CHOOSE p \in P(hi + 1) : \A q \in P(hi + 1) : q <= p
    BY <2>4, <2>5, Zenon
  <2>7. Latest(kind, lo, hi + 1) = hi + 1
    BY <2>3, <2>6, Zenon
  <2> QED
    BY <1>1, <2>7
<1>2. CASE Feed[hi + 1] # kind
  <2>1. P(hi + 1) = P(hi)
    BY <1>2
  <2> DEFINE Newest(S) == IF S = {} THEN NoPacket ELSE CHOOSE p \in S : \A q \in S : q <= p
  <2>2. Latest(kind, lo, hi + 1) = Newest(P(hi + 1)) /\ Latest(kind, lo, hi) = Newest(P(hi))
    BY DEF Latest
  <2> HIDE DEF P, Newest
  <2>3. Latest(kind, lo, hi + 1) = Latest(kind, lo, hi)
    BY <2>1, <2>2
  <2> QED
    BY <1>2, <2>3
<1> QED
  BY <1>1, <1>2

-----------------------------------------------------------------------------
(* What a bundle encodes to.                                               *)

LEMMA PacketSize == \A p \in Packets : Feed[p] \in Kinds /\ Size[Feed[p]] \in Nat \ {0}
<1>1. \A p \in Packets : Feed[p] \in Kinds
  BY RelayAssumption, ElementOfSeq DEF RelayAssumption, Packets
<1> QED
  BY <1>1, RelayAssumption DEF RelayAssumption

AddSize == [total \in Int |-> [p \in Packets |-> total + Size[Feed[p]]]]

\* EncodedBytes adds up the sizes of a bundle's packets.
LEMMA EncodedFold ==
  ASSUME NEW b \in Bundles
  PROVE  \E upto : /\ upto \in [0 .. Len(b) -> Int]
                   /\ IsFold(upto, HeaderBytes, AddSize, b) /\ EncodedBytes(b) = upto[Len(b)]
<1> DEFINE body(f) == [i \in 0 .. Len(b) |->
                         IF i = 0 THEN HeaderBytes ELSE f[i - 1] + Size[Feed[b[i]]]]
           chosen == CHOOSE f : f = body(f)
<1>1. AddSize \in [Int -> [Packets -> Int]]
  BY PacketSize DEF AddSize
<1>2. b \in Seq(Packets) /\ Len(b) \in Nat /\ HeaderBytes \in Int /\ \A i \in 1 .. Len(b) : b[i] \in Packets
  BY RelayAssumption, ElementOfSeq, LenProperties DEF RelayAssumption, Bundles
<1>3. PICK upto \in [0 .. Len(b) -> Int] : IsFold(upto, HeaderBytes, AddSize, b)
  BY <1>1, <1>2, FoldExists
<1>4. ASSUME NEW i \in 0 .. Len(b) PROVE upto[i] = body(upto)[i]
  <2>1. CASE i = 0
    BY <1>3, <2>1 DEF IsFold
  <2>2. CASE i # 0
    <3>0. i \in 1 .. Len(b) /\ i - 1 \in 0 .. Len(b)
      BY <1>2, <2>2
    <3>1. i \in 1 .. Len(b) /\ i - 1 \in 0 .. Len(b) /\ upto[i - 1] \in Int
      BY <1>3, <3>0
    <3>2. upto[i] = AddSize[upto[i - 1]][b[i]]
      BY <1>3, <3>1 DEF IsFold
    <3>3. AddSize[upto[i - 1]][b[i]] = upto[i - 1] + Size[Feed[b[i]]]
      BY <1>2, <3>1 DEF AddSize
    <3> QED
      BY <2>2, <3>2, <3>3
  <2> QED
    BY <2>1, <2>2
<1>5. upto = body(upto)
  BY <1>3, <1>4
<1>6. chosen = body(chosen)
  <2> HIDE DEF body
  <2> QED
    BY <1>5
<1>7. EncodedBytes(b) = chosen[Len(b)]
  BY DEF EncodedBytes
<1> HIDE DEF chosen
<1> DEFINE Bad == {i \in 0 .. Len(b) : chosen[i] # upto[i]}
<1>8. Bad = {}
  <2> SUFFICES ASSUME Bad # {} PROVE FALSE
    OBVIOUS
  <2>1. PICK i \in Bad : \A k \in Bad : i <= k
    <3>1. Bad \in SUBSET Nat
      OBVIOUS
    <3> HIDE DEF Bad
    <3> QED
      BY <3>1, LeastNumber
  <2>2. CASE i = 0
    BY <1>4, <1>6, <2>1, <2>2
  <2>3. CASE i # 0
    <3>1. i - 1 \in 0 .. Len(b) /\ i - 1 \notin Bad /\ i \in 0 .. Len(b)
      BY <2>1, <2>3
    <3>2. chosen[i - 1] = upto[i - 1]
      BY <3>1
    <3>3. chosen[i] = body(chosen)[i]
      BY <1>6, Zenon
    <3> QED
      BY <1>4, <2>1, <3>1, <3>2, <3>3
  <2> QED
    BY <2>2, <2>3
<1>9. upto[Len(b)] = chosen[Len(b)]
  <2>1. Len(b) \in 0 .. Len(b)
    BY <1>2
  <2> QED
    BY <1>8, <2>1
<1> QED
  BY <1>3, <1>7, <1>9

LEMMA EncodedAppend ==
  ASSUME NEW b \in Bundles, NEW p \in Packets
  PROVE  /\ EncodedBytes(b) \in Int
         /\ EncodedBytes(Append(b, p)) = EncodedBytes(b) + Size[Feed[p]]
<1> DEFINE t == Append(b, p)
<1>1. /\ t \in Bundles /\ Len(b) \in Nat /\ Len(t) = Len(b) + 1 /\ t[Len(b) + 1] = p
      /\ \A i \in 1 .. Len(b) : b[i] = t[i]
  BY AppendProperties DEF Bundles
<1> HIDE DEF t
<1>2. PICK f : /\ f \in [0 .. Len(b) -> Int]
              /\ IsFold(f, HeaderBytes, AddSize, b) /\ EncodedBytes(b) = f[Len(b)]
  BY EncodedFold
<1>3. PICK g : /\ g \in [0 .. Len(t) -> Int]
              /\ IsFold(g, HeaderBytes, AddSize, t) /\ EncodedBytes(t) = g[Len(t)]
  BY <1>1, EncodedFold
<1>4. f[Len(b)] = g[Len(b)]
  <2>1. \A i \in 0 .. Len(b) : f[i] = g[i]
    <3>1. Len(b) <= Len(b) /\ Len(b) <= Len(t) /\ Len(t) \in Nat
      BY <1>1
    <3>2. IsFold(f, HeaderBytes, AddSize, b) /\ IsFold(g, HeaderBytes, AddSize, t)
      BY <1>2, <1>3
    <3>3. Len(b) \in Nat /\ \A i \in 1 .. Len(b) : b[i] = t[i]
      BY <1>1
    <3> QED
      BY <3>1, <3>2, <3>3, FoldsAgree
  <2> QED
    BY <1>1, <2>1
<1>5. g[Len(t)] = AddSize[g[Len(b)]][p]
  <2>1. Len(t) \in 1 .. Len(t) /\ Len(t) - 1 = Len(b) /\ t[Len(t)] = p
    BY <1>1
  <2> QED
    BY <1>3, <2>1 DEF IsFold
<1>6. f[Len(b)] \in Int /\ g[Len(b)] = f[Len(b)]
  <2>1. Len(b) \in 0 .. Len(b)
    BY <1>1
  <2> QED
    BY <1>2, <1>4, <2>1
<1> QED
  BY <1>2, <1>3, <1>4, <1>5, <1>6 DEF AddSize, t

LEMMA EncodedEmpty == EncodedBytes(<<>>) = HeaderBytes
<1>1. <<>> \in Bundles /\ Len(<<>>) = 0
  BY EmptySeq DEF Bundles
<1>2. PICK f : /\ f \in [0 .. Len(<<>>) -> Int]
              /\ IsFold(f, HeaderBytes, AddSize, <<>>) /\ EncodedBytes(<<>>) = f[Len(<<>>)]
  BY <1>1, EncodedFold
<1> QED
  BY <1>1, <1>2 DEF IsFold

-----------------------------------------------------------------------------
(* FlattenSeq, by the fold it is.                                          *)

Concat(A) == [x \in Seq(A) |-> [y \in Seq(A) |-> x \o y]]

LEMMA FlattenFold ==
  ASSUME NEW A, NEW s, s \in Seq(Seq(A)), s # <<>>
  PROVE  \E run : /\ run \in [0 .. Len(s) -> Seq(A)]
                  /\ IsFold(run, <<>>, Concat(A), s) /\ FlattenSeq(s) = run[Len(s)]
<1> DEFINE body(f) == [i \in 1 .. Len(s) |-> IF i = 1 THEN s[i] ELSE f[i - 1] \o s[i]]
           chosen == CHOOSE f : f = body(f)
<1>1. Len(s) \in Nat \ {0} /\ <<>> \in Seq(A) /\ \A i \in 1 .. Len(s) : s[i] \in Seq(A)
  BY ElementOfSeq, LenProperties, EmptySeq
<1>2. Concat(A) \in [Seq(A) -> [Seq(A) -> Seq(A)]]
  BY ConcatProperties DEF Concat
<1>3. PICK run : run \in [0 .. Len(s) -> Seq(A)] /\ IsFold(run, <<>>, Concat(A), s)
  BY <1>1, <1>2, FoldExists
<1>4. \A i \in 1 .. Len(s) : run[i] = run[i - 1] \o s[i]
  <2>1. ASSUME NEW i \in 1 .. Len(s) PROVE run[i] = run[i - 1] \o s[i]
    <3>1. i - 1 \in 0 .. Len(s)
      BY <1>1
    <3>2. run[i - 1] \in Seq(A) /\ s[i] \in Seq(A)
      BY <1>1, <1>3, <3>1
    <3>3. run[i] = Concat(A)[run[i - 1]][s[i]]
      BY <1>3 DEF IsFold
    <3> QED
      BY <3>2, <3>3 DEF Concat
  <2> QED
    BY <2>1
<1> DEFINE short == [i \in 1 .. Len(s) |-> run[i]]
<1>5. ASSUME NEW i \in 1 .. Len(s) PROVE short[i] = body(short)[i]
  <2>1. CASE i = 1
    <3>0. 1 \in 1 .. Len(s) /\ 1 - 1 = 0
      BY <1>1
    <3>1. run[0] = <<>> /\ run[1] = run[0] \o s[1]
      BY <1>3, <1>4, <3>0 DEF IsFold
    <3>2. run[1] = s[1]
      BY <1>1, <3>1, ConcatEmptySeq
    <3> QED
      BY <1>1, <2>1, <3>2
  <2>2. CASE i # 1
    <3>1. i - 1 \in 1 .. Len(s)
      BY <1>1, <2>2
    <3> QED
      BY <1>4, <2>2, <3>1
  <2> QED
    BY <2>1, <2>2
<1>6. short = body(short)
  BY <1>5
<1>7. chosen = body(chosen)
  <2> HIDE DEF body, short
  <2> QED
    BY <1>6
<1>8. FlattenSeq(s) = chosen[Len(s)]
  BY <1>1 DEF FlattenSeq
<1> HIDE DEF chosen
<1> DEFINE Bad == {i \in 1 .. Len(s) : chosen[i] # short[i]}
<1>9. Bad = {}
  <2> SUFFICES ASSUME Bad # {} PROVE FALSE
    OBVIOUS
  <2>1. PICK i \in Bad : \A k \in Bad : i <= k
    <3>1. Bad \in SUBSET Nat
      OBVIOUS
    <3> HIDE DEF Bad
    <3> QED
      BY <3>1, LeastNumber
  <2>2. i \in 1 .. Len(s) /\ chosen[i] # short[i] /\ chosen[i] = body(chosen)[i]
    BY <1>7, <2>1, Zenon
  <2>3. CASE i = 1
    BY <1>5, <2>2, <2>3
  <2>4. CASE i # 1
    <3>1. i - 1 \in 1 .. Len(s) /\ i - 1 \notin Bad
      BY <2>1, <2>2, <2>4
    <3>2. chosen[i - 1] = short[i - 1]
      BY <3>1
    <3> HIDE DEF short
    <3> QED
      BY <1>5, <2>2, <2>4, <3>2
  <2> QED
    BY <2>3, <2>4
<1>10. run[Len(s)] = chosen[Len(s)]
  <2>1. Len(s) \in 1 .. Len(s)
    BY <1>1
  <2> QED
    BY <1>9, <2>1
<1> QED
  BY <1>3, <1>8, <1>10

\* Flattening goes on with what is appended.
LEMMA FlattenAppend ==
  ASSUME NEW A, NEW s, s \in Seq(Seq(A)), NEW b, b \in Seq(A)
  PROVE  /\ FlattenSeq(<<>>) = <<>>
         /\ FlattenSeq(s) \in Seq(A)
         /\ FlattenSeq(Append(s, b)) = FlattenSeq(s) \o b
<1> DEFINE t == Append(s, b)
<1>1. /\ t \in Seq(Seq(A)) /\ Len(s) \in Nat /\ Len(t) = Len(s) + 1 /\ t[Len(s) + 1] = b
      /\ \A i \in 1 .. Len(s) : s[i] = t[i]
      /\ t # <<>>
  BY AppendProperties
<1>2. FlattenSeq(<<>>) = <<>>
  BY DEF FlattenSeq
<1> HIDE DEF t
<1>3. PICK g : /\ g \in [0 .. Len(t) -> Seq(A)]
               /\ IsFold(g, <<>>, Concat(A), t) /\ FlattenSeq(t) = g[Len(t)]
  BY <1>1, FlattenFold
<1>4. FlattenSeq(t) = g[Len(s)] \o b /\ g[Len(s)] \in Seq(A)
  <2>1. Len(t) \in 1 .. Len(t) /\ Len(t) - 1 = Len(s) /\ t[Len(t)] = b /\ Len(s) \in 0 .. Len(t)
    BY <1>1
  <2>2. g[Len(t)] = Concat(A)[g[Len(s)]][b]
    BY <1>3, <2>1 DEF IsFold
  <2>3. g[Len(s)] \in Seq(A)
    BY <1>3, <2>1
  <2> QED
    BY <1>3, <2>2, <2>3 DEF Concat
<1>5. FlattenSeq(s) = g[Len(s)]
  <2>1. CASE s = <<>>
    <3>1. Len(s) = 0 /\ g[0] = <<>>
      BY <1>3, <2>1 DEF IsFold
    <3> QED
      BY <1>2, <2>1, <3>1
  <2>2. CASE s # <<>>
    <3>1. PICK f : /\ f \in [0 .. Len(s) -> Seq(A)]
                   /\ IsFold(f, <<>>, Concat(A), s) /\ FlattenSeq(s) = f[Len(s)]
      BY <2>2, FlattenFold
    <3>2. Len(s) \in Nat /\ Len(t) \in Nat /\ Len(s) <= Len(t) /\ Len(s) <= Len(s)
      BY <1>1
    <3>3. /\ IsFold(f, <<>>, Concat(A), s) /\ IsFold(g, <<>>, Concat(A), t)
          /\ \A i \in 1 .. Len(s) : s[i] = t[i]
      BY <1>1, <1>3, <3>1
    <3>4. \A i \in 0 .. Len(s) : f[i] = g[i]
      BY <3>2, <3>3, FoldsAgree
    <3> QED
      BY <3>1, <3>2, <3>4
  <2> QED
    BY <2>1, <2>2
<1> QED
  BY <1>2, <1>4, <1>5 DEF t

-----------------------------------------------------------------------------
(* Prefixes of what a connection is sent.                                  *)

\* r is what was sent of s when r was all.
StartOf(r, s) == Len(r) <= Len(s) /\ \A i \in 1 .. Len(r) : r[i] = s[i]

LEMMA ChainedPrefix ==
  ASSUME NEW op, NEW at \in Nat, NEW s \in Seq(Bundles), Chained(op, at, s),
         NEW r \in Seq(Bundles), StartOf(r, s), Len(r) >= OpenLen(op)
  PROVE  /\ Chained(op, at, r)
         /\ Len(r) < Len(s) => /\ s[Len(r) + 1] \in Bundles /\ s[Len(r) + 1] # <<>>
                               /\ ContinuesFrom(s[Len(r) + 1], Reach(op, at, r))
<1>1. Len(r) \in Nat /\ Len(s) \in Nat /\ OpenLen(op) \in {0, 1} /\ Len(r) <= Len(s)
  BY LenProperties DEF OpenLen, StartOf
<1>2. \A i \in OpenLen(op) + 1 .. Len(r) + 1 : Prior(op, at, r, i) = Prior(op, at, s, i)
  BY <1>1 DEF Prior, StartOf
<1>3. Chained(op, at, r)
  BY SMTT(30), <1>1, <1>2 DEF Chained, StartOf
<1>4. ASSUME Len(r) < Len(s)
      PROVE  /\ s[Len(r) + 1] \in Bundles /\ s[Len(r) + 1] # <<>>
             /\ ContinuesFrom(s[Len(r) + 1], Reach(op, at, r))
  <2>1. Len(r) + 1 \in OpenLen(op) + 1 .. Len(s) /\ Len(r) + 1 \in 1 .. Len(s)
    BY <1>1, <1>4
  <2>2. Prior(op, at, s, Len(r) + 1) = Reach(op, at, r)
    BY <1>1, <1>2 DEF Reach
  <2> QED
    BY <2>1, <2>2, ElementOfSeq DEF Chained
<1> QED
  BY <1>3, <1>4

\* A sequence of bundles is empty or ends with a bundle.
LEMMA ShorterPrefix ==
  ASSUME NEW s \in Seq(Bundles), s # <<>>
  PROVE  \E front \in Seq(Bundles), b \in Bundles :
           /\ s = Append(front, b) /\ s[Len(s)] = b
           /\ Len(s) = Len(front) + 1 /\ Len(front) \in Nat /\ StartOf(front, s)
<1>1. PICK front \in Seq(Bundles), b \in Bundles : s = Append(front, b)
  BY SequenceEmptyOrAppend
<1>2. /\ Len(front) \in Nat /\ Len(s) = Len(front) + 1 /\ s[Len(front) + 1] = b
      /\ \A i \in 1 .. Len(front) : s[i] = front[i]
  BY <1>1, AppendProperties, LenProperties
<1> QED
  BY <1>1, <1>2 DEF StartOf

LEMMA RestAppend ==
  ASSUME NEW S, NEW front \in Seq(S), NEW b \in S, NEW m \in 1 .. Len(front) + 1
  PROVE  /\ SubSeq(front, m, Len(front)) \in Seq(S)
         /\ SubSeq(Append(front, b), m, Len(front) + 1)
              = Append(SubSeq(front, m, Len(front)), b)
<1> DEFINE t == Append(front, b)
           rest == SubSeq(front, m, Len(front))
           long == SubSeq(t, m, Len(front) + 1)
<1>1. /\ Len(front) \in Nat /\ t \in Seq(S) /\ Len(t) = Len(front) + 1
      /\ t[Len(front) + 1] = b /\ \A i \in 1 .. Len(front) : t[i] = front[i]
  BY AppendProperties, LenProperties
<1> HIDE DEF t
<1>2. /\ \A i \in m .. Len(front) : front[i] \in S
      /\ \A i \in m .. Len(front) + 1 : t[i] \in S
  BY <1>1, ElementOfSeq
<1>3. /\ rest \in Seq(S) /\ Len(rest) = Len(front) + 1 - m
      /\ \A i \in 1 .. Len(front) - m + 1 : rest[i] = front[m + i - 1]
  BY <1>1, <1>2, SubSeqProperties
<1>4. /\ long \in Seq(S) /\ Len(long) = Len(front) + 2 - m
      /\ \A i \in 1 .. Len(front) + 1 - m + 1 : long[i] = t[m + i - 1]
  BY <1>1, <1>2, SubSeqProperties
<1> HIDE DEF rest, long
<1>5. /\ Append(rest, b) \in Seq(S) /\ Len(Append(rest, b)) = Len(rest) + 1
      /\ \A i \in 1 .. Len(rest) : Append(rest, b)[i] = rest[i]
      /\ Append(rest, b)[Len(rest) + 1] = b
  BY <1>3, AppendProperties
<1> DEFINE appended == Append(rest, b)
<1> HIDE DEF appended
<1>6. m \in Nat /\ m >= 1 /\ m <= Len(front) + 1 /\ Len(front) \in Nat
  BY <1>1
<1>7. ASSUME NEW i \in 1 .. Len(front) + 2 - m PROVE long[i] = appended[i]
  <2>1. long[i] = t[m + i - 1]
    BY <1>4, <1>6
  <2>2. CASE i = Len(front) + 2 - m
    <3>1. m + i - 1 = Len(front) + 1 /\ i = Len(rest) + 1
      BY <1>3, <1>6, <2>2
    <3> QED
      BY <1>1, <1>5, <2>1, <3>1 DEF appended
  <2>3. CASE i # Len(front) + 2 - m
    <3>1. m + i - 1 \in 1 .. Len(front) /\ i \in 1 .. Len(front) - m + 1
      BY <1>6, <2>3
    <3>2. i \in 1 .. Len(rest)
      BY <1>3, <1>6, <3>1
    <3>3. long[i] = front[m + i - 1]
      BY <1>1, <2>1, <3>1
    <3> QED
      BY <1>3, <1>5, <3>1, <3>2, <3>3 DEF appended
  <2> QED
    BY <2>2, <2>3
<1>8. Len(appended) = Len(front) + 2 - m /\ appended \in Seq(S)
  BY <1>3, <1>5, <1>6 DEF appended
<1>9. long = appended
  BY <1>4, <1>7, <1>8, SeqEqual
<1> QED
  BY <1>3, <1>9 DEF rest, long, t, appended

\* The packets after `at' and up to `upto', in order.
InOrder(at, upto) == [k \in 1 .. upto - at |-> at + k]

\* A stream never goes back, and behind the opening it is the packets after `at' in order.
LEMMA HeardChained ==
  ASSUME NEW op, NEW at \in Nat, NEW s \in Seq(Bundles), Chained(op, at, s)
  PROVE  /\ Reach(op, at, s) \in Nat /\ Reach(op, at, s) >= at
         /\ FlattenSeq(SubSeq(s, OpenLen(op) + 1, Len(s))) = InOrder(at, Reach(op, at, s))
<1> DEFINE heard(r) == FlattenSeq(SubSeq(r, OpenLen(op) + 1, Len(r)))
           right(r) == /\ Reach(op, at, r) \in Nat /\ Reach(op, at, r) >= at
                       /\ heard(r) = InOrder(at, Reach(op, at, r))
           Bad == {n \in Nat : \E r \in Seq(Bundles) :
                     Len(r) = n /\ Chained(op, at, r) /\ ~right(r)}
<1>1. SUFFICES ASSUME Bad # {} PROVE FALSE
  <2> HIDE DEF right
  <2>1. Len(s) \in Nat
    BY LenProperties
  <2>2. right(s)
    BY <1>1, <2>1
  <2> QED
    BY <2>2 DEF right
<1>2. PICK n \in Bad : \A k \in Bad : n <= k
  <2>1. Bad \in SUBSET Nat
    OBVIOUS
  <2> HIDE DEF Bad
  <2> QED
    BY <1>1, <2>1, LeastNumber
<1>3. PICK r \in Seq(Bundles) : Len(r) = n /\ Chained(op, at, r) /\ ~right(r)
  BY <1>2
<1>4. Len(r) \in Nat /\ OpenLen(op) \in {0, 1} /\ Len(r) >= OpenLen(op)
  BY <1>3, ChainedReach DEF OpenLen
<1>5. CASE Len(r) = OpenLen(op)
  <2>1. Reach(op, at, r) = at
    BY <1>4, <1>5 DEF Reach, Prior
  <2>2. SubSeq(r, OpenLen(op) + 1, Len(r)) = <<>>
    BY <1>4, <1>5, SubSeqEmpty
  <2>3. FlattenSeq(<<>>) = <<>>
    BY EmptySeq, FlattenAppend
  <2>4. InOrder(at, Reach(op, at, r)) = <<>>
    BY <2>1 DEF InOrder
  <2>5. heard(r) = InOrder(at, Reach(op, at, r))
    BY <2>2, <2>3, <2>4
  <2>6. Reach(op, at, r) \in Nat /\ Reach(op, at, r) >= at
    BY <2>1
  <2> QED
    BY <1>3, <2>5, <2>6
<1>6. CASE Len(r) > OpenLen(op)
  <2>1. r # <<>>
    BY <1>4, <1>6
  <2>2. PICK front \in Seq(Bundles), b \in Bundles :
          /\ r = Append(front, b) /\ r[Len(r)] = b
          /\ Len(r) = Len(front) + 1 /\ Len(front) \in Nat /\ StartOf(front, r)
    BY <2>1, ShorterPrefix
  <2> DEFINE tail == SubSeq(front, OpenLen(op) + 1, Len(front))
             m == Reach(op, at, front)
  <2>3. Chained(op, at, front) /\ b # <<>> /\ ContinuesFrom(b, m)
    <3>1. Len(front) >= OpenLen(op) /\ Len(front) < Len(r) /\ Len(front) + 1 = Len(r)
      BY <1>4, <1>6, <2>2
    <3> QED
      BY <1>3, <2>2, <3>1, ChainedPrefix
  <2>4. right(front)
    <3>1. Len(front) \in Nat /\ Len(front) < n
      BY <1>3, <1>4, <1>6, <2>2
    <3>2. Len(front) \notin Bad
      <4>1. n \in Nat /\ ~ n <= Len(front)
        BY <1>2, <3>1
      <4> HIDE DEF Bad
      <4> QED
        BY <1>2, <4>1
    <3> HIDE DEF right
    <3> QED
      BY <2>2, <2>3, <3>1, <3>2
  <2>5. Reach(op, at, r) = m + Len(b)
    BY <2>2, <2>3, ChainedAppend
  <2>6. SubSeq(r, OpenLen(op) + 1, Len(r)) = Append(tail, b) /\ tail \in Seq(Bundles)
    <3>1. OpenLen(op) + 1 \in 1 .. Len(front) + 1
      BY <1>4, <1>6, <2>2
    <3> QED
      BY SMTT(30), <2>2, <3>1, RestAppend
  <2>7. heard(r) = heard(front) \o b
    <3>1. tail \in Seq(Seq(Packets)) /\ b \in Seq(Packets)
      BY <2>2, <2>6 DEF Bundles
    <3> HIDE DEF tail
    <3>2. FlattenSeq(Append(tail, b)) = FlattenSeq(tail) \o b
      BY <3>1, FlattenAppend
    <3> QED
      BY <2>6, <3>2 DEF tail
  <2>8. Len(b) \in Nat /\ m \in Nat /\ m >= at /\ \A j \in 1 .. Len(b) : b[j] = m + j
    BY <2>3, <2>4, LenProperties DEF ContinuesFrom, Bundles
  <2> DEFINE some == InOrder(at, m)
  <2>9. some \o b = InOrder(at, m + Len(b))
    <3> HIDE DEF m
    <3>1. some \in Seq(Int) /\ Len(some) = m - at /\ b \in Seq(Int)
      <4>1. b \in Seq(Packets) /\ Packets \subseteq Int
        BY <2>2 DEF Bundles, Packets
      <4>2. b \in Seq(Int)
        BY <4>1, SeqMonotonic
      <4> QED
        BY <2>8, <4>2 DEF InOrder
    <3> QED
      BY <2>8, <3>1 DEF InOrder
  <2>10. heard(r) = InOrder(at, Reach(op, at, r))
    <3>1. heard(front) = some /\ heard(r) = some \o b
      BY <2>4, <2>7
    <3> HIDE DEF heard, some
    <3> QED
      BY <2>5, <2>9, <3>1
  <2> QED
    BY <1>3, <2>4, <2>5, <2>8, <2>10
<1> QED
  BY <1>4, <1>5, <1>6

\* What was sent first reaches no further than what is sent in all.
LEMMA ReachGrows ==
  ASSUME NEW op, NEW at \in Nat, NEW s \in Seq(Bundles), Chained(op, at, s),
         NEW r \in Seq(Bundles), StartOf(r, s), Len(r) >= OpenLen(op)
  PROVE  Reach(op, at, r) <= Reach(op, at, s)
<1> DEFINE Bad == {n \in Nat : \E t \in Seq(Bundles) :
                     /\ Len(t) = n /\ StartOf(r, t) /\ Chained(op, at, t)
                     /\ ~ Reach(op, at, r) <= Reach(op, at, t)}
<1>1. SUFFICES ASSUME Bad # {} PROVE FALSE
  BY <1>1, LenProperties
<1>2. PICK n \in Bad : \A k \in Bad : n <= k
  <2>1. Bad \in SUBSET Nat
    OBVIOUS
  <2> HIDE DEF Bad
  <2> QED
    BY <1>1, <2>1, LeastNumber
<1>3. PICK t \in Seq(Bundles) : /\ Len(t) = n /\ StartOf(r, t) /\ Chained(op, at, t)
                                /\ ~ Reach(op, at, r) <= Reach(op, at, t)
  BY <1>2
<1>4. Len(r) \in Nat /\ Len(t) \in Nat /\ Len(r) <= Len(t) /\ OpenLen(op) \in {0, 1}
  BY <1>3, LenProperties DEF StartOf, OpenLen
<1>5. CASE Len(r) = Len(t)
  <2>1. r = t
    BY <1>3, <1>5, SeqEqual DEF StartOf
  <2>2. Reach(op, at, t) \in Nat
    BY <1>3, HeardChained
  <2> QED
    BY <1>3, <2>1, <2>2
<1>6. CASE Len(r) < Len(t)
  <2>1. t # <<>>
    BY <1>4, <1>6
  <2>2. PICK front \in Seq(Bundles), b \in Bundles :
          /\ t = Append(front, b) /\ t[Len(t)] = b
          /\ Len(t) = Len(front) + 1 /\ Len(front) \in Nat /\ StartOf(front, t)
    BY <2>1, ShorterPrefix
  <2>3. Chained(op, at, front) /\ b # <<>> /\ ContinuesFrom(b, Reach(op, at, front))
    <3>1. Len(front) >= OpenLen(op) /\ Len(front) < Len(t) /\ Len(front) + 1 = Len(t)
      BY <1>4, <1>6, <2>2
    <3> QED
      BY <1>3, <2>2, <3>1, ChainedPrefix
  <2>4. Reach(op, at, r) <= Reach(op, at, front)
    <3>1. Len(front) \in Nat /\ Len(front) < n
      BY <1>3, <1>4, <1>6, <2>2
    <3>2. Len(front) \notin Bad
      <4>1. n \in Nat /\ ~ n <= Len(front)
        BY <1>2, <3>1
      <4> HIDE DEF Bad
      <4> QED
        BY <1>2, <4>1
    <3>3. StartOf(r, front)
      BY <1>3, <1>4, <1>6, <2>2 DEF StartOf
    <3> QED
      BY <2>2, <2>3, <3>1, <3>2, <3>3
  <2>5. Reach(op, at, t) = Reach(op, at, front) + Len(b)
    BY <2>2, <2>3, ChainedAppend
  <2>6. Reach(op, at, front) \in Nat /\ Reach(op, at, r) \in Nat /\ Len(b) \in Nat
    <3>1. Chained(op, at, r)
      BY <1>3, ChainedPrefix
    <3> QED
      BY <2>2, <2>3, <3>1, HeardChained, LenProperties DEF Bundles
  <2> QED
    BY <1>3, <2>4, <2>5, <2>6
<1> QED
  BY <1>4, <1>5, <1>6

-----------------------------------------------------------------------------
(* The invariant.                                                          *)

Serving == {"select", "writing", "leaving"}

StreamTypes ==
  /\ published \in 0 .. Len(Feed) /\ clearedAt \in 0 .. Len(Feed)
  /\ lastContext \in 0 .. Len(Feed) /\ lastVersion \in 0 .. Len(Feed)
  /\ clients \in SUBSET Clients /\ pending \in Bundles
  /\ queue \in [Clients -> Seq(Bundles)] /\ writing \in [Clients -> Seq(Bundles)]
  /\ received \in [Clients -> Seq(Bundles)]
  /\ done \in [Clients -> BOOLEAN] /\ pc \in [Clients -> HandlerStates]
  /\ joined \in [Clients -> [at : 0 .. Len(Feed), cleared : 0 .. Len(Feed)]]

\* Who is registered, who was told, and what nobody was sent yet.
Told ==
  \A c \in Clients :
    /\ pc[c] \in Serving => (c \in clients <=> ~done[c])
    /\ c \in clients => pc[c] \in Serving
    /\ pc[c] \in {"idle", "upgraded"} => ~done[c] /\ queue[c] = <<>> /\ received[c] = <<>>
    /\ pc[c] \in {"idle", "upgraded", "select"} => writing[c] = <<>>

Cached ==
  /\ clearedAt <= published
  /\ lastContext = Latest("context", clearedAt, published)
  /\ lastVersion = Latest("version", clearedAt, published)

Stream(c) == Chained(Opening(c), joined[c].at, Sent(c))
Current(c) == UpTo(Opening(c), joined[c].at, Sent(c), pending, published)

Streams ==
  \A c \in Clients : /\ c \in clients \/ done[c] => Stream(c)
                     /\ c \in clients => Current(c)

RelayInv == StreamTypes /\ Told /\ Cached /\ Streams

USE RelayAssumption DEF RelayAssumption

LEMMA RelayInit == Init => RelayInv
<1> SUFFICES ASSUME Init PROVE RelayInv
  OBVIOUS
<1>1. <<>> \in Seq(Packets) /\ <<>> \in Seq(Bundles) /\ Len(Feed) \in Nat
  BY EmptySeq, LenProperties
<1>2. StreamTypes
  BY <1>1 DEF Init, StreamTypes, Bundles, HandlerStates, NoPacket
<1>3. Told /\ Streams
  BY DEF Init, Told, Streams, Serving
<1>4. Cached
  BY LatestEmpty DEF Init, Cached
<1> QED
  BY <1>2, <1>3, <1>4 DEF RelayInv

LEMMA SentTypes ==
  ASSUME StreamTypes, NEW c \in Clients
  PROVE  /\ Sent(c) \in Seq(Bundles) /\ joined[c].at \in Nat
         /\ received[c] \in Seq(Bundles) /\ writing[c] \in Seq(Bundles) /\ queue[c] \in Seq(Bundles)
<1>1. received[c] \in Seq(Bundles) /\ writing[c] \in Seq(Bundles) /\ queue[c] \in Seq(Bundles)
  BY DEF StreamTypes
<1>2. received[c] \o writing[c] \in Seq(Bundles)
  BY <1>1, ConcatProperties
<1> QED
  BY <1>1, <1>2, ConcatProperties DEF StreamTypes, Sent

\* Steps after which a connection was sent what it was sent before.
LEMMA SameStream ==
  ASSUME StreamTypes, NEW c \in Clients, Sent(c)' = Sent(c), joined'[c] = joined[c]
  PROVE  /\ Stream(c)' <=> Stream(c)
         /\ UNCHANGED <<pending, published>> => (Current(c)' <=> Current(c))
<1>1. Opening(c)' = Opening(c)
  BY DEF Opening
<1> QED
  BY <1>1 DEF Stream, Current

LEMMA OfferedSent ==
  ASSUME StreamTypes, NEW c \in Clients, NEW b \in Bundles, queue'[c] = Append(queue[c], b),
         received'[c] = received[c], writing'[c] = writing[c]
  PROVE  Sent(c)' = Append(Sent(c), b)
<1>1. received[c] \in Seq(Bundles) /\ writing[c] \in Seq(Bundles) /\ queue[c] \in Seq(Bundles)
  BY SentTypes
<1>2. \A r, w, q : r \in Seq(Bundles) /\ w \in Seq(Bundles) /\ q \in Seq(Bundles)
                     => r \o w \o Append(q, b) = Append(r \o w \o q, b)
  <2> HIDE RelayAssumption DEF RelayAssumption
  <2> QED
    BY SMTT(30), SentBundle
<1>3. PICK r, w, q : r = received[c] /\ w = writing[c] /\ q = queue[c]
  OBVIOUS
<1>4. r \in Seq(Bundles) /\ w \in Seq(Bundles) /\ q \in Seq(Bundles)
  BY <1>1, <1>3
<1>5. r \o w \o Append(q, b) = Append(r \o w \o q, b)
  <2> HIDE RelayAssumption DEF RelayAssumption
  <2> QED
    BY SMTT(30), <1>2, <1>4
<1>6. Sent(c) = r \o w \o q /\ Sent(c)' = r \o w \o Append(q, b)
  BY <1>3 DEF Sent
<1> QED
  BY <1>5, <1>6

\* A bundle is offered to everyone: a stream goes on with it, or is the one that was cut off.
LEMMA OfferStream ==
  ASSUME StreamTypes, NEW c \in Clients, NEW b \in Bundles, Stream(c),
         queue'[c] = Offered(b)[c], received'[c] = received[c], writing'[c] = writing[c],
         joined'[c] = joined[c],
         c \in clients =>
           LET reach == Reach(Opening(c), joined[c].at, Sent(c))
           IN /\ ContinuesFrom(b, reach)
              /\ ContinuesFrom(pending', reach + Len(b))
              /\ reach + Len(b) + Len(pending') = published'
  PROVE  Stream(c)' /\ (c \in clients \ Overrun(b) => Current(c)')
<1> DEFINE op == Opening(c)
           at == joined[c].at
           s == Sent(c)
<1>1. Opening(c)' = op
  BY DEF Opening
<1>2. /\ s \in Seq(Bundles) /\ at \in Nat /\ Chained(op, at, s)
      /\ received[c] \in Seq(Bundles) /\ writing[c] \in Seq(Bundles) /\ queue[c] \in Seq(Bundles)
  BY SentTypes DEF Stream
<1>3. CASE b # <<>> /\ c \in clients \ Overrun(b)
  <2>1. queue'[c] = Append(queue[c], b)
    BY <1>3 DEF Offered
  <2>2. Sent(c)' = Append(s, b)
    BY <2>1, OfferedSent
  <2>3. ContinuesFrom(b, Reach(op, at, s))
    BY <1>3
  <2> HIDE DEF op, at, s
  <2>4. Chained(op, at, Append(s, b)) /\ Reach(op, at, Append(s, b)) = Reach(op, at, s) + Len(b)
    BY <1>2, <1>3, <2>3, ChainedAppend
  <2>5. joined'[c].at = at
    BY DEF at
  <2>6. Stream(c)'
    BY <1>1, <2>2, <2>4, <2>5 DEF Stream
  <2>7. /\ ContinuesFrom(pending', Reach(op, at, s) + Len(b))
        /\ Reach(op, at, s) + Len(b) + Len(pending') = published'
    BY <1>3 DEF op, at, s
  <2>8. Current(c)'
    BY <1>1, <2>2, <2>4, <2>5, <2>7 DEF Current, UpTo
  <2> QED
    BY <2>6, <2>8
<1>4. CASE ~(b # <<>> /\ c \in clients \ Overrun(b))
  <2>1. queue'[c] = queue[c]
    BY <1>4 DEF Offered
  <2>2. Sent(c)' = s
    BY <2>1 DEF Sent
  <2>3. Stream(c)'
    BY <2>2, SameStream
  <2>4. ASSUME c \in clients \ Overrun(b) PROVE Current(c)'
    <3>1. b = <<>> /\ Len(b) = 0
      BY <1>4, <2>4
    <3>2. Reach(op, at, s) \in Int
      BY SMTT(30), <1>2, ChainedReach
    <3>3. Reach(op, at, s) + Len(b) = Reach(op, at, s)
      BY <3>1, <3>2
    <3>4. ContinuesFrom(pending', Reach(op, at, s)) /\ Reach(op, at, s) + Len(pending') = published'
      BY <2>4, <3>3
    <3> QED
      BY <1>1, <2>2, <3>4 DEF Current, UpTo
  <2> QED
    BY <2>3, <2>4
<1> QED
  BY <1>3, <1>4

-----------------------------------------------------------------------------
(* One lemma for each kind of step.                                        *)

\* What a stream consists of and depends on.
streamVars == <<published, clients, pending, lastContext, lastVersion, clearedAt, queue, writing,
                received, done, joined>>

\* A handler gets on with its work, or a connection is closed.
LEMMA QuietStep ==
  ASSUME RelayInv, NEW c \in Clients,
         \/ Handshake(c) \/ RejectClient(c) \/ ReaderReturns(c) \/ OnHangup(c) \/ OnDone(c)
         \/ WriteFails(c) \/ CloseNext(c)
  PROVE  RelayInv'
<1>1. UNCHANGED streamVars
  BY DEF Handshake, RejectClient, ReaderReturns, OnHangup, OnDone, WriteFails, CloseNext, relayVars,
         streamVars
<1>2. \/ pc' = pc
      \/ \E to \in {"upgraded", "gone"} :
            pc[c] \in {"idle", "upgraded"} /\ pc' = [pc EXCEPT ![c] = to]
      \/ pc[c] \in {"select", "writing"} /\ pc' = [pc EXCEPT ![c] = "leaving"]
  BY DEF Handshake, RejectClient, ReaderReturns, OnHangup, OnDone, WriteFails, CloseNext, Moves
<1>3. StreamTypes'
  BY <1>1, <1>2 DEF RelayInv, StreamTypes, streamVars, HandlerStates
<1>4. Told'
  BY <1>1, <1>2 DEF RelayInv, StreamTypes, streamVars, Told, Serving
<1>5. Cached' /\ Streams'
  BY <1>1 DEF RelayInv, streamVars, Cached, Streams, Stream, Current, Sent, Opening
<1> QED
  BY <1>3, <1>4, <1>5 DEF RelayInv

\* A bundle moves on towards the network.
LEMMA BundleMoves ==
  ASSUME RelayInv, NEW c \in Clients, OnBundle(c) \/ WriteSucceeds(c)
  PROVE  /\ UNCHANGED <<published, clients, pending, lastContext, lastVersion, clearedAt, done,
                       joined>>
         /\ \A d \in Clients \ {c} :
              queue'[d] = queue[d] /\ writing'[d] = writing[d] /\ received'[d] = received[d]
         /\ received'[c] \in Seq(Bundles) /\ writing'[c] \in Seq(Bundles)
         /\ queue'[c] \in Seq(Bundles)
         /\ \A d \in Clients : Sent(d)' = Sent(d) /\ joined'[d] = joined[d]
<1>1. /\ UNCHANGED <<published, clients, pending, lastContext, lastVersion, clearedAt, done, joined>>
      /\ \A d \in Clients \ {c} :
           queue'[d] = queue[d] /\ writing'[d] = writing[d] /\ received'[d] = received[d]
  BY DEF OnBundle, WriteSucceeds, relayVars, RelayInv, StreamTypes
<1>2. received[c] \in Seq(Bundles) /\ writing[c] \in Seq(Bundles) /\ queue[c] \in Seq(Bundles)
  BY DEF RelayInv, StreamTypes
<1>3. /\ received'[c] \in Seq(Bundles) /\ writing'[c] \in Seq(Bundles) /\ queue'[c] \in Seq(Bundles)
      /\ Sent(c)' = Sent(c)
  <2>1. CASE OnBundle(c)
    <3>1. /\ queue[c] # <<>> /\ pc[c] = "select" /\ writing'[c] = <<Head(queue[c])>>
          /\ queue'[c] = Tail(queue[c]) /\ received'[c] = received[c]
      BY <2>1 DEF OnBundle, Moves, RelayInv, StreamTypes
    <3>2. writing[c] = <<>>
      BY <3>1 DEF RelayInv, Told
    <3>3. Tail(queue[c]) \in Seq(Bundles) /\ <<Head(queue[c])>> \in Seq(Bundles)
      BY <1>2, <3>1
    <3>4. received[c] \o <<Head(queue[c])>> \o Tail(queue[c]) = received[c] \o <<>> \o queue[c]
      BY <1>2, <3>1, SentMoved
    <3> QED
      BY <1>2, <3>1, <3>2, <3>3, <3>4 DEF Sent
  <2>2. CASE WriteSucceeds(c)
    <3>1. /\ received'[c] = received[c] \o writing[c] /\ writing'[c] = <<>> /\ queue'[c] = queue[c]
      BY <2>2 DEF WriteSucceeds, RelayInv, StreamTypes
    <3>2. received[c] \o writing[c] \in Seq(Bundles) /\ <<>> \in Seq(Bundles)
      BY <1>2, ConcatProperties, EmptySeq
    <3>3. (received[c] \o writing[c]) \o <<>> \o queue[c] = received[c] \o writing[c] \o queue[c]
      BY <1>2, SentWritten
    <3> QED
      BY <1>2, <3>1, <3>2, <3>3 DEF Sent
  <2> QED
    BY <2>1, <2>2
<1> QED
  BY <1>1, <1>3 DEF Sent

LEMMA BundleStep ==
  ASSUME RelayInv, NEW c \in Clients, OnBundle(c) \/ WriteSucceeds(c)
  PROVE  RelayInv'
<1>1. /\ UNCHANGED <<published, clients, pending, lastContext, lastVersion, clearedAt, done, joined>>
      /\ \A d \in Clients \ {c} :
           queue'[d] = queue[d] /\ writing'[d] = writing[d] /\ received'[d] = received[d]
      /\ received'[c] \in Seq(Bundles) /\ writing'[c] \in Seq(Bundles) /\ queue'[c] \in Seq(Bundles)
      /\ \A d \in Clients : Sent(d)' = Sent(d) /\ joined'[d] = joined[d]
  BY BundleMoves
<1>2. StreamTypes'
  <2>1. /\ queue' \in [Clients -> Seq(Bundles)] /\ writing' \in [Clients -> Seq(Bundles)]
        /\ received' \in [Clients -> Seq(Bundles)]
    BY <1>1 DEF OnBundle, WriteSucceeds, RelayInv, StreamTypes
  <2>2. pc' \in [Clients -> HandlerStates]
    BY DEF OnBundle, WriteSucceeds, Moves, RelayInv, StreamTypes, HandlerStates
  <2> QED
    BY <1>1, <2>1, <2>2 DEF RelayInv, StreamTypes
<1>3. Told'
  <2>1. /\ pc[c] \in Serving /\ pc'[c] \in Serving
        /\ pc'[c] = "select" => writing'[c] = <<>>
        /\ \A d \in Clients \ {c} : pc'[d] = pc[d]
    BY DEF OnBundle, WriteSucceeds, Moves, RelayInv, StreamTypes, Serving
  <2> QED
    BY <1>1, <2>1 DEF RelayInv, Told, Serving
<1>4. Streams'
  BY <1>1, SameStream DEF RelayInv, Streams
<1>5. Cached'
  BY <1>1 DEF RelayInv, Cached
<1> QED
  BY <1>2, <1>3, <1>4, <1>5 DEF RelayInv

LEMMA RemoveStep ==
  ASSUME RelayInv, NEW c \in Clients, RemoveClient(c)
  PROVE  RelayInv'
<1>1. /\ UNCHANGED <<published, lastContext, lastVersion, clearedAt, queue, writing, received, joined>>
      /\ pc[c] = "leaving" /\ pc' = [pc EXCEPT ![c] = "gone"]
      /\ clients' = clients \ {c}
      /\ \A d \in Clients : done'[d] = (done[d] \/ (d = c /\ c \in clients))
      /\ pending' = pending \/ (clients' = {} /\ pending' = <<>>)
  BY ZenonT(60) DEF RemoveClient, Moves, RelayInv, StreamTypes
<1>2. StreamTypes'
  <2>1. <<>> \in Bundles
    BY EmptySeq DEF Bundles
  <2>2. done' \in [Clients -> BOOLEAN]
    BY DEF RemoveClient, RelayInv, StreamTypes
  <2> QED
    BY <1>1, <2>1, <2>2 DEF RelayInv, StreamTypes, HandlerStates
<1>3. Told'
  BY <1>1 DEF RelayInv, StreamTypes, Told, Serving
<1>4. \A d \in Clients : Sent(d)' = Sent(d) /\ joined'[d] = joined[d]
  BY <1>1 DEF Sent
<1>5. Streams'
  BY <1>1, <1>4, SameStream DEF RelayInv, Streams
<1>6. Cached'
  BY <1>1 DEF RelayInv, Cached
<1> QED
  BY <1>2, <1>3, <1>5, <1>6 DEF RelayInv

LEMMA CloseAllStep ==
  ASSUME RelayInv, CloseAll
  PROVE  RelayInv'
<1>1. /\ UNCHANGED <<published, queue, writing, received, joined, pc>>
      /\ clients' = {} /\ pending' = <<>> /\ clearedAt' = published
      /\ done' = [c \in Clients |-> done[c] \/ c \in clients]
      /\ lastContext' = NoPacket /\ lastVersion' = NoPacket
  BY DEF CloseAll
<1>2. StreamTypes'
  <2>1. <<>> \in Bundles /\ Len(Feed) \in Nat
    BY EmptySeq, LenProperties DEF Bundles
  <2> QED
    BY <1>1, <2>1 DEF RelayInv, StreamTypes, NoPacket
<1>3. Told'
  BY <1>1 DEF RelayInv, StreamTypes, Told, Serving
<1>4. \A d \in Clients : Sent(d)' = Sent(d) /\ joined'[d] = joined[d]
  BY <1>1 DEF Sent
<1>5. Streams'
  BY <1>1, <1>4, SameStream DEF RelayInv, Streams
<1>6. Cached'
  <2>1. published \in Nat
    BY LenProperties DEF RelayInv, StreamTypes
  <2> QED
    BY <1>1, <2>1, LatestEmpty DEF Cached
<1> QED
  BY <1>2, <1>3, <1>5, <1>6 DEF RelayInv

LEMMA PreambleBundle ==
  ASSUME NEW context \in 0 .. Len(Feed), NEW version \in 0 .. Len(Feed)
  PROVE  Preamble(context, version) \in Bundles
<1>1. Len(Feed) \in Nat
  BY LenProperties
<1>2. context # NoPacket => <<context>> \in Seq(Packets)
  BY <1>1 DEF Packets, NoPacket
<1>3. version # NoPacket => <<version>> \in Seq(Packets)
  BY <1>1 DEF Packets, NoPacket
<1>4. <<>> \in Seq(Packets)
  BY EmptySeq
<1> QED
  BY <1>2, <1>3, <1>4, ConcatProperties DEF Preamble, Bundles

\* The stream of a connection that has only been sent its opening.
LEMMA OpeningStream ==
  ASSUME NEW op \in Bundles, NEW at \in Nat, NEW s, s = IF op = <<>> THEN <<>> ELSE <<op>>
  PROVE  Chained(op, at, s) /\ UpTo(op, at, s, <<>>, at) /\ s \in Seq(Bundles)
<1>1. CASE op = <<>>
  <2>1. s = <<>> /\ Len(s) = 0 /\ s \in Seq(Bundles)
    BY <1>1, EmptySeq
  <2> QED
    BY <1>1, <2>1 DEF Chained, UpTo, Reach, Prior, OpenLen, ContinuesFrom
<1>2. CASE op # <<>>
  <2>1. s = <<op>> /\ Len(s) = 1 /\ s[1] = op /\ s \in Seq(Bundles)
    BY <1>2
  <2> QED
    BY <1>2, <2>1 DEF Chained, UpTo, Reach, Prior, OpenLen, ContinuesFrom
<1> QED
  BY <1>1, <1>2

LEMMA OfferTypes ==
  ASSUME StreamTypes, NEW b \in Bundles
  PROVE  Offered(b) \in [Clients -> Seq(Bundles)]
<1>1. \A c \in Clients : Append(queue[c], b) \in Seq(Bundles)
  BY AppendProperties DEF StreamTypes
<1> QED
  BY <1>1 DEF StreamTypes, Offered

LEMMA AddStep ==
  ASSUME RelayInv, NEW c \in Clients, AddClient(c)
  PROVE  RelayInv'
<1> DEFINE preamble == Preamble(lastContext, lastVersion)
           first == IF preamble = <<>> THEN <<>> ELSE <<preamble>>
<1>1. /\ UNCHANGED <<published, lastContext, lastVersion, clearedAt, writing, received>>
      /\ pc[c] = "upgraded" /\ pc' = [pc EXCEPT ![c] = "select"]
      /\ clients' = (clients \ Overrun(pending)) \union {c} /\ pending' = <<>>
      /\ done' = [d \in Clients |-> done[d] \/ d \in Overrun(pending)]
      /\ queue' = [Offered(pending) EXCEPT ![c] = first]
      /\ joined' = [joined EXCEPT ![c] = [at |-> published, cleared |-> clearedAt]]
  BY DEF AddClient, Evict
<1>2. Overrun(pending) \subseteq clients /\ c \notin clients /\ ~done[c]
  BY <1>1 DEF Overrun, RelayInv, Told, Serving
<1>3. /\ preamble \in Bundles /\ first \in Seq(Bundles) /\ published \in Nat
      /\ Chained(preamble, published, first) /\ UpTo(preamble, published, first, <<>>, published)
  <2>1. preamble \in Bundles /\ published \in Nat
    BY PreambleBundle DEF RelayInv, StreamTypes
  <2> HIDE DEF preamble
  <2> QED
    BY <2>1, OpeningStream
<1>4. /\ \A d \in Clients \ {c} : queue'[d] = Offered(pending)[d] /\ joined'[d] = joined[d]
      /\ queue'[c] = first /\ joined'[c] = [at |-> published, cleared |-> clearedAt]
  BY <1>1 DEF RelayInv, StreamTypes, Offered
<1> HIDE DEF preamble, first
<1>5. StreamTypes'
  <2>1. <<>> \in Bundles /\ Offered(pending) \in [Clients -> Seq(Bundles)]
    BY EmptySeq, OfferTypes DEF Bundles, RelayInv, StreamTypes
  <2>2. queue' \in [Clients -> Seq(Bundles)]
    BY <1>1, <1>3, <2>1
  <2>3. joined' \in [Clients -> [at : 0 .. Len(Feed), cleared : 0 .. Len(Feed)]]
    BY <1>1 DEF RelayInv, StreamTypes
  <2>4. clients' \in SUBSET Clients
    BY <1>1 DEF RelayInv, StreamTypes
  <2> QED
    BY <1>1, <2>1, <2>2, <2>3, <2>4 DEF RelayInv, StreamTypes, HandlerStates
<1>6. Told'
  <2>1. \A d \in Clients \ {c} : pc'[d] = pc[d]
    BY <1>1 DEF RelayInv, StreamTypes
  <2>2. pc'[c] = "select" /\ c \in clients' /\ ~done'[c] /\ writing'[c] = <<>>
    BY <1>1, <1>2 DEF RelayInv, StreamTypes, Told
  <2>3. ASSUME NEW d \in Clients \ {c}, pc[d] \in {"idle", "upgraded"}
        PROVE  queue'[d] = queue[d]
    BY <1>4, <2>3 DEF Offered, RelayInv, Told, Serving
  <2> QED
    BY <1>1, <1>2, <2>1, <2>2, <2>3 DEF RelayInv, StreamTypes, Told, Serving
<1>7. Cached'
  BY <1>1 DEF RelayInv, Cached
<1>8. Stream(c)' /\ Current(c)'
  <2>1. Opening(c)' = preamble
    BY <1>1, <1>4 DEF Opening, preamble, RelayInv, Cached
  <2>2. Sent(c)' = first
    <3>1. received'[c] = <<>> /\ writing'[c] = <<>>
      BY <1>1 DEF RelayInv, Told
    <3>2. <<>> \o <<>> \o first = first
      BY <1>3
    <3> QED
      BY <1>4, <3>1, <3>2 DEF Sent
  <2>3. joined'[c].at = published
    BY <1>4
  <2> QED
    BY <1>1, <1>3, <2>1, <2>2, <2>3 DEF Stream, Current
<1>9. ASSUME NEW d \in Clients \ {c}, d \in clients \/ done[d]
      PROVE  Stream(d)' /\ (d \in clients \ Overrun(pending) => Current(d)')
  <2>1. Stream(d)
    BY <1>9 DEF RelayInv, Streams
  <2>2. d \in clients =>
          LET reach == Reach(Opening(d), joined[d].at, Sent(d))
          IN /\ ContinuesFrom(pending, reach)
             /\ ContinuesFrom(pending', reach + Len(pending))
             /\ reach + Len(pending) + Len(pending') = published'
    <3> DEFINE reach == Reach(Opening(d), joined[d].at, Sent(d))
    <3> SUFFICES ASSUME d \in clients
                 PROVE  /\ ContinuesFrom(pending, reach)
                        /\ ContinuesFrom(pending', reach + Len(pending))
                        /\ reach + Len(pending) + Len(pending') = published'
      OBVIOUS
    <3>1. ContinuesFrom(pending, reach) /\ reach + Len(pending) = published
      BY DEF RelayInv, Streams, Current, UpTo
    <3>2. Len(pending') = 0
      BY <1>1
    <3> HIDE DEF reach
    <3> QED
      BY <1>1, <1>3, <3>1, <3>2 DEF ContinuesFrom
  <2>3. received'[d] = received[d] /\ writing'[d] = writing[d]
    BY <1>1
  <2>4. pending \in Bundles /\ StreamTypes
    BY DEF RelayInv, StreamTypes
  <2> QED
    BY <1>4, <2>1, <2>2, <2>3, <2>4, OfferStream
<1>10. Streams'
  BY <1>1, <1>2, <1>8, <1>9 DEF RelayInv, StreamTypes, Streams
<1> QED
  BY <1>5, <1>6, <1>7, <1>10 DEF RelayInv

ReachOf(c) == Reach(Opening(c), joined[c].at, Sent(c))

\* A bundle is published to all: those who had room go on with it.
LEMMA PublishStreams ==
  ASSUME StreamTypes, Streams, NEW b \in Bundles, PublishBundle(b),
         UNCHANGED <<received, writing, joined>>,
         \A c \in clients : /\ ContinuesFrom(b, ReachOf(c))
                            /\ ContinuesFrom(pending', ReachOf(c) + Len(b))
                            /\ ReachOf(c) + Len(b) + Len(pending') = published'
  PROVE  Streams'
<1>1. /\ queue' = Offered(b) /\ clients' = clients \ Overrun(b) /\ Overrun(b) \subseteq clients
      /\ done' = [c \in Clients |-> done[c] \/ c \in Overrun(b)]
  BY DEF PublishBundle, Evict, Overrun
<1>2. ASSUME NEW c \in Clients, c \in clients \/ done[c]
      PROVE  Stream(c)' /\ (c \in clients \ Overrun(b) => Current(c)')
  <2>1. Stream(c)
    BY <1>2 DEF Streams
  <2>2. /\ queue'[c] = Offered(b)[c] /\ received'[c] = received[c] /\ writing'[c] = writing[c]
        /\ joined'[c] = joined[c]
    BY <1>1
  <2> QED
    BY <2>1, <2>2, OfferStream DEF ReachOf
<1> QED
  BY <1>1, <1>2 DEF StreamTypes, Streams

LEMMA PublishStep ==
  ASSUME RelayInv, PublishPacket
  PROVE  RelayInv'
<1> DEFINE p == published + 1
<1>1. /\ UNCHANGED <<pc, writing, received, clearedAt, joined>>
      /\ published' = p /\ p \in Packets /\ p \in Nat /\ published \in Nat /\ p <= Len(Feed)
      /\ lastContext' = IF Feed[p] = "context" THEN p ELSE lastContext
      /\ lastVersion' = IF Feed[p] = "version" THEN p ELSE lastVersion
  <2>1. Len(Feed) \in Nat
    BY LenProperties
  <2> QED
    BY <2>1 DEF PublishPacket, CacheControl, Packets, RelayInv, StreamTypes
<1>2. /\ pending \in Bundles /\ Len(pending) \in Nat
      /\ Append(pending, p) \in Bundles /\ Len(Append(pending, p)) = Len(pending) + 1
      /\ \A i \in 1 .. Len(pending) : Append(pending, p)[i] = pending[i]
      /\ Append(pending, p)[Len(pending) + 1] = p
      /\ <<p>> \in Bundles /\ <<>> \in Bundles
  BY <1>1, AppendProperties, LenProperties DEF RelayInv, StreamTypes, Bundles
<1>3. ASSUME NEW c \in clients
      PROVE  /\ ReachOf(c) \in Int /\ ContinuesFrom(pending, ReachOf(c))
             /\ ReachOf(c) + Len(pending) = published
             /\ ContinuesFrom(Append(pending, p), ReachOf(c))
  <2>1. ContinuesFrom(pending, ReachOf(c)) /\ ReachOf(c) + Len(pending) = published
    BY DEF RelayInv, StreamTypes, Streams, Current, UpTo, ReachOf
  <2>2. ReachOf(c) \in Int
    <3>1. Stream(c) /\ Sent(c) \in Seq(Bundles) /\ joined[c].at \in Nat
      BY SentTypes DEF RelayInv, StreamTypes, Streams
    <3> QED
      BY <3>1, ChainedReach DEF Stream, ReachOf
  <2>3. ContinuesFrom(Append(pending, p), ReachOf(c))
    BY SMTT(30), <1>2, <2>1, <2>2 DEF ContinuesFrom
  <2> QED
    BY <2>1, <2>2, <2>3
<1>4. Cached'
  <2>1. /\ Latest("context", clearedAt, published + 1)
             = IF Feed[published + 1] = "context" THEN published + 1
               ELSE Latest("context", clearedAt, published)
        /\ Latest("version", clearedAt, published + 1)
             = IF Feed[published + 1] = "version" THEN published + 1
               ELSE Latest("version", clearedAt, published)
    BY <1>1, LatestStep, SMTT(30) DEF RelayInv, Cached, StreamTypes
  <2>2. clearedAt <= published + 1
    BY <1>1 DEF RelayInv, Cached, StreamTypes
  <2>3. clearedAt' = clearedAt /\ published' = published + 1
    BY <1>1
  <2> QED
    BY <1>1, <2>1, <2>2, <2>3 DEF RelayInv, Cached
\* What is offered: nothing, what is pending, or what is pending with the new packet.
<1>5. \/ /\ clients = {} /\ pending' = <<>> /\ UNCHANGED <<queue, clients, done>>
      \/ /\ pending # <<>> /\ PublishBundle(pending) /\ pending' = <<p>>
      \/ PublishBundle(Append(pending, p)) /\ pending' = <<>>
      \/ pending' = Append(pending, p) /\ UNCHANGED <<queue, clients, done>>
  BY DEF PublishPacket, FlushBefore, AppendPacket
<1>6. pending' \in Bundles
  BY <1>2, <1>5
<1>7. \/ UNCHANGED <<queue, clients, done>>
      \/ \E b \in Bundles : PublishBundle(b)
  BY <1>2, <1>5
<1>8. StreamTypes' /\ Told'
  <2>1. CASE UNCHANGED <<queue, clients, done>>
    BY <1>1, <1>6, <2>1, SMTT(30) DEF RelayInv, StreamTypes, Told, Packets
  <2>2. ASSUME NEW b \in Bundles, PublishBundle(b) PROVE StreamTypes' /\ Told'
    <3>1. /\ queue' = Offered(b) /\ clients' = clients \ Overrun(b) /\ Overrun(b) \subseteq clients
          /\ done' = [c \in Clients |-> done[c] \/ c \in Overrun(b)]
      BY <2>2 DEF PublishBundle, Evict, Overrun
    <3>2. queue' \in [Clients -> Seq(Bundles)]
      BY <3>1, OfferTypes DEF RelayInv
    <3>3. StreamTypes'
      BY <1>1, <1>6, <3>1, <3>2 DEF RelayInv, StreamTypes, Packets
    <3>4. \A c \in Clients : c \notin clients => queue'[c] = queue[c]
      BY <3>1 DEF Offered
    <3>5. Told'
      BY <1>1, <3>1, <3>4 DEF RelayInv, StreamTypes, Told, Serving
    <3> QED
      BY <3>3, <3>5
  <2> QED
    BY <1>7, <2>1, <2>2
<1>9. Streams'
  <2> HIDE DEF p
  <2>0. p = published + 1
    BY DEF p
  <2>1. CASE clients = {} /\ UNCHANGED <<queue, clients, done>>
    <3>1. \A c \in Clients : Sent(c)' = Sent(c) /\ joined'[c] = joined[c]
      BY <1>1, <2>1 DEF Sent
    <3> QED
      BY <1>1, <2>1, <3>1, SameStream DEF RelayInv, Streams
  <2>2. CASE pending # <<>> /\ PublishBundle(pending) /\ pending' = <<p>>
    <3>1. ASSUME NEW c \in clients
          PROVE  /\ ContinuesFrom(pending, ReachOf(c))
                 /\ ContinuesFrom(pending', ReachOf(c) + Len(pending))
                 /\ ReachOf(c) + Len(pending) + Len(pending') = published'
      <4>1. Len(pending') = 1 /\ pending'[1] = p
        BY <2>2
      <4> QED
        BY <1>1, <1>3, <2>0, <4>1, SMTT(30) DEF ContinuesFrom
    <3> QED
      BY <1>1, <1>2, <2>2, <3>1, PublishStreams DEF RelayInv
  <2>3. CASE PublishBundle(Append(pending, p)) /\ pending' = <<>>
    <3>1. ASSUME NEW c \in clients
          PROVE  /\ ContinuesFrom(Append(pending, p), ReachOf(c))
                 /\ ContinuesFrom(pending', ReachOf(c) + Len(Append(pending, p)))
                 /\ ReachOf(c) + Len(Append(pending, p)) + Len(pending') = published'
      <4>1. Len(pending') = 0
        BY <2>3
      <4>2. ContinuesFrom(pending', ReachOf(c) + Len(Append(pending, p)))
        BY <4>1 DEF ContinuesFrom
      <4> QED
        BY <1>1, <1>2, <1>3, <2>0, <4>1, <4>2, SMTT(30)
    <3> QED
      BY <1>1, <1>2, <2>3, <3>1, PublishStreams DEF RelayInv
  <2>4. CASE pending' = Append(pending, p) /\ UNCHANGED <<queue, clients, done>>
    <3>1. \A c \in Clients : Sent(c)' = Sent(c) /\ joined'[c] = joined[c] /\ Opening(c)' = Opening(c)
      BY <1>1, <2>4 DEF Sent, Opening
    <3>2. \A c \in Clients : Stream(c)' <=> Stream(c)
      BY <3>1, SameStream DEF RelayInv
    <3>3. ASSUME NEW c \in clients PROVE Current(c)'
      <4>1. /\ ContinuesFrom(pending', ReachOf(c))
            /\ ReachOf(c) + Len(pending') = published'
        BY <1>1, <1>2, <1>3, <2>0, <2>4, SMTT(30)
      <4>2. c \in Clients
        BY DEF RelayInv, StreamTypes
      <4> QED
        BY <3>1, <4>1, <4>2 DEF Current, UpTo, ReachOf
    <3> QED
      BY <2>4, <3>2, <3>3 DEF RelayInv, Streams
  <2> QED
    BY <1>5, <2>1, <2>2, <2>3, <2>4
<1> QED
  BY <1>4, <1>8, <1>9 DEF RelayInv

LEMMA RelayStep == RelayInv /\ [Next]_vars => RelayInv'
<1> SUFFICES ASSUME RelayInv, [Next]_vars PROVE RelayInv'
  OBVIOUS
<1>1. CASE PublishPacket
  BY <1>1, PublishStep
<1>2. CASE CloseAll
  BY <1>2, CloseAllStep
<1>3. ASSUME NEW c \in Clients, Handler(c) \/ ReaderReturns(c) \/ CloseNext(c)
      PROVE  RelayInv'
  BY <1>3, QuietStep, BundleStep, AddStep, RemoveStep DEF Handler
<1>4. CASE UNCHANGED vars
  <2>1. UNCHANGED streamVars /\ UNCHANGED pc
    BY <1>4 DEF vars, relayVars, clientVars, streamVars
  <2> QED
    BY <2>1 DEF streamVars, RelayInv, StreamTypes, Told, Cached, Streams, Stream, Current, Sent,
                Opening
<1> QED
  BY <1>1, <1>2, <1>3, <1>4 DEF Next

-----------------------------------------------------------------------------
\* No handler is left waiting on a queue nobody fills, and no slot is held by a connection
\* without a handler, for any number of connections and however eviction, removal and
\* closeAll interleave.
THEOREM EveryClientIsServedOrTold == SafetySpec => []ServedOrTold
<1>1. RelayInv => ServedOrTold
  BY DEF RelayInv, StreamTypes, Told, ServedOrTold, Serving
<1> QED
  BY <1>1, RelayInit, RelayStep, PTL DEF SafetySpec

\* A connection gets the current control packets, then every packet published after its
\* registration, until it is cut off, for every feed, size of bundle and size of queue.
THEOREM NothingIsSkipped == SafetySpec => []NoSilentSkip
<1>1. ASSUME RelayInv, NEW c \in Clients, c \in clients \/ done[c]
      PROVE  Continues(c, Sent(c))
  <2>1. Stream(c) /\ (c \in clients => Current(c))
    BY <1>1 DEF RelayInv, Streams
  <2>2. OpeningLen(c) = OpenLen(Opening(c))
    BY DEF OpeningLen, OpenLen
  <2>3. \A i : Before(c, Sent(c), i) = Prior(Opening(c), joined[c].at, Sent(c), i)
    BY <2>2 DEF Before, Prior
  <2> QED
    BY <2>1, <2>2, <2>3 DEF Continues, Stream, Current, Chained, UpTo, Reach
<1>2. RelayInv => NoSilentSkip
  BY <1>1 DEF NoSilentSkip
<1> QED
  BY <1>2, RelayInit, RelayStep, PTL DEF SafetySpec

HIDE RelayAssumption DEF RelayAssumption

-----------------------------------------------------------------------------
(* The limits on what a receiver gets, and on who gets it.                 *)

Fits(b) == Len(b) <= MaxBundlePackets /\ EncodedBytes(b) <= MaxBundleBytes

LimitsInv ==
  /\ TypeOK
  /\ ClientLimit
  /\ \A c \in Clients : \A i \in 1 .. Len(Sent(c)) : Fits(Sent(c)[i])
  /\ pending # <<>> => Fits(pending) /\ pendingBytes = EncodedBytes(pending)
  /\ lastContext # NoPacket => Feed[lastContext] = "context"
  /\ lastVersion # NoPacket => Feed[lastVersion] = "version"

\* How many clients there are, and how many of them a bundle evicts.
LEMMA Counted ==
  ASSUME clients \in SUBSET Clients, NEW b
  PROVE  /\ IsFiniteSet(clients) /\ Cardinality(clients) \in Nat
         /\ Cardinality(Overrun(b)) \in Nat
         /\ IsFiniteSet(clients \ Overrun(b))
         /\ Cardinality(clients \ Overrun(b)) <= Cardinality(clients)
<1>1. IsFiniteSet(clients)
  BY RelayAssumption, FS_Subset DEF RelayAssumption
<1>2. /\ IsFiniteSet(Overrun(b)) /\ IsFiniteSet(clients \ Overrun(b))
      /\ Cardinality(clients \ Overrun(b)) <= Cardinality(clients)
  BY <1>1, FS_Subset DEF Overrun
<1> QED
  BY <1>1, <1>2, FS_CardinalityType

LEMMA PreambleFits ==
  ASSUME NEW context \in 0 .. Len(Feed), NEW version \in 0 .. Len(Feed),
         context # NoPacket => Feed[context] = "context",
         version # NoPacket => Feed[version] = "version"
  PROVE  Preamble(context, version) # <<>> => Fits(Preamble(context, version))
<1>1. /\ Len(Feed) \in Nat /\ HeaderBytes \in Nat /\ MaxBundleBytes \in Nat
      /\ Size["context"] \in Nat /\ Size["version"] \in Nat /\ MaxBundlePackets \in Nat
      /\ MaxBundlePackets >= 2 /\ HeaderBytes + Size["context"] + Size["version"] <= MaxBundleBytes
  BY RelayAssumption, LenProperties DEF RelayAssumption, Kinds
<1>2. /\ context # NoPacket => context \in Packets
      /\ version # NoPacket => version \in Packets
  BY <1>1 DEF Packets, NoPacket
<1>3. <<>> \in Bundles /\ EncodedBytes(<<>>) = HeaderBytes
  BY EmptySeq, EncodedEmpty DEF Bundles
<1>4. ASSUME NEW p \in Packets
      PROVE  <<p>> \in Bundles /\ Len(<<p>>) = 1 /\ EncodedBytes(<<p>>) = HeaderBytes + Size[Feed[p]]
  <2>1. <<p>> = Append(<<>>, p)
    OBVIOUS
  <2>2. <<p>> \in Bundles /\ Len(<<p>>) = 1
    BY DEF Bundles
  <2> QED
    BY <1>3, <2>1, <2>2, EncodedAppend
<1>5. CASE context # NoPacket /\ version # NoPacket
  <2>1. Preamble(context, version) = Append(<<context>>, version)
    BY <1>5 DEF Preamble
  <2>2. Len(Append(<<context>>, version)) = 2
    OBVIOUS
  <2>3. EncodedBytes(Append(<<context>>, version)) = HeaderBytes + Size["context"] + Size["version"]
    BY <1>2, <1>4, <1>5, EncodedAppend
  <2> QED
    BY <1>1, <2>1, <2>2, <2>3 DEF Fits
<1>6. CASE context # NoPacket /\ version = NoPacket
  <2>1. Preamble(context, version) = <<context>>
    BY <1>6 DEF Preamble
  <2> QED
    BY <1>1, <1>2, <1>4, <1>6, <2>1 DEF Fits
<1>7. CASE context = NoPacket /\ version # NoPacket
  <2>1. Preamble(context, version) = <<version>>
    BY <1>7 DEF Preamble
  <2> QED
    BY <1>1, <1>2, <1>4, <1>7, <2>1 DEF Fits
<1>8. CASE context = NoPacket /\ version = NoPacket
  BY <1>8 DEF Preamble
<1> QED
  BY <1>5, <1>6, <1>7, <1>8

\* What everyone is offered fits when the bundle does, and no queue outgrows its bound.
LEMMA OfferFits ==
  ASSUME StreamTypes, TypeOK, NEW c \in Clients, NEW b \in Bundles, b # <<>> => Fits(b),
         queue'[c] = Offered(b)[c], received'[c] = received[c], writing'[c] = writing[c],
         \A i \in 1 .. Len(Sent(c)) : Fits(Sent(c)[i])
  PROVE  /\ \A i \in 1 .. Len(Sent(c)') : Fits(Sent(c)'[i])
         /\ Len(queue'[c]) <= QueueCapacity
<1>1. Len(queue[c]) \in Nat /\ Len(queue[c]) <= QueueCapacity /\ QueueCapacity \in Nat
  BY RelayAssumption, LenProperties DEF RelayAssumption, TypeOK
<1>2. CASE b # <<>> /\ c \in clients \ Overrun(b)
  <2>1. queue'[c] = Append(queue[c], b) /\ Len(queue[c]) < QueueCapacity
    BY <1>1, <1>2 DEF Offered, Overrun
  <2>2. Sent(c)' = Append(Sent(c), b)
    BY <2>1, OfferedSent
  <2>3. Sent(c) \in Seq(Bundles)
    BY SentTypes
  <2>4. /\ Len(Sent(c)) \in Nat /\ Len(Sent(c)') = Len(Sent(c)) + 1
        /\ \A i \in 1 .. Len(Sent(c)) : Sent(c)'[i] = Sent(c)[i]
        /\ Sent(c)'[Len(Sent(c)) + 1] = b
    BY <2>2, <2>3, AppendProperties, LenProperties
  <2>5. \A i \in 1 .. Len(Sent(c)') : Fits(Sent(c)'[i])
    <3>1. ASSUME NEW i \in 1 .. Len(Sent(c)') PROVE Fits(Sent(c)'[i])
      <4>1. i \in 1 .. Len(Sent(c)) \/ i = Len(Sent(c)) + 1
        BY <2>4
      <4>2. CASE i \in 1 .. Len(Sent(c))
        BY <2>4, <4>2
      <4>3. CASE i = Len(Sent(c)) + 1
        BY <1>2, <2>4, <4>3
      <4> QED
        BY <4>1, <4>2, <4>3
    <3> QED
      BY <3>1
  <2>6. queue[c] \in Seq(Bundles)
    BY DEF StreamTypes
  <2>7. Len(queue'[c]) = Len(queue[c]) + 1
    BY <2>1, <2>6, AppendProperties
  <2> QED
    BY <1>1, <2>1, <2>5, <2>7
<1>3. CASE ~(b # <<>> /\ c \in clients \ Overrun(b))
  <2>1. queue'[c] = queue[c]
    BY <1>3 DEF Offered
  <2> QED
    BY <1>1, <2>1 DEF Sent
<1> QED
  BY <1>2, <1>3

LEMMA LimitsInit == Init => LimitsInv
<1> SUFFICES ASSUME Init PROVE LimitsInv
  OBVIOUS
<1>1. /\ <<>> \in Seq(Packets) /\ <<>> \in Seq(Bundles) /\ Len(Feed) \in Nat /\ Len(<<>>) = 0
      /\ MaxClients \in Nat /\ QueueCapacity \in Nat /\ MaxCloses \in Nat
  BY RelayAssumption, EmptySeq, LenProperties DEF RelayAssumption
<1>2. TypeOK
  BY <1>1 DEF Init, TypeOK, HandlerStates, NoPacket
<1>3. ClientLimit
  BY <1>1, FS_EmptySet DEF Init, ClientLimit
<1>4. ASSUME NEW c \in Clients PROVE Len(Sent(c)) = 0
  <2>1. Sent(c) = <<>> \o <<>> \o <<>>
    BY DEF Init, Sent
  <2> QED
    BY <2>1
<1> QED
  BY <1>2, <1>3, <1>4 DEF Init, LimitsInv, NoPacket

\* A step that sends nobody anything.
LEMMA LimitsKept ==
  ASSUME LimitsInv, TypeOK', UNCHANGED <<lastContext, lastVersion>>, clients' \subseteq clients,
         \/ UNCHANGED <<pending, pendingBytes>>
         \/ pending' = <<>>,
         \A c \in Clients : Sent(c)' = Sent(c)
  PROVE  LimitsInv'
<1>1. ClientLimit'
  <2>1. Cardinality(clients') <= Cardinality(clients)
    BY Counted, FS_Subset DEF LimitsInv, TypeOK
  <2>2. Cardinality(clients) \in Nat /\ Cardinality(clients') \in Nat /\ MaxClients \in Nat
    BY Counted, RelayAssumption, FS_Subset, FS_CardinalityType
    DEF RelayAssumption, LimitsInv, TypeOK
  <2> QED
    BY <2>1, <2>2 DEF LimitsInv, ClientLimit
<1>2. pending' # <<>> => Fits(pending') /\ pendingBytes' = EncodedBytes(pending')
  BY DEF LimitsInv
<1>3. \A c \in Clients : \A i \in 1 .. Len(Sent(c)') : Fits(Sent(c)'[i])
  BY DEF LimitsInv
<1> QED
  BY <1>1, <1>2, <1>3 DEF LimitsInv, Fits

\* What StreamTypes says nothing about.
OtherTypes ==
  /\ pendingBytes \in Nat /\ disconnects \in Nat
  /\ conn \in [Clients -> {"none", "open", "closed"}] /\ hangup \in [Clients -> BOOLEAN]
  /\ \A c \in Clients : Len(writing[c]) <= 1
  /\ toClose \in SUBSET Clients /\ closes \in 0 .. MaxCloses

LEMMA TypeSplit ==
  TypeOK <=> StreamTypes /\ OtherTypes /\ \A c \in Clients : Len(queue[c]) <= QueueCapacity
BY DEF TypeOK, StreamTypes, OtherTypes, Bundles

LEMMA TypeNext ==
  ASSUME StreamTypes', OtherTypes', \A c \in Clients : Len(queue'[c]) <= QueueCapacity
  PROVE  TypeOK'
BY DEF TypeOK, StreamTypes, OtherTypes, Bundles

LEMMA OtherTypesStep ==
  ASSUME TypeOK, Next
  PROVE  OtherTypes'
<1> USE RelayAssumption DEF RelayAssumption
<1>1. TypeOK /\ OtherTypes /\ StreamTypes
  BY TypeSplit
<1>2. \A b : Cardinality(Overrun(b)) \in Nat
  BY Counted DEF TypeOK
<1>3. CASE PublishPacket
  <2>1. published + 1 \in Packets
    BY <1>3, LenProperties DEF PublishPacket, TypeOK, Packets
  <2>2. Size[Feed[published + 1]] \in Nat
    BY <2>1, PacketSize
  <2>3. pendingBytes' \in Nat
    <3>1. \/ pendingBytes' = 0 \/ pendingBytes' = HeaderBytes + Size[Feed[published + 1]]
          \/ pendingBytes' = pendingBytes + Size[Feed[published + 1]]
      BY <1>3 DEF PublishPacket, AppendPacket
    <3> QED
      BY SMTT(30), <1>1, <2>2, <3>1 DEF OtherTypes
  <2>4. disconnects' = disconnects \/ \E b : disconnects' = disconnects + Cardinality(Overrun(b))
    BY <1>3 DEF PublishPacket, AppendPacket, PublishBundle, Evict
  <2>5. disconnects' \in Nat
    BY <1>1, <1>2, <2>4 DEF OtherTypes
  <2>6. UNCHANGED <<conn, hangup, writing, toClose, closes>>
    BY <1>3 DEF PublishPacket
  <2> QED
    BY <1>1, <2>3, <2>5, <2>6 DEF OtherTypes
<1>4. CASE CloseAll
  <2>1. Cardinality(clients) \in Nat
    BY Counted DEF TypeOK
  <2> QED
    BY SMTT(30), <1>1, <1>4, <2>1 DEF CloseAll, OtherTypes, StreamTypes
<1>5. ASSUME NEW c \in Clients, AddClient(c) PROVE OtherTypes'
  BY SMTT(30), <1>1, <1>2, <1>5 DEF AddClient, Evict, OtherTypes
<1>6. ASSUME NEW c \in Clients, OnBundle(c) \/ WriteSucceeds(c) PROVE OtherTypes'
  <2>1. UNCHANGED <<pendingBytes, disconnects, conn, hangup, toClose, closes>>
    BY <1>6 DEF OnBundle, WriteSucceeds, relayVars
  <2>2. \A d \in Clients \ {c} : writing'[d] = writing[d]
    BY <1>1, <1>6 DEF OnBundle, WriteSucceeds, StreamTypes
  <2>3. writing'[c] = <<>> \/ \E b : writing'[c] = <<b>>
    BY <1>1, <1>6 DEF OnBundle, WriteSucceeds, StreamTypes
  <2>4. Len(writing'[c]) <= 1
    <3>1. CASE writing'[c] = <<>>
      BY <3>1
    <3>2. ASSUME NEW b, writing'[c] = <<b>> PROVE Len(writing'[c]) <= 1
      <4>1. Len(<<b>>) = 1
        OBVIOUS
      <4> QED
        BY <3>2, <4>1
    <3> QED
      BY <2>3, <3>1, <3>2
  <2> QED
    BY <1>1, <2>1, <2>2, <2>4 DEF OtherTypes
<1>7. ASSUME NEW c \in Clients,
             Handshake(c) \/ RejectClient(c) \/ ReaderReturns(c) \/ OnHangup(c) \/ OnDone(c)
             \/ WriteFails(c) \/ RemoveClient(c) \/ CloseNext(c)
      PROVE  OtherTypes'
  <2>1. UNCHANGED <<disconnects, writing, closes>> /\ pendingBytes' \in {0, pendingBytes}
    BY <1>7 DEF Handshake, RejectClient, ReaderReturns, OnHangup, OnDone, WriteFails, RemoveClient,
                CloseNext, relayVars
  <2>2. hangup' \in [Clients -> BOOLEAN] /\ conn' \in [Clients -> {"none", "open", "closed"}]
    BY <1>1, <1>7 DEF Handshake, RejectClient, ReaderReturns, OnHangup, OnDone, WriteFails,
                      RemoveClient, CloseNext, OtherTypes
  <2>3. toClose' \subseteq toClose
    BY <1>7 DEF Handshake, RejectClient, ReaderReturns, OnHangup, OnDone, WriteFails, RemoveClient,
                CloseNext
  <2> QED
    BY <1>1, <2>1, <2>2, <2>3 DEF OtherTypes
<1> QED
  BY <1>3, <1>4, <1>5, <1>6, <1>7 DEF Next, Handler

\* A bundle is flushed before it gets too long, by its packets or by its bytes.
LEMMA PublishFits ==
  ASSUME RelayInv, LimitsInv, PublishPacket, StreamTypes', OtherTypes'
  PROVE  LimitsInv'
<1> DEFINE p == published + 1
           longer == Append(pending, p)
           size == Size[Feed[p]]
<1>1. p \in Packets /\ published \in Nat /\ pending \in Bundles /\ p # NoPacket
  BY RelayAssumption, LenProperties
  DEF RelayAssumption, PublishPacket, RelayInv, StreamTypes, Packets, NoPacket
<1>2. /\ size \in Nat \ {0} /\ HeaderBytes \in Nat /\ MaxBundleBytes \in Nat
      /\ HeaderBytes + size < MaxBundleBytes /\ MaxBundlePackets \in Nat
      /\ MaxBundlePackets >= 2 /\ QueueCapacity \in Nat
  BY <1>1, PacketSize, RelayAssumption DEF RelayAssumption
<1>3. /\ Len(pending) \in Nat /\ longer \in Bundles /\ longer # <<>>
      /\ Len(longer) = Len(pending) + 1 /\ EncodedBytes(longer) = EncodedBytes(pending) + size
      /\ EncodedBytes(pending) \in Int
  BY <1>1, AppendProperties, LenProperties, EncodedAppend DEF Bundles
<1>4. pending = <<>> => EncodedBytes(pending) = HeaderBytes /\ Len(pending) = 0
  BY EncodedEmpty
<1>5. <<p>> \in Bundles /\ Len(<<p>>) = 1 /\ EncodedBytes(<<p>>) = HeaderBytes + size
  <2> HIDE DEF p
  <2>1. <<p>> = Append(<<>>, p) /\ <<>> \in Bundles
    BY EmptySeq DEF Bundles
  <2>2. EncodedBytes(Append(<<>>, p)) = HeaderBytes + size
    BY <1>1, <2>1, EncodedEmpty, EncodedAppend
  <2> QED
    BY <1>1, <2>1, <2>2 DEF Bundles
<1>6. /\ Fits(<<p>>)
      /\ ~FlushBefore(p) => Fits(longer)
  <2>1. Fits(<<p>>)
    BY <1>2, <1>5 DEF Fits
  <2>2. ASSUME ~FlushBefore(p) PROVE Fits(longer)
    <3>1. CASE pending = <<>>
      BY <1>2, <1>3, <1>4, <3>1 DEF Fits
    <3>2. CASE pending # <<>>
      <4>1. pendingBytes = EncodedBytes(pending)
        BY <3>2 DEF LimitsInv
      <4>2. ~ Len(pending) >= MaxBundlePackets /\ ~ pendingBytes + size > MaxBundleBytes
        BY <2>2, <3>2 DEF FlushBefore
      <4> HIDE DEF longer, size
      <4> QED
        BY <1>2, <1>3, <4>1, <4>2 DEF Fits
    <3> QED
      BY <3>1, <3>2
  <2> QED
    BY <2>1, <2>2
<1> DEFINE bytes == (IF pending = <<>> THEN HeaderBytes ELSE pendingBytes) + size
<1>7. bytes = EncodedBytes(longer)
  BY <1>3, <1>4 DEF LimitsInv
<1>8. /\ UNCHANGED <<received, writing>>
      /\ lastContext' = IF Feed[p] = "context" THEN p ELSE lastContext
      /\ lastVersion' = IF Feed[p] = "version" THEN p ELSE lastVersion
      /\ \/ pending' = <<>> /\ UNCHANGED <<queue, clients>>
         \/ pending # <<>> /\ PublishBundle(pending) /\ pending' = <<p>> /\ pendingBytes' = HeaderBytes + size
         \/ ~FlushBefore(p) /\ PublishBundle(longer) /\ pending' = <<>>
         \/ /\ ~FlushBefore(p) /\ pending' = longer /\ pendingBytes' = bytes
            /\ UNCHANGED <<queue, clients>>
  BY DEF PublishPacket, CacheControl, FlushBefore, AppendPacket
<1> HIDE DEF p, longer, size, bytes
<1>9. pending' # <<>> => Fits(pending') /\ pendingBytes' = EncodedBytes(pending')
  BY <1>5, <1>6, <1>7, <1>8
<1>10. \/ UNCHANGED <<queue, clients>>
       \/ \E b \in Bundles : PublishBundle(b) /\ (b # <<>> => Fits(b))
  BY <1>1, <1>3, <1>6, <1>8 DEF LimitsInv
<1>11. /\ \A c \in Clients : /\ \A i \in 1 .. Len(Sent(c)') : Fits(Sent(c)'[i])
                             /\ Len(queue'[c]) <= QueueCapacity
       /\ ClientLimit'
  <2>1. CASE UNCHANGED <<queue, clients>>
    BY <1>8, <2>1 DEF LimitsInv, TypeOK, Sent, ClientLimit
  <2>2. ASSUME NEW b \in Bundles, PublishBundle(b), b # <<>> => Fits(b)
        PROVE  /\ \A c \in Clients : /\ \A i \in 1 .. Len(Sent(c)') : Fits(Sent(c)'[i])
                                     /\ Len(queue'[c]) <= QueueCapacity
               /\ ClientLimit'
    <3>1. queue' = Offered(b) /\ clients' = clients \ Overrun(b)
      BY <2>2 DEF PublishBundle
    <3>2. ClientLimit'
      <4>1. Cardinality(clients') <= Cardinality(clients) /\ Cardinality(clients) \in Nat
        BY <3>1, Counted DEF LimitsInv, TypeOK
      <4>2. Cardinality(clients') \in Nat /\ MaxClients \in Nat
        BY <3>1, Counted, FS_CardinalityType, RelayAssumption
        DEF RelayAssumption, LimitsInv, TypeOK
      <4> QED
        BY <4>1, <4>2 DEF LimitsInv, ClientLimit
    <3>3. ASSUME NEW c \in Clients
          PROVE  /\ \A i \in 1 .. Len(Sent(c)') : Fits(Sent(c)'[i])
                 /\ Len(queue'[c]) <= QueueCapacity
      BY <1>8, <2>2, <3>1, OfferFits DEF RelayInv, LimitsInv
    <3> QED
      BY <3>2, <3>3
  <2> QED
    BY <1>10, <2>1, <2>2
<1>12. TypeOK'
  <2>1. \A c \in Clients : Len(queue'[c]) <= QueueCapacity
    BY <1>11
  <2> QED
    BY <2>1, TypeNext
<1> QED
  BY <1>8, <1>9, <1>11, <1>12 DEF LimitsInv, Fits

LEMMA AddFits ==
  ASSUME RelayInv, LimitsInv, NEW c \in Clients, AddClient(c), StreamTypes', OtherTypes'
  PROVE  LimitsInv'
<1> DEFINE preamble == Preamble(lastContext, lastVersion)
           first == IF preamble = <<>> THEN <<>> ELSE <<preamble>>
<1>1. /\ UNCHANGED <<lastContext, lastVersion, writing, received>>
      /\ pc[c] = "upgraded" /\ Cardinality(clients) < MaxClients
      /\ clients' = (clients \ Overrun(pending)) \union {c} /\ pending' = <<>>
      /\ queue' = [Offered(pending) EXCEPT ![c] = first]
  BY DEF AddClient
<1>2. StreamTypes /\ TypeOK /\ pending \in Bundles /\ (pending # <<>> => Fits(pending))
  BY DEF RelayInv, StreamTypes, LimitsInv
<1>3. preamble # <<>> => Fits(preamble)
  BY PreambleFits DEF LimitsInv, TypeOK
<1>4. ClientLimit'
  <2>1. /\ IsFiniteSet(clients \ Overrun(pending)) /\ Cardinality(clients) \in Nat
        /\ Cardinality(clients \ Overrun(pending)) <= Cardinality(clients)
    BY Counted DEF LimitsInv, TypeOK
  <2>2. /\ Cardinality(clients') <= Cardinality(clients \ Overrun(pending)) + 1
        /\ Cardinality(clients') \in Nat /\ Cardinality(clients \ Overrun(pending)) \in Nat
    <3> DEFINE rest == clients \ Overrun(pending)
    <3>1. IsFiniteSet(rest) /\ clients' = rest \union {c}
      BY <1>1, <2>1
    <3> HIDE DEF rest
    <3>2. IsFiniteSet(rest \union {c}) /\ Cardinality(rest) \in Nat
          /\ Cardinality(rest \union {c}) = IF c \in rest THEN Cardinality(rest) ELSE Cardinality(rest) + 1
      BY <3>1, FS_AddElement, FS_CardinalityType
    <3> QED
      BY <3>1, <3>2 DEF rest
  <2> QED
    BY <1>1, <2>1, <2>2, RelayAssumption DEF RelayAssumption, ClientLimit
<1>5. ASSUME NEW d \in Clients
      PROVE  /\ \A i \in 1 .. Len(Sent(d)') : Fits(Sent(d)'[i])
             /\ Len(queue'[d]) <= QueueCapacity
  <2>1. CASE d = c
    <3>1. received'[c] = <<>> /\ writing'[c] = <<>> /\ queue'[c] = first
      BY <1>1 DEF RelayInv, Told, Offered
    <3>2. Sent(c)' = first
      <4>1. Sent(c)' = <<>> \o <<>> \o first
        BY <3>1 DEF Sent
      <4> QED
        BY <4>1
    <3>3. Len(first) <= 1 /\ \A i \in 1 .. Len(first) : first[i] = preamble /\ preamble # <<>>
      OBVIOUS
    <3>4. QueueCapacity \in Nat /\ QueueCapacity >= 1 /\ Len(first) \in Nat
      BY RelayAssumption DEF RelayAssumption
    <3> HIDE DEF first, preamble
    <3>5. Len(queue'[c]) <= QueueCapacity
      BY <3>1, <3>3, <3>4
    <3> QED
      BY <1>3, <2>1, <3>2, <3>3, <3>5
  <2>2. CASE d # c
    <3>1. queue'[d] = Offered(pending)[d] /\ received'[d] = received[d] /\ writing'[d] = writing[d]
      BY <1>1, <2>2 DEF Offered
    <3> QED
      BY <1>2, <3>1, OfferFits DEF LimitsInv
  <2> QED
    BY <2>1, <2>2
<1>6. TypeOK'
  BY <1>5, TypeNext
<1> QED
  BY <1>1, <1>4, <1>5, <1>6 DEF LimitsInv, Fits

LEMMA LimitsStep == RelayInv /\ LimitsInv /\ [Next]_vars => LimitsInv'
<1> SUFFICES ASSUME RelayInv, LimitsInv, [Next]_vars PROVE LimitsInv'
  OBVIOUS
<1>1. StreamTypes'
  BY RelayStep DEF RelayInv
<1>2. CASE UNCHANGED vars
  BY <1>2 DEF vars, relayVars, clientVars, LimitsInv, TypeOK, ClientLimit, Sent, Fits
<1>3. ASSUME Next PROVE OtherTypes'
  BY <1>3, OtherTypesStep DEF LimitsInv
<1>4. CASE PublishPacket
  BY <1>1, <1>3, <1>4, PublishFits DEF Next
<1>5. ASSUME NEW c \in Clients, AddClient(c) PROVE LimitsInv'
  BY <1>1, <1>3, <1>5, AddFits DEF Next, Handler
<1>6. CASE CloseAll
  <2>1. /\ UNCHANGED <<queue, received, writing>> /\ clients' = {} /\ pending' = <<>>
        /\ lastContext' = NoPacket /\ lastVersion' = NoPacket
    BY <1>6 DEF CloseAll
  <2>2. TypeOK'
    BY <1>1, <1>3, <1>6, <2>1, TypeNext DEF Next, LimitsInv, TypeOK
  <2>3. ClientLimit'
    BY <2>1, FS_EmptySet, RelayAssumption DEF RelayAssumption, ClientLimit
  <2> QED
    BY <2>1, <2>2, <2>3 DEF LimitsInv, Sent, Fits
<1>7. ASSUME NEW c \in Clients, OnBundle(c) \/ WriteSucceeds(c) PROVE LimitsInv'
  <2>1. /\ UNCHANGED <<clients, pending, pendingBytes, lastContext, lastVersion>>
        /\ \A d \in Clients : Sent(d)' = Sent(d)
    BY <1>7, BundleMoves DEF OnBundle, WriteSucceeds, relayVars
  <2>2. \A d \in Clients : Len(queue'[d]) <= QueueCapacity
    <3>1. \A d \in Clients : queue'[d] = queue[d] \/ (queue[d] # <<>> /\ queue'[d] = Tail(queue[d]))
      <4>1. queue \in [Clients -> Seq(Bundles)]
        BY DEF RelayInv, StreamTypes
      <4>2. CASE OnBundle(c)
        BY <4>1, <4>2 DEF OnBundle
      <4>3. CASE WriteSucceeds(c)
        BY <4>3 DEF WriteSucceeds
      <4> QED
        BY <1>7, <4>2, <4>3
    <3>2. ASSUME NEW d \in Clients PROVE Len(queue'[d]) <= QueueCapacity
      <4>1. queue[d] \in Seq(Bundles) /\ Len(queue[d]) <= QueueCapacity /\ QueueCapacity \in Nat
        BY RelayAssumption DEF RelayAssumption, RelayInv, StreamTypes, LimitsInv, TypeOK
      <4>2. queue[d] # <<>> => Len(Tail(queue[d])) = Len(queue[d]) - 1
        BY <4>1, HeadTailProperties
      <4>3. Len(queue[d]) \in Nat
        BY <4>1, LenProperties
      <4>4. CASE queue'[d] = queue[d]
        BY <4>1, <4>4
      <4>5. CASE queue[d] # <<>> /\ queue'[d] = Tail(queue[d])
        <5>1. Len(queue'[d]) = Len(queue[d]) - 1
          BY <4>2, <4>5
        <5> QED
          BY <4>1, <4>3, <5>1
      <4> QED
        BY <3>1, <4>4, <4>5
    <3> QED
      BY <3>2
  <2>3. TypeOK'
    BY <1>1, <1>3, <1>7, <2>2, TypeNext DEF Next, Handler
  <2> QED
    BY <2>1, <2>3, LimitsKept
<1>8. ASSUME NEW c \in Clients,
             Handshake(c) \/ RejectClient(c) \/ ReaderReturns(c) \/ OnHangup(c) \/ OnDone(c)
             \/ WriteFails(c) \/ RemoveClient(c) \/ CloseNext(c)
      PROVE  LimitsInv'
  <2>1. /\ UNCHANGED <<queue, received, writing, lastContext, lastVersion>>
        /\ clients' \subseteq clients
        /\ UNCHANGED <<pending, pendingBytes>> \/ pending' = <<>>
    BY <1>8, ZenonT(60) DEF Handshake, RejectClient, ReaderReturns, OnHangup, OnDone, WriteFails,
                RemoveClient, CloseNext, relayVars
  <2>2. TypeOK'
    BY <1>1, <1>3, <1>8, <2>1, TypeNext DEF Next, Handler, LimitsInv, TypeOK
  <2> QED
    BY <2>1, <2>2, LimitsKept DEF Sent
<1> QED
  BY <1>2, <1>4, <1>5, <1>6, <1>7, <1>8 DEF Next, Handler

\* Every bundle a client is sent, its opening included, stays within the receiver's limits on
\* packets and bytes, and no more clients are registered than there are slots, for every feed
\* and whatever handshakes overlap.
THEOREM RelayKeepsItsLimits == SafetySpec => []LimitsHold
<1>1. LimitsInv => LimitsHold
  BY DEF LimitsInv, LimitsHold, BundlesFit, Fits
<1> QED
  BY <1>1, RelayInit, RelayStep, LimitsInit, LimitsStep, PTL DEF SafetySpec

-----------------------------------------------------------------------------
(* The transport contract.                                                 *)

Served(c) == c \in clients \/ done[c]

\* Who never got in was sent nothing; who did was sent nothing that is not published.
HeardInv ==
  \A c \in Clients :
    IF Served(c) THEN ReachOf(c) <= published
    ELSE received[c] = <<>> /\ joined[c] = [at |-> 0, cleared |-> 0]

\* Nothing happens to a connection that is not registered after the step.
LEMMA Outside ==
  ASSUME RelayInv, [Next]_vars, NEW c \in Clients, c \notin clients'
  PROVE  /\ done'[c] <=> Served(c)
         /\ joined'[c] = joined[c] /\ Sent(c)' = Sent(c)
         /\ ~done'[c] => received'[c] = received[c]
<1>1. /\ done \in [Clients -> BOOLEAN] /\ joined \in [Clients -> [at : 0 .. Len(Feed), cleared : 0 .. Len(Feed)]]
      /\ queue \in [Clients -> Seq(Bundles)] /\ clients \in SUBSET Clients
      /\ pc[c] \in Serving => Served(c)
  BY DEF RelayInv, StreamTypes, Told, Served
<1>2. CASE PublishPacket
  <2>1. /\ UNCHANGED <<received, writing, joined>>
        /\ \/ UNCHANGED <<queue, clients, done>>
           \/ \E b : PublishBundle(b)
    BY <1>2 DEF PublishPacket, AppendPacket
  <2>2. ASSUME NEW b, PublishBundle(b)
        PROVE  (done'[c] <=> Served(c)) /\ queue'[c] = queue[c]
    BY <1>1, <2>2 DEF PublishBundle, Evict, Offered, Overrun, Served
  <2>3. ASSUME UNCHANGED <<queue, clients, done>>
        PROVE  (done'[c] <=> Served(c)) /\ queue'[c] = queue[c]
    BY <2>3 DEF Served
  <2> QED
    BY <2>1, <2>2, <2>3 DEF Sent
<1>3. CASE CloseAll
  BY <1>1, <1>3 DEF CloseAll, Served, Sent
<1>4. ASSUME NEW d \in Clients, AddClient(d)
      PROVE  /\ done'[c] <=> Served(c)
             /\ joined'[c] = joined[c] /\ Sent(c)' = Sent(c) /\ received'[c] = received[c]
  <2>1. c # d
    BY <1>4 DEF AddClient
  <2>2. /\ done'[c] <=> Served(c)
        /\ joined'[c] = joined[c] /\ queue'[c] = queue[c]
    BY <1>1, <1>4, <2>1 DEF AddClient, Evict, Offered, Overrun, Served
  <2> QED
    BY <1>4, <2>2 DEF AddClient, Sent
<1>5. ASSUME NEW d \in Clients, RemoveClient(d)
      PROVE  /\ done'[c] <=> Served(c)
             /\ joined'[c] = joined[c] /\ Sent(c)' = Sent(c) /\ received'[c] = received[c]
  <2>1. UNCHANGED <<joined, queue, received, writing>>
    BY <1>5 DEF RemoveClient
  <2>2. \/ d \notin clients /\ UNCHANGED <<clients, done>>
        \/ d \in clients /\ clients' = clients \ {d} /\ done' = [done EXCEPT ![d] = TRUE]
    BY <1>5, Zenon DEF RemoveClient
  <2>3. done'[c] <=> Served(c)
    BY <1>1, <2>2 DEF Served
  <2> QED
    BY <2>1, <2>3 DEF Sent
<1>6. ASSUME NEW d \in Clients, OnBundle(d) \/ WriteSucceeds(d)
      PROVE  /\ done'[c] <=> Served(c)
             /\ joined'[c] = joined[c] /\ Sent(c)' = Sent(c)
             /\ ~done'[c] => received'[c] = received[c]
  <2>1. /\ UNCHANGED <<clients, done>> /\ joined'[c] = joined[c] /\ Sent(c)' = Sent(c)
        /\ c # d => received'[c] = received[c]
    BY <1>6, BundleMoves
  <2>2. pc[d] \in Serving
    BY <1>6 DEF OnBundle, WriteSucceeds, Moves, Serving
  <2> QED
    BY <1>1, <2>1, <2>2 DEF Served
<1>7. ASSUME NEW d \in Clients,
             Handshake(d) \/ RejectClient(d) \/ ReaderReturns(d) \/ OnHangup(d) \/ OnDone(d)
             \/ WriteFails(d) \/ CloseNext(d)
      PROVE  UNCHANGED <<clients, done, joined, queue, received, writing>>
  BY <1>7 DEF Handshake, RejectClient, ReaderReturns, OnHangup, OnDone, WriteFails, CloseNext, relayVars
<1>8. ASSUME UNCHANGED <<clients, done, joined, queue, received, writing>>
      PROVE  /\ done'[c] <=> Served(c)
             /\ joined'[c] = joined[c] /\ Sent(c)' = Sent(c) /\ received'[c] = received[c]
  BY <1>8 DEF Served, Sent
<1>9. CASE UNCHANGED vars
  BY <1>8, <1>9 DEF vars, relayVars, clientVars
<1> QED
  BY <1>2, <1>3, <1>4, <1>5, <1>6, <1>7, <1>8, <1>9 DEF Next, Handler

LEMMA RegisteredReach == RelayInv => \A c \in Clients : c \in clients => ReachOf(c) <= published
<1> SUFFICES ASSUME RelayInv, NEW c \in Clients, c \in clients PROVE ReachOf(c) <= published
  OBVIOUS
<1>1. Stream(c) /\ Current(c) /\ Sent(c) \in Seq(Bundles) /\ joined[c].at \in Nat
  BY SentTypes DEF RelayInv, Streams
<1>2. ReachOf(c) \in Int
  BY <1>1, ChainedReach DEF Stream, ReachOf
<1>3. Len(pending) \in Nat /\ ReachOf(c) + Len(pending) = published
  BY <1>1, LenProperties DEF RelayInv, StreamTypes, Bundles, Current, UpTo, ReachOf
<1> QED
  BY <1>2, <1>3

LEMMA HeardInit == Init => HeardInv
BY DEF Init, HeardInv, Served

LEMMA HeardStep == RelayInv /\ HeardInv /\ [Next]_vars => HeardInv'
<1> SUFFICES ASSUME RelayInv, HeardInv, [Next]_vars PROVE HeardInv'
  OBVIOUS
<1>1. RelayInv'
  BY RelayStep
<1>2. published \in Nat /\ published' \in Nat /\ published <= published'
  <2>1. published \in Nat
    BY LenProperties, RelayAssumption DEF RelayAssumption, RelayInv, StreamTypes
  <2>2. published' = published \/ published' = published + 1
    BY DEF Next, Handler, PublishPacket, CloseAll, Handshake, AddClient, RejectClient, OnHangup, OnDone,
           OnBundle, WriteSucceeds, WriteFails, RemoveClient, ReaderReturns, CloseNext, vars
  <2> QED
    BY <2>1, <2>2
<1>3. (\A c \in Clients : c \in clients => ReachOf(c) <= published)'
  BY <1>1, RegisteredReach, PTL
<1>4. ASSUME NEW c \in Clients, c \notin clients', done'[c] PROVE ReachOf(c)' <= published'
  <2>1. Served(c) /\ joined'[c] = joined[c] /\ Sent(c)' = Sent(c)
    BY <1>4, Outside
  <2>2. ReachOf(c)' = ReachOf(c)
    BY <2>1 DEF ReachOf, Opening
  <2>3. ReachOf(c) <= published /\ ReachOf(c) \in Int
    <3>1. Stream(c) /\ Sent(c) \in Seq(Bundles) /\ joined[c].at \in Nat
      BY <2>1, SentTypes DEF RelayInv, Streams, Served
    <3>2. ReachOf(c) \in Int
      BY <3>1, ChainedReach DEF Stream, ReachOf
    <3> QED
      BY <2>1, <3>2 DEF HeardInv
  <2> QED
    BY <1>2, <2>2, <2>3
<1>5. ASSUME NEW c \in Clients, c \notin clients', ~done'[c]
      PROVE  received'[c] = <<>> /\ joined'[c] = [at |-> 0, cleared |-> 0]
  BY <1>5, Outside DEF HeardInv
<1> QED
  BY <1>3, <1>4, <1>5 DEF HeardInv, Served

LEMMA StartOfAll ==
  ASSUME NEW r, r \in Seq(Bundles), NEW w, w \in Seq(Bundles), NEW q, q \in Seq(Bundles)
  PROVE  StartOf(r, r \o w \o q)
<1>1. /\ Len(r) \in Nat /\ Len(w) \in Nat /\ Len(q) \in Nat
      /\ r \o w \in Seq(Bundles) /\ Len(r \o w) = Len(r) + Len(w)
      /\ \A i \in 1 .. Len(r) : (r \o w)[i] = r[i]
  BY ConcatProperties, LenProperties
<1>2. /\ Len(r \o w \o q) = Len(r \o w) + Len(q)
      /\ \A i \in 1 .. Len(r \o w) : (r \o w \o q)[i] = (r \o w)[i]
  BY <1>1, ConcatProperties
<1> QED
  BY <1>1, <1>2 DEF StartOf

ContractInv == RelayInv /\ LimitsInv /\ HeardInv

\* What a connection heard are the packets after its registration, in order.
HearsInOrder(c) ==
  LET op == Opening(c)
      at == joined[c].at
      r  == received[c]
  IN IF Len(r) >= OpenLen(op)
     THEN /\ Chained(op, at, r)
          /\ Reach(op, at, r) \in at .. published
          /\ HeardOf(c) = InOrder(at, Reach(op, at, r))
     ELSE r = <<>> /\ HeardOf(c) = <<>>

LEMMA HeardIs == ContractInv => \A d \in Clients : Served(d) => HearsInOrder(d)
<1> SUFFICES ASSUME ContractInv, NEW c \in Clients, Served(c) PROVE HearsInOrder(c)
  OBVIOUS
<1> DEFINE op == Opening(c)
           at == joined[c].at
           r == received[c]
           s == Sent(c)
<1>1. /\ s \in Seq(Bundles) /\ at \in Nat /\ r \in Seq(Bundles) /\ Chained(op, at, s)
      /\ writing[c] \in Seq(Bundles) /\ queue[c] \in Seq(Bundles)
  BY SentTypes DEF ContractInv, RelayInv, Streams, Stream, Served
<1>2. OpenLen(op) = OpeningLen(c) /\ OpenLen(op) \in {0, 1} /\ Len(r) \in Nat
  BY <1>1, LenProperties DEF OpenLen, OpeningLen
<1>3. HeardOf(c) = FlattenSeq(SubSeq(r, OpenLen(op) + 1, Len(r)))
  BY <1>2 DEF HeardOf
<1>4. StartOf(r, s)
  <2>1. PICK w, q : w = writing[c] /\ q = queue[c]
    OBVIOUS
  <2>2. s = r \o w \o q /\ w \in Seq(Bundles) /\ q \in Seq(Bundles)
    BY <1>1, <2>1 DEF Sent
  <2> HIDE DEF r, s
  <2> QED
    BY <1>1, <2>2, StartOfAll
<1>5. ReachOf(c) <= published /\ ReachOf(c) = Reach(op, at, s)
  BY DEF ContractInv, HeardInv, ReachOf
<1> HIDE DEF op, at, r, s
<1>6. ASSUME Len(r) >= OpenLen(op)
      PROVE  /\ Chained(op, at, r)
             /\ Reach(op, at, r) \in at .. published
             /\ HeardOf(c) = InOrder(at, Reach(op, at, r))
  <2>1. Chained(op, at, r)
    BY <1>1, <1>4, <1>6, ChainedPrefix
  <2>2. /\ Reach(op, at, r) \in Nat /\ Reach(op, at, r) >= at
        /\ HeardOf(c) = InOrder(at, Reach(op, at, r))
    BY <1>1, <1>3, <2>1, HeardChained
  <2>3. Reach(op, at, r) <= Reach(op, at, s) /\ Reach(op, at, s) \in Nat
    BY <1>1, <1>4, <1>6, HeardChained, ReachGrows
  <2>4. published \in Nat
    BY LenProperties, RelayAssumption DEF RelayAssumption, ContractInv, RelayInv, StreamTypes
  <2> QED
    BY <1>1, <1>5, <2>1, <2>2, <2>3, <2>4
<1>7. ASSUME ~ Len(r) >= OpenLen(op) PROVE r = <<>> /\ HeardOf(c) = <<>>
  <2>1. Len(r) = 0 /\ OpenLen(op) = 1
    BY <1>2, <1>7
  <2>2. r = <<>>
    BY <1>1, <2>1, EmptySeq
  <2>3. SubSeq(r, OpenLen(op) + 1, Len(r)) = <<>>
    BY <2>1, SubSeqEmpty
  <2> QED
    BY <1>3, <2>2, <2>3, EmptySeq, FlattenAppend
<1> QED
  BY <1>6, <1>7 DEF HearsInOrder, op, at, r, s

\* What was heard stays what it was when nothing is received; a newcomer heard nothing.
LEMMA HeardKept ==
  ASSUME NEW c \in Clients, received'[c] = received[c],
         joined'[c] = joined[c] \/ received[c] = <<>>
  PROVE  HeardOf(c)' = HeardOf(c)
<1>1. CASE joined'[c] = joined[c]
  BY <1>1 DEF HeardOf, OpeningLen, Opening
<1>2. CASE received[c] = <<>>
  <2>1. \A n \in {1, 2} : SubSeq(<<>>, n, Len(<<>>)) = <<>>
    BY EmptySeq, SubSeqEmpty
  <2>2. OpeningLen(c) + 1 \in {1, 2} /\ OpeningLen(c)' + 1 \in {1, 2}
    BY DEF OpeningLen
  <2> QED
    BY <1>2, <2>1, <2>2 DEF HeardOf
<1> QED
  BY <1>1, <1>2

\* The contract's variables.
Status == [c \in Clients |-> StatusOf(c)]
From == [c \in Clients |-> joined[c].at]
Heard == [c \in Clients |-> HeardOf(c)]

LEMMA StatusTypes == \A c \in Clients : StatusOf(c) \in {"out", "live", "cut"}
BY DEF StatusOf

\* Clients can only be lost by a step that lets nobody in.
LEMMA LosingStep ==
  ASSUME ContractInv, NEW R \in SUBSET Clients, clients' \subseteq clients,
         \A c \in Clients : pc'[c] \in {"idle", "upgraded"} <=> pc[c] \in {"idle", "upgraded"}
  PROVE  /\ Status' \in [Clients -> {"out", "live", "cut"}]
         /\ \A c \in R : Status'[c] = Status[c] \/ (Status[c] = "live" /\ Status'[c] = "cut")
<1>1. \A c \in Clients : c \in clients => pc[c] \notin {"idle", "upgraded"}
  BY DEF ContractInv, RelayInv, Told, Serving
<1> QED
  BY <1>1 DEF Status, StatusOf

\* A step in which nobody hears anything, gets in or is refused.
LEMMA CutStep ==
  ASSUME ContractInv, clients' \subseteq clients, UNCHANGED <<published, received, joined>>,
         \A c \in Clients : pc'[c] \in {"idle", "upgraded"} <=> pc[c] \in {"idle", "upgraded"}
  PROVE  Contract!Next
<1>1. Heard' = Heard /\ From' = From
  BY HeardKept DEF Heard, From
<1>2. /\ Status' \in [Clients -> {"out", "live", "cut"}]
      /\ \A c \in Clients : Status'[c] = Status[c] \/ (Status[c] = "live" /\ Status'[c] = "cut")
  BY LosingStep
<1>3. Contract!Cut
  BY <1>1, <1>2 DEF Contract!Cut, Contract!Losing, Heard, From, Status
<1> QED
  BY <1>3 DEF Contract!Next

LEMMA ContractPublish ==
  ASSUME ContractInv, PublishPacket
  PROVE  Contract!Next
<1>1. /\ published < Len(Feed) /\ published' = published + 1 /\ clients' \subseteq clients
      /\ UNCHANGED <<pc, received, joined>>
  BY DEF PublishPacket, PublishBundle, AppendPacket
<1>2. Heard' = Heard /\ From' = From
  BY <1>1, HeardKept DEF Heard, From
<1>3. /\ Status' \in [Clients -> {"out", "live", "cut"}]
      /\ \A c \in Clients : Status'[c] = Status[c] \/ (Status[c] = "live" /\ Status'[c] = "cut")
  BY <1>1, LosingStep
<1>4. Contract!Publish
  BY <1>1, <1>2, <1>3 DEF Contract!Publish, Contract!Losing, Heard, From, Status
<1> QED
  BY <1>4 DEF Contract!Next

LEMMA ContractJoin ==
  ASSUME ContractInv, NEW c \in Clients, AddClient(c)
  PROVE  Contract!Next
<1>1. /\ UNCHANGED <<published, received>> /\ pc[c] = "upgraded" /\ pc' = [pc EXCEPT ![c] = "select"]
      /\ clients' = (clients \ Overrun(pending)) \union {c}
      /\ joined' = [joined EXCEPT ![c] = [at |-> published, cleared |-> clearedAt]]
  BY DEF AddClient
<1>2. /\ pc \in [Clients -> HandlerStates] /\ c \notin clients /\ received[c] = <<>>
      /\ joined \in [Clients -> [at : 0 .. Len(Feed), cleared : 0 .. Len(Feed)]]
      /\ \A d \in Clients : d \in clients => pc[d] \notin {"idle", "upgraded"}
  BY <1>1 DEF ContractInv, RelayInv, StreamTypes, Told, Serving
<1>3. Heard' = Heard
  <2>1. \A d \in Clients : joined'[d] = joined[d] \/ received[d] = <<>>
    BY <1>1, <1>2
  <2> QED
    BY <1>1, <2>1, HeardKept DEF Heard
<1>4. From' = [From EXCEPT ![c] = published]
  BY <1>1, <1>2 DEF From
<1>5. /\ Status[c] = "out" /\ Status'[c] = "live"
      /\ Status' \in [Clients -> {"out", "live", "cut"}]
      /\ \A d \in Clients \ {c} :
           Status'[d] = Status[d] \/ (Status[d] = "live" /\ Status'[d] = "cut")
  BY <1>1, <1>2 DEF Status, StatusOf
<1>6. Contract!Join(c)
  BY <1>1, <1>3, <1>4, <1>5 DEF Contract!Join, Contract!Losing, Heard, From, Status
<1> QED
  BY <1>6 DEF Contract!Next

\* The handshake refuses, or the check at the registration does.
LEMMA ContractRefuse ==
  ASSUME ContractInv, NEW c \in Clients, Handshake(c) \/ RejectClient(c)
  PROVE  Contract!Next
<1>1. /\ UNCHANGED <<published, received, joined, clients>> /\ pc[c] \in {"idle", "upgraded"}
      /\ \/ pc' = [pc EXCEPT ![c] = "gone"]
         \/ pc[c] = "idle" /\ pc' = [pc EXCEPT ![c] = "upgraded"]
  BY DEF Handshake, RejectClient, relayVars
<1>2. pc \in [Clients -> HandlerStates] /\ c \notin clients
  BY <1>1 DEF ContractInv, RelayInv, StreamTypes, Told, Serving
<1>3. Heard' = Heard /\ From' = From
  BY <1>1, HeardKept DEF Heard, From
<1>4. CASE pc' = [pc EXCEPT ![c] = "gone"]
  <2>1. Status[c] = "out" /\ Status' = [Status EXCEPT ![c] = "cut"]
    BY <1>1, <1>2, <1>4 DEF Status, StatusOf
  <2>2. Contract!Refuse(c)
    BY <1>1, <1>3, <2>1 DEF Contract!Refuse, Heard, From, Status
  <2> QED
    BY <2>2 DEF Contract!Next
<1>5. CASE pc[c] = "idle" /\ pc' = [pc EXCEPT ![c] = "upgraded"]
  BY <1>1, <1>2, <1>5, CutStep
<1> QED
  BY <1>1, <1>4, <1>5

LEMMA HeardIsNext == ContractInv' => (\A d \in Clients : Served(d) => HearsInOrder(d))'
BY HeardIs, PTL

\* A bundle reaches the peer: the opening, which the contract does not count, or more of the stream.
LEMMA ContractHear ==
  ASSUME ContractInv, NEW c \in Clients, WriteSucceeds(c)
  PROVE  Contract!Next
<1> DEFINE op == Opening(c)
           at == joined[c].at
           r == received[c]
<1>1. /\ UNCHANGED <<published, clients, joined, done, queue>>
      /\ pc[c] = "writing" /\ pc' = [pc EXCEPT ![c] = "select"]
      /\ received' = [received EXCEPT ![c] = r \o writing[c]]
      /\ writing' = [writing EXCEPT ![c] = <<>>]
  BY DEF WriteSucceeds, Moves, relayVars
<1>2. /\ pc \in [Clients -> HandlerStates] /\ received \in [Clients -> Seq(Bundles)]
      /\ Served(c) /\ writing[c] \in Seq(Bundles) /\ Len(writing[c]) <= 1 /\ r \in Seq(Bundles)
  BY <1>1 DEF ContractInv, RelayInv, StreamTypes, Told, Serving, Served, LimitsInv, TypeOK
<1>3. HearsInOrder(c) /\ at \in Nat
  BY <1>2, HeardIs DEF ContractInv, RelayInv, StreamTypes
<1>4. ContractInv'
  BY RelayStep, LimitsStep, HeardStep DEF Next, Handler, ContractInv
<1>5. received'[c] = r \o writing[c] /\ joined'[c] = joined[c] /\ Opening(c)' = op
  BY <1>1, <1>2 DEF Opening
<1>6. Served(c)'
  BY <1>1, <1>2 DEF Served
<1>7. HearsInOrder(c)'
  <2>1. (\A d \in Clients : Served(d) => HearsInOrder(d))'
    BY <1>4, HeardIsNext
  <2> QED
    BY <1>6, <2>1
<1>8. \A d \in Clients \ {c} : HeardOf(d)' = HeardOf(d)
  BY <1>1, <1>2, HeardKept
<1>9. From' = From /\ Status' = Status /\ Status[c] # "out"
  BY <1>1, <1>2 DEF From, Status, StatusOf, Served
<1>10. CASE HeardOf(c)' = HeardOf(c)
  <2>1. \A d \in Clients : pc'[d] \in {"idle", "upgraded"} <=> pc[d] \in {"idle", "upgraded"}
    BY <1>1, <1>2
  <2>2. Heard' = Heard
    BY <1>8, <1>10 DEF Heard
  <2>3. /\ Status' \in [Clients -> {"out", "live", "cut"}]
        /\ \A d \in Clients : Status'[d] = Status[d] \/ (Status[d] = "live" /\ Status'[d] = "cut")
    BY <1>1, <2>1, LosingStep
  <2>4. Contract!Cut
    BY <1>1, <1>9, <2>2, <2>3 DEF Contract!Cut, Contract!Losing, Heard, From, Status
  <2> QED
    BY <2>4 DEF Contract!Next
<1>11. ASSUME NEW b, writing[c] = <<b>>, Len(r) < OpenLen(op)
       PROVE  HeardOf(c)' = HeardOf(c)
  <2>1. r = <<>> /\ HeardOf(c) = <<>> /\ OpenLen(op) = 1
    <3>1. OpenLen(op) \in {0, 1} /\ Len(r) \in Nat
      BY <1>2, LenProperties DEF OpenLen
    <3> QED
      BY <1>3, <1>11, <3>1 DEF HearsInOrder
  <2>2. received'[c] = <<b>>
    BY <1>5, <1>11, <2>1
  <2>3. Len(<<b>>) = 1 /\ Reach(op, at, <<b>>) = at
    BY <2>1 DEF Reach, Prior
  <2>4. HeardOf(c)' = InOrder(at, at)
    BY <1>5, <1>7, <2>1, <2>2, <2>3 DEF HearsInOrder
  <2>5. InOrder(at, at) = <<>>
    BY <1>3 DEF InOrder
  <2> QED
    BY <2>1, <2>4, <2>5
<1>12. ASSUME NEW b, writing[c] = <<b>>, Len(r) >= OpenLen(op)
       PROVE  Contract!Next
  <2> DEFINE m == Reach(op, at, r)
             n == Reach(op, at, Append(r, b))
  <2>1. b \in Bundles
    <3>1. Len(<<b>>) = 1 /\ <<b>>[1] = b
      OBVIOUS
    <3>2. <<b>>[1] \in Bundles
      BY <1>2, <1>12, <3>1, ElementOfSeq
    <3> QED
      BY <3>1, <3>2
  <2>2. received'[c] = Append(r, b)
    <3>1. r \o <<b>> = Append(r, b)
      BY <1>2, <2>1, AppendIsConcat
    <3> QED
      BY <1>5, <1>12, <3>1
  <2>3. /\ Append(r, b) \in Seq(Bundles) /\ Len(Append(r, b)) = Len(r) + 1 /\ Len(r) \in Nat
        /\ Append(r, b)[Len(r) + 1] = b /\ StartOf(r, Append(r, b)) /\ OpenLen(op) \in {0, 1}
    BY <1>2, <2>1, AppendProperties, LenProperties DEF StartOf, OpenLen
  <2>4. /\ Chained(op, at, r) /\ m \in at .. published /\ HeardOf(c) = InOrder(at, m)
    BY <1>3, <1>12 DEF HearsInOrder
  <2>5. /\ Chained(op, at, Append(r, b)) /\ n \in at .. published
        /\ HeardOf(c)' = InOrder(at, n)
    <3>1. Len(Append(r, b)) >= OpenLen(op)
      BY <1>12, <2>3
    <3> QED
      BY <1>1, <1>5, <1>7, <2>2, <3>1 DEF HearsInOrder
  <2>6. b # <<>> /\ ContinuesFrom(b, m)
    <3>1. Len(r) < Len(Append(r, b))
      BY <2>3
    <3> QED
      BY <1>2, <1>3, <1>12, <2>3, <2>5, <3>1, ChainedPrefix
  <2>7. n = m + Len(b) /\ Len(b) \in Nat \ {0}
    BY <1>2, <1>3, <2>1, <2>4, <2>6, ChainedAppend, EmptySeq, LenProperties DEF Bundles
  <2> HIDE DEF m, n
  <2>8. Len(InOrder(at, m)) = m - at /\ published \in Nat
    BY SMTT(30), <1>3, <2>4, LenProperties, RelayAssumption
    DEF InOrder, RelayAssumption, ContractInv, RelayInv, StreamTypes
  <2>9. n \in at + Len(HeardOf(c)) + 1 .. published
    BY <1>3, <2>4, <2>5, <2>7, <2>8
  <2>10. Heard' = [Heard EXCEPT ![c] = InOrder(From[c], n)] /\ From[c] = at
    BY <1>8, <2>5 DEF Heard, From
  <2>11. Contract!Hear(c)
    BY <1>1, <1>9, <2>9, <2>10 DEF Contract!Hear, Contract!InOrder, InOrder, Heard, From, Status
  <2> QED
    BY <2>11 DEF Contract!Next
<1>13. writing[c] = <<>> \/ \E b : writing[c] = <<b>>
  <2>1. CASE Len(writing[c]) = 0
    BY <1>2, <2>1, EmptySeq
  <2>2. CASE Len(writing[c]) = 1
    BY <1>2, <2>2
  <2>3. Len(writing[c]) \in Nat
    BY <1>2, LenProperties
  <2> QED
    BY <1>2, <2>1, <2>2, <2>3
<1>14. CASE writing[c] = <<>>
  <2>1. received'[c] = received[c]
    BY <1>2, <1>5, <1>14, ConcatEmptySeq
  <2> QED
    BY <1>5, <1>10, <2>1, HeardKept
<1> QED
  <2>1. Len(r) \in Nat /\ OpenLen(op) \in {0, 1}
    BY <1>2, LenProperties DEF OpenLen
  <2> QED
    BY <1>10, <1>11, <1>12, <1>13, <1>14, <2>1

LEMMA ContractStep == ContractInv /\ [Next]_vars => [Contract!Next]_(Contract!vars)
<1> SUFFICES ASSUME ContractInv, [Next]_vars PROVE [Contract!Next]_(Contract!vars)
  OBVIOUS
<1>1. CASE PublishPacket
  BY <1>1, ContractPublish
<1>2. CASE CloseAll
  <2>1. UNCHANGED <<published, received, joined, pc>> /\ clients' \subseteq clients
    BY <1>2 DEF CloseAll
  <2> QED
    BY <2>1, CutStep
<1>3. ASSUME NEW c \in Clients, AddClient(c) PROVE Contract!Next
  BY <1>3, ContractJoin
<1>4. ASSUME NEW c \in Clients, Handshake(c) \/ RejectClient(c) PROVE Contract!Next
  BY <1>4, ContractRefuse
<1>5. ASSUME NEW c \in Clients, WriteSucceeds(c) PROVE Contract!Next
  BY <1>5, ContractHear
<1>6. ASSUME NEW c \in Clients,
             ReaderReturns(c) \/ OnHangup(c) \/ OnDone(c) \/ OnBundle(c) \/ WriteFails(c)
             \/ RemoveClient(c) \/ CloseNext(c)
      PROVE  Contract!Next
  <2>1. UNCHANGED <<published, received, joined>> /\ clients' \subseteq clients
    BY <1>6, ZenonT(60) DEF ReaderReturns, OnHangup, OnDone, OnBundle, WriteFails, RemoveClient,
                            CloseNext, relayVars
  <2>2. \A d \in Clients : pc'[d] \in {"idle", "upgraded"} <=> pc[d] \in {"idle", "upgraded"}
    <3>1. pc \in [Clients -> HandlerStates]
      BY DEF ContractInv, RelayInv, StreamTypes
    <3>2. \/ pc' = pc
          \/ /\ pc[c] \in {"select", "writing", "leaving"}
             /\ \E to \in {"writing", "leaving", "gone"} : pc' = [pc EXCEPT ![c] = to]
      BY <1>6 DEF ReaderReturns, OnHangup, OnDone, OnBundle, WriteFails, RemoveClient, CloseNext, Moves
    <3> QED
      BY <3>1, <3>2
  <2> QED
    BY <2>1, <2>2, CutStep
<1>7. CASE UNCHANGED vars
  <2>1. UNCHANGED <<published, clients, pc, received, joined>>
    BY <1>7 DEF vars, relayVars, clientVars
  <2>2. Heard' = Heard /\ From' = From /\ Status' = Status
    BY <2>1, HeardKept DEF Heard, From, Status, StatusOf
  <2> QED
    BY <2>1, <2>2 DEF Contract!vars, Heard, From, Status
<1> QED
  BY <1>1, <1>2, <1>3, <1>4, <1>5, <1>6, <1>7 DEF Next, Handler

LEMMA ContractInit == Init => Contract!Init
<1> SUFFICES ASSUME Init PROVE Contract!Init
  OBVIOUS
<1>1. published = 0 /\ Status = [c \in Clients |-> "out"] /\ From = [c \in Clients |-> 0]
  BY DEF Init, Status, StatusOf, From
<1>2. Heard = [c \in Clients |-> <<>>]
  <2>1. ASSUME NEW c \in Clients PROVE HeardOf(c) = <<>>
    <3>1. received[c] = <<>> /\ OpeningLen(c) + 1 \in {1, 2}
      BY <2>1 DEF Init, OpeningLen
    <3>2. \A n \in {1, 2} : SubSeq(<<>>, n, Len(<<>>)) = <<>>
      BY EmptySeq, SubSeqEmpty
    <3>3. FlattenSeq(<<>>) = <<>>
      BY EmptySeq, FlattenAppend
    <3> QED
      BY <3>1, <3>2, <3>3 DEF HeardOf
  <2> QED
    BY <2>1 DEF Heard
<1> QED
  BY <1>1, <1>2 DEF Contract!Init, Heard, From, Status

\* The relay gives every receiver exactly what the transport contract promises: the packets
\* published from its registration on, in order and each once, until it is cut off; bundles,
\* queues, evictions, races with closeAll and the opening are all invisible to it.
THEOREM RelayImplementsContract == SafetySpec => ImplementsContract
<1>1. Init => ContractInv
  BY RelayInit, LimitsInit, HeardInit DEF ContractInv
<1>2. ContractInv /\ [Next]_vars => ContractInv'
  BY RelayStep, LimitsStep, HeardStep DEF ContractInv
<1> QED
  BY <1>1, <1>2, ContractInit, ContractStep, PTL DEF SafetySpec, ImplementsContract, Contract!Spec
=============================================================================
