---------------------------- MODULE CodecProofs ----------------------------
(***************************************************************************)
(* The codec of Wire, for every document and every sequence of bytes:      *)
(* decode_document reads what encode_document writes (DocumentRead), and   *)
(* whatever decode_document accepts is written and read again with the     *)
(* same meaning (BytesReread).  Both follow the decoder a byte at a time   *)
(* and the encoder a node at a time; the invariant of the first is that    *)
(* the nodes written so far have been read with the counters the document  *)
(* says (ReadUpto), that of the second that the nodes read so far can be   *)
(* written within the counters the decoder has left (Again, Understood).   *)
(***************************************************************************)
EXTENDS Wire, FiniteSetTheorems, WellFoundedInduction, TLAPS

\* The least-number principle, for a set: induction over Nat where a set says
\* what is proved, the only form the provers can instantiate.
LEMMA NatInd ==
  ASSUME NEW S, 0 \in S, \A n \in Nat : n \in S => n + 1 \in S
  PROVE  \A n \in Nat : n \in S
<1> DEFINE T == Nat \ S
<1>1. SUFFICES ASSUME T # {} PROVE FALSE
  OBVIOUS
<1>2. IsWellFoundedOn({ss \in Nat \X Nat : ss[1] < ss[2]}, Nat)
  BY NatLessThanWellFounded, Zenon DEF OpToRel
<1>3. PICK x \in T : \A y \in T : ~(<<y, x>> \in {ss \in Nat \X Nat : ss[1] < ss[2]})
  BY <1>1, <1>2, WFMin, Zenon
<1>4. \A y \in T : ~(y < x)
  BY <1>3
<1>5. x \in Nat /\ x # 0 /\ x - 1 \in Nat /\ x = (x - 1) + 1
  OBVIOUS
<1>6. x - 1 \in S
  BY <1>4, <1>5
<1> QED
  BY <1>5, <1>6

\* A chain of the states between the bytes bs.
ReadChain(t, bs, n) == t[0] = Reading /\ \A i \in 1..n : t[i] = Step(t[i - 1], bs[i])

\* Along follows such a chain.
LEMMA ReadAlong ==
  ASSUME NEW t, NEW bs, NEW n \in Nat, ReadChain(t, bs, n),
         NEW a \in Nat, NEW b \in Nat, a <= b, b <= n
  PROVE  Along(Step, t[a], bs, a, b) = t[b]
<1> DEFINE F(g) == g = [i \in a..b |-> IF i = a THEN t[a] ELSE Step(g[i - 1], bs[i])]
           g == CHOOSE h : F(h)
           w == [i \in a..b |-> t[i]]
<1>1. \A i \in a..b : w[i] = IF i = a THEN t[a] ELSE Step(w[i - 1], bs[i])
  BY DEF ReadChain
<1>2. F(w)
  BY <1>1
<1>3. F(g)
  <2> HIDE DEF F, w
  <2> QED
    BY <1>2
<1>4. \A i \in a..b : g[i] = IF i = a THEN t[a] ELSE Step(g[i - 1], bs[i])
  <2> HIDE DEF g
  <2> QED
    BY <1>3
<1> HIDE DEF F, g
<1> DEFINE S == {n_1 \in Nat : a + n_1 <= b => g[a + n_1] = t[a + n_1]}
<1>5. 0 \in S
  BY <1>4
<1>6. ASSUME NEW m \in Nat, m \in S PROVE m + 1 \in S
  <2> SUFFICES ASSUME a + (m + 1) <= b PROVE g[a + (m + 1)] = t[a + (m + 1)]
    OBVIOUS
  <2>1. g[a + m] = t[a + m]
    BY <1>6
  <2>2. g[a + (m + 1)] = Step(g[(a + (m + 1)) - 1], bs[a + (m + 1)])
    BY <1>4
  <2>3. t[a + (m + 1)] = Step(t[(a + (m + 1)) - 1], bs[a + (m + 1)])
    BY DEF ReadChain
  <2>4. (a + (m + 1)) - 1 = a + m
    OBVIOUS
  <2> QED
    BY <2>1, <2>2, <2>3, <2>4
<1>7. \A m \in Nat : m \in S
  <2> HIDE DEF S
  <2> QED
    BY <1>5, <1>6, NatInd
<1>8. g[b] = t[b]
  <2>1. b - a \in Nat /\ a + (b - a) = b
    OBVIOUS
  <2> QED
    BY <1>7, <2>1
<1>9. Along(Step, t[a], bs, a, b) = g[b]
  BY DEF Along, F, g
<1> QED
  BY <1>8, <1>9

\* Every sequence of bytes has one.
LEMMA ReadChainExists ==
  ASSUME NEW bs
  PROVE  \A n \in Nat : \E t : ReadChain(t, bs, n)
<1> DEFINE S == {n \in Nat : \E t : ReadChain(t, bs, n)}
<1>1. 0 \in S
  <2>1. ReadChain([i \in 0..0 |-> Reading], bs, 0)
    BY DEF ReadChain
  <2> QED
    BY <2>1
<1>2. ASSUME NEW n \in Nat, n \in S PROVE n + 1 \in S
  <2>1. PICK t : ReadChain(t, bs, n)
    BY <1>2
  <2> DEFINE h == [i \in 0..n + 1 |-> IF i = n + 1 THEN Step(t[n], bs[i]) ELSE t[i]]
  <2>2. ReadChain(h, bs, n + 1)
    BY <2>1 DEF ReadChain
  <2> HIDE DEF h
  <2> QED
    BY <2>2
<1> HIDE DEF S
<1>3. \A n \in Nat : n \in S
  BY <1>1, <1>2, NatInd
<1> QED
  BY <1>3 DEF S

\* Through, which goes by sixteen bytes, ends where the chain ends.
LEMMA ReadThrough ==
  ASSUME NEW S, NEW bs \in Seq(S), NEW t, ReadChain(t, bs, Len(bs))
  PROVE  Through(Step, Reading, bs) = t[Len(bs)]
<1> DEFINE L == Len(bs)
           K == L \div 16
           End16(k) == IF 16 * (k + 1) < L THEN 16 * (k + 1) ELSE L
           F(g) == g = [k \in 0..K |->
                     IF k = 0 THEN Along(Step, Reading, bs, 0, End16(k))
                     ELSE CHOOSE st \in {Along(Step, before, bs, 16 * k, End16(k)) : before \in {g[k - 1]}} : TRUE]
           g == CHOOSE h : F(h)
           w == [k \in 0..K |-> t[End16(k)]]
<1>1. L \in Nat /\ K \in Nat /\ 16 * K <= L /\ L < 16 * (K + 1)
  OBVIOUS
<1>2. ASSUME NEW k \in 0..K PROVE End16(k) \in Nat /\ End16(k) <= L /\ 16 * k <= End16(k) /\ (k # 0 => End16(k - 1) = 16 * k)
  BY <1>1
<1> HIDE DEF L, K, End16
<1>3. t[0] = Reading
  BY DEF ReadChain
<1>4. Along(Step, Reading, bs, 0, End16(0)) = t[End16(0)]
  BY <1>1, <1>2, <1>3, ReadAlong DEF L
<1>5. ASSUME NEW k \in 1..K PROVE Along(Step, t[End16(k - 1)], bs, 16 * k, End16(k)) = t[End16(k)]
  <2>1. k \in 0..K /\ k # 0 /\ 16 * k \in Nat
    BY <1>1
  <2>2. End16(k) \in Nat /\ End16(k) <= L /\ 16 * k <= End16(k) /\ End16(k - 1) = 16 * k
    BY <1>2, <2>1
  <2>3. Along(Step, t[16 * k], bs, 16 * k, End16(k)) = t[End16(k)]
    BY <1>1, <2>1, <2>2, ReadAlong DEF L
  <2> QED
    BY <2>2, <2>3
<1>6. \A x, y : (CHOOSE st \in {Along(Step, before, bs, 16 * y, End16(y)) : before \in {x}} : TRUE) = Along(Step, x, bs, 16 * y, End16(y))
  OBVIOUS
<1>7. F(w)
  <2>1. ASSUME NEW k \in 0..K
        PROVE  w[k] = IF k = 0 THEN Along(Step, Reading, bs, 0, End16(k))
                      ELSE CHOOSE st \in {Along(Step, before, bs, 16 * k, End16(k)) : before \in {w[k - 1]}} : TRUE
    <3>1. CASE k = 0
      BY <1>4, <3>1
    <3>2. CASE k # 0
      <4>1. k \in 1..K /\ k - 1 \in 0..K
        BY <1>1, <3>2
      <4>2. w[k - 1] = t[End16(k - 1)] /\ w[k] = t[End16(k)]
        BY <4>1
      <4> HIDE DEF w
      <4>3. Along(Step, w[k - 1], bs, 16 * k, End16(k)) = w[k]
        BY <1>5, <4>1, <4>2
      <4> QED
        BY <1>6, <3>2, <4>3
    <3> QED
      BY <3>1, <3>2
  <2> DEFINE G(k, v) == IF k = 0 THEN Along(Step, Reading, bs, 0, End16(k))
                      ELSE CHOOSE st \in {Along(Step, before, bs, 16 * k, End16(k)) : before \in {v[k - 1]}} : TRUE
  <2>2. \A k \in 0..K : w[k] = G(k, w)
    BY <2>1
  <2>3. w = [k \in 0..K |-> G(k, w)]
    <3> HIDE DEF G
    <3> QED
      BY <2>2
  <2> HIDE DEF w
  <2> QED
    BY <2>3 DEF F, G
<1>8. F(g)
  <2> HIDE DEF F, w
  <2> QED
    BY <1>7
<1>9. ASSUME NEW k \in 0..K
      PROVE  g[k] = IF k = 0 THEN Along(Step, Reading, bs, 0, End16(k)) ELSE Along(Step, g[k - 1], bs, 16 * k, End16(k))
  <2> DEFINE G(i, v) == IF i = 0 THEN Along(Step, Reading, bs, 0, End16(i))
                      ELSE CHOOSE st \in {Along(Step, before, bs, 16 * i, End16(i)) : before \in {v[i - 1]}} : TRUE
  <2>1. g = [i \in 0..K |-> G(i, g)]
    <3> HIDE DEF g
    <3> QED
      BY <1>8 DEF F, G
  <2>2. g[k] = G(k, g)
    <3> HIDE DEF G, g
    <3> QED
      BY <2>1
  <2> HIDE DEF g
  <2> QED
    BY <1>6, <2>2 DEF G
<1> HIDE DEF g, F, w
<1> DEFINE T == {k \in Nat : k <= K => g[k] = t[End16(k)]}
<1>10. 0 \in T
  BY <1>1, <1>4, <1>9
<1>11. ASSUME NEW k \in Nat, k \in T PROVE k + 1 \in T
  <2> SUFFICES ASSUME k + 1 <= K PROVE g[k + 1] = t[End16(k + 1)]
    OBVIOUS
  <2>1. k + 1 \in 1..K /\ k + 1 \in 0..K /\ k + 1 # 0 /\ (k + 1) - 1 = k /\ g[k] = t[End16(k)]
    BY <1>1, <1>11
  <2>2. g[k + 1] = Along(Step, g[k], bs, 16 * (k + 1), End16(k + 1))
    BY <1>9, <2>1
  <2>3. Along(Step, t[End16(k)], bs, 16 * (k + 1), End16(k + 1)) = t[End16(k + 1)]
    BY <1>5, <2>1
  <2> QED
    BY <2>1, <2>2, <2>3
<1>12. \A k \in Nat : k \in T
  <2> HIDE DEF T
  <2> QED
    BY <1>10, <1>11, NatInd
<1>13. g[K] = t[End16(K)] /\ End16(K) = L
  BY <1>1, <1>12 DEF End16
<1>14. Through(Step, Reading, bs) = g[K]
  BY DEF Through, F, g, K, L, End16
<1> QED
  BY <1>13, <1>14 DEF L

\* Nothing has been read of no bytes.
LEMMA ReadEmpty == Through(Step, Reading, <<>>) = Reading
<1>1. PICK t : ReadChain(t, <<>>, 0)
  BY ReadChainExists
<1>2. <<>> \in Seq({}) /\ Len(<<>>) = 0
  OBVIOUS
<1>3. Through(Step, Reading, <<>>) = t[0]
  BY <1>1, <1>2, ReadThrough
<1> QED
  BY <1>1, <1>3 DEF ReadChain

\* One byte more is one Step more: Through is the fold it stands for.
LEMMA ReadAppend ==
  ASSUME NEW S, NEW bs \in Seq(S), NEW b \in S
  PROVE  Through(Step, Reading, Append(bs, b)) = Step(Through(Step, Reading, bs), b)
<1> DEFINE n == Len(bs)
           more == Append(bs, b)
<1>1. n \in Nat /\ more \in Seq(S) /\ Len(more) = n + 1 /\ (\A i \in 1..n : more[i] = bs[i]) /\ more[n + 1] = b
  OBVIOUS
<1>2. n + 1 \in Nat
  BY <1>1
<1> HIDE DEF n, more
<1>3. PICK t : ReadChain(t, more, n + 1)
  BY <1>2, ReadChainExists
<1>4. ReadChain(t, bs, n) /\ t[n + 1] = Step(t[n], b)
  BY <1>1, <1>3 DEF ReadChain
<1>5. Through(Step, Reading, more) = t[n + 1]
  BY <1>1, <1>3, ReadThrough
<1>6. Through(Step, Reading, bs) = t[n]
  BY <1>4, ReadThrough DEF n
<1> QED
  BY <1>4, <1>5, <1>6 DEF more

\* The encoder, and what it does between the nodes bs.
Fresh == [page |-> 0, out |-> Header]
WriteChain(t, bs, n) == t[0] = Fresh /\ \A i \in 1..n : t[i] = EncodeNode(t[i - 1], bs[i])

\* The same facts for the encoder: Along and Through take an operator, and no
\* lemma about every operator can be cited.
LEMMA WriteAlong ==
  ASSUME NEW t, NEW bs, NEW n \in Nat, WriteChain(t, bs, n),
         NEW a \in Nat, NEW b \in Nat, a <= b, b <= n
  PROVE  Along(EncodeNode, t[a], bs, a, b) = t[b]
<1> DEFINE F(g) == g = [i \in a..b |-> IF i = a THEN t[a] ELSE EncodeNode(g[i - 1], bs[i])]
           g == CHOOSE h : F(h)
           w == [i \in a..b |-> t[i]]
<1>1. \A i \in a..b : w[i] = IF i = a THEN t[a] ELSE EncodeNode(w[i - 1], bs[i])
  BY DEF WriteChain
<1>2. F(w)
  BY <1>1
<1>3. F(g)
  <2> HIDE DEF F, w
  <2> QED
    BY <1>2
<1>4. \A i \in a..b : g[i] = IF i = a THEN t[a] ELSE EncodeNode(g[i - 1], bs[i])
  <2> HIDE DEF g
  <2> QED
    BY <1>3
<1> HIDE DEF F, g
<1> DEFINE S == {n_1 \in Nat : a + n_1 <= b => g[a + n_1] = t[a + n_1]}
<1>5. 0 \in S
  BY <1>4
<1>6. ASSUME NEW m \in Nat, m \in S PROVE m + 1 \in S
  <2> SUFFICES ASSUME a + (m + 1) <= b PROVE g[a + (m + 1)] = t[a + (m + 1)]
    OBVIOUS
  <2>1. g[a + m] = t[a + m]
    BY <1>6
  <2>2. g[a + (m + 1)] = EncodeNode(g[(a + (m + 1)) - 1], bs[a + (m + 1)])
    BY <1>4
  <2>3. t[a + (m + 1)] = EncodeNode(t[(a + (m + 1)) - 1], bs[a + (m + 1)])
    BY DEF WriteChain
  <2>4. (a + (m + 1)) - 1 = a + m
    OBVIOUS
  <2> QED
    BY <2>1, <2>2, <2>3, <2>4
<1>7. \A m \in Nat : m \in S
  <2> HIDE DEF S
  <2> QED
    BY <1>5, <1>6, NatInd
<1>8. g[b] = t[b]
  <2>1. b - a \in Nat /\ a + (b - a) = b
    OBVIOUS
  <2> QED
    BY <1>7, <2>1
<1>9. Along(EncodeNode, t[a], bs, a, b) = g[b]
  BY DEF Along, F, g
<1> QED
  BY <1>8, <1>9

\* Every document has such a chain.
LEMMA WriteChainExists ==
  ASSUME NEW bs
  PROVE  \A n \in Nat : \E t : WriteChain(t, bs, n)
<1> DEFINE S == {n \in Nat : \E t : WriteChain(t, bs, n)}
<1>1. 0 \in S
  <2>1. WriteChain([i \in 0..0 |-> Fresh], bs, 0)
    BY DEF WriteChain
  <2> QED
    BY <2>1
<1>2. ASSUME NEW n \in Nat, n \in S PROVE n + 1 \in S
  <2>1. PICK t : WriteChain(t, bs, n)
    BY <1>2
  <2> DEFINE h == [i \in 0..n + 1 |-> IF i = n + 1 THEN EncodeNode(t[n], bs[i]) ELSE t[i]]
  <2>2. WriteChain(h, bs, n + 1)
    BY <2>1 DEF WriteChain
  <2> HIDE DEF h
  <2> QED
    BY <2>2
<1> HIDE DEF S
<1>3. \A n \in Nat : n \in S
  BY <1>1, <1>2, NatInd
<1> QED
  BY <1>3 DEF S

\* Through ends where it ends.
LEMMA WriteThrough ==
  ASSUME NEW S, NEW bs \in Seq(S), NEW t, WriteChain(t, bs, Len(bs))
  PROVE  Through(EncodeNode, Fresh, bs) = t[Len(bs)]
<1> DEFINE L == Len(bs)
           K == L \div 16
           End16(k) == IF 16 * (k + 1) < L THEN 16 * (k + 1) ELSE L
           F(g) == g = [k \in 0..K |->
                     IF k = 0 THEN Along(EncodeNode, Fresh, bs, 0, End16(k))
                     ELSE CHOOSE st \in {Along(EncodeNode, before, bs, 16 * k, End16(k)) : before \in {g[k - 1]}} : TRUE]
           g == CHOOSE h : F(h)
           w == [k \in 0..K |-> t[End16(k)]]
<1>1. L \in Nat /\ K \in Nat /\ 16 * K <= L /\ L < 16 * (K + 1)
  OBVIOUS
<1>2. ASSUME NEW k \in 0..K PROVE End16(k) \in Nat /\ End16(k) <= L /\ 16 * k <= End16(k) /\ (k # 0 => End16(k - 1) = 16 * k)
  BY <1>1
<1> HIDE DEF L, K, End16
<1>3. t[0] = Fresh
  BY DEF WriteChain
<1>4. Along(EncodeNode, Fresh, bs, 0, End16(0)) = t[End16(0)]
  BY <1>1, <1>2, <1>3, WriteAlong DEF L
<1>5. ASSUME NEW k \in 1..K PROVE Along(EncodeNode, t[End16(k - 1)], bs, 16 * k, End16(k)) = t[End16(k)]
  <2>1. k \in 0..K /\ k # 0 /\ 16 * k \in Nat
    BY <1>1
  <2>2. End16(k) \in Nat /\ End16(k) <= L /\ 16 * k <= End16(k) /\ End16(k - 1) = 16 * k
    BY <1>2, <2>1
  <2>3. Along(EncodeNode, t[16 * k], bs, 16 * k, End16(k)) = t[End16(k)]
    BY <1>1, <2>1, <2>2, WriteAlong DEF L
  <2> QED
    BY <2>2, <2>3
<1>6. \A x, y : (CHOOSE st \in {Along(EncodeNode, before, bs, 16 * y, End16(y)) : before \in {x}} : TRUE) = Along(EncodeNode, x, bs, 16 * y, End16(y))
  OBVIOUS
<1>7. F(w)
  <2>1. ASSUME NEW k \in 0..K
        PROVE  w[k] = IF k = 0 THEN Along(EncodeNode, Fresh, bs, 0, End16(k))
                      ELSE CHOOSE st \in {Along(EncodeNode, before, bs, 16 * k, End16(k)) : before \in {w[k - 1]}} : TRUE
    <3>1. CASE k = 0
      BY <1>4, <3>1
    <3>2. CASE k # 0
      <4>1. k \in 1..K /\ k - 1 \in 0..K
        BY <1>1, <3>2
      <4>2. w[k - 1] = t[End16(k - 1)] /\ w[k] = t[End16(k)]
        BY <4>1
      <4> HIDE DEF w
      <4>3. Along(EncodeNode, w[k - 1], bs, 16 * k, End16(k)) = w[k]
        BY <1>5, <4>1, <4>2
      <4> QED
        BY <1>6, <3>2, <4>3
    <3> QED
      BY <3>1, <3>2
  <2> DEFINE G(k, v) == IF k = 0 THEN Along(EncodeNode, Fresh, bs, 0, End16(k))
                      ELSE CHOOSE st \in {Along(EncodeNode, before, bs, 16 * k, End16(k)) : before \in {v[k - 1]}} : TRUE
  <2>2. \A k \in 0..K : w[k] = G(k, w)
    BY <2>1
  <2>3. w = [k \in 0..K |-> G(k, w)]
    <3> HIDE DEF G
    <3> QED
      BY <2>2
  <2> HIDE DEF w
  <2> QED
    BY <2>3 DEF F, G
<1>8. F(g)
  <2> HIDE DEF F, w
  <2> QED
    BY <1>7
<1>9. ASSUME NEW k \in 0..K
      PROVE  g[k] = IF k = 0 THEN Along(EncodeNode, Fresh, bs, 0, End16(k)) ELSE Along(EncodeNode, g[k - 1], bs, 16 * k, End16(k))
  <2> DEFINE G(i, v) == IF i = 0 THEN Along(EncodeNode, Fresh, bs, 0, End16(i))
                      ELSE CHOOSE st \in {Along(EncodeNode, before, bs, 16 * i, End16(i)) : before \in {v[i - 1]}} : TRUE
  <2>1. g = [i \in 0..K |-> G(i, g)]
    <3> HIDE DEF g
    <3> QED
      BY <1>8 DEF F, G
  <2>2. g[k] = G(k, g)
    <3> HIDE DEF G, g
    <3> QED
      BY <2>1
  <2> HIDE DEF g
  <2> QED
    BY <1>6, <2>2 DEF G
<1> HIDE DEF g, F, w
<1> DEFINE T == {k \in Nat : k <= K => g[k] = t[End16(k)]}
<1>10. 0 \in T
  BY <1>1, <1>4, <1>9
<1>11. ASSUME NEW k \in Nat, k \in T PROVE k + 1 \in T
  <2> SUFFICES ASSUME k + 1 <= K PROVE g[k + 1] = t[End16(k + 1)]
    OBVIOUS
  <2>1. k + 1 \in 1..K /\ k + 1 \in 0..K /\ k + 1 # 0 /\ (k + 1) - 1 = k /\ g[k] = t[End16(k)]
    BY <1>1, <1>11
  <2>2. g[k + 1] = Along(EncodeNode, g[k], bs, 16 * (k + 1), End16(k + 1))
    BY <1>9, <2>1
  <2>3. Along(EncodeNode, t[End16(k)], bs, 16 * (k + 1), End16(k + 1)) = t[End16(k + 1)]
    BY <1>5, <2>1
  <2> QED
    BY <2>1, <2>2, <2>3
<1>12. \A k \in Nat : k \in T
  <2> HIDE DEF T
  <2> QED
    BY <1>10, <1>11, NatInd
<1>13. g[K] = t[End16(K)] /\ End16(K) = L
  BY <1>1, <1>12 DEF End16
<1>14. Through(EncodeNode, Fresh, bs) = g[K]
  BY DEF Through, F, g, K, L, End16
<1> QED
  BY <1>13, <1>14 DEF L

\* Of no nodes only the header is written.
LEMMA WriteEmpty == Through(EncodeNode, Fresh, <<>>) = Fresh
<1>1. PICK t : WriteChain(t, <<>>, 0)
  BY WriteChainExists
<1>2. <<>> \in Seq({}) /\ Len(<<>>) = 0
  OBVIOUS
<1>3. Through(EncodeNode, Fresh, <<>>) = t[0]
  BY <1>1, <1>2, WriteThrough
<1> QED
  BY <1>1, <1>3 DEF WriteChain

\* One node more is one EncodeNode more.
LEMMA WriteAppend ==
  ASSUME NEW S, NEW bs \in Seq(S), NEW b \in S
  PROVE  Through(EncodeNode, Fresh, Append(bs, b)) = EncodeNode(Through(EncodeNode, Fresh, bs), b)
<1> DEFINE n == Len(bs)
           more == Append(bs, b)
<1>1. n \in Nat /\ more \in Seq(S) /\ Len(more) = n + 1 /\ (\A i \in 1..n : more[i] = bs[i]) /\ more[n + 1] = b
  OBVIOUS
<1>2. n + 1 \in Nat
  BY <1>1
<1> HIDE DEF n, more
<1>3. PICK t : WriteChain(t, more, n + 1)
  BY <1>2, WriteChainExists
<1>4. WriteChain(t, bs, n) /\ t[n + 1] = EncodeNode(t[n], b)
  BY <1>1, <1>3 DEF WriteChain
<1>5. Through(EncodeNode, Fresh, more) = t[n + 1]
  BY <1>1, <1>3, WriteThrough
<1>6. Through(EncodeNode, Fresh, bs) = t[n]
  BY <1>4, WriteThrough DEF n
<1> QED
  BY <1>4, <1>5, <1>6 DEF more

-----------------------------------------------------------------------------
(* Sequences *)

Byte == 0..255

\* The first elements of a sequence, one after the other.
LEMMA PrefixFacts ==
  ASSUME NEW S, NEW s \in Seq(S)
  PROVE  /\ SubSeq(s, 1, 0) = <<>> /\ SubSeq(s, 1, Len(s)) = s
         /\ \A k \in 0..Len(s) : SubSeq(s, 1, k) \in Seq(S) /\ Len(SubSeq(s, 1, k)) = k
         /\ \A k \in Nat : k < Len(s) =>
              s[k + 1] \in S /\ SubSeq(s, 1, k + 1) = Append(SubSeq(s, 1, k), s[k + 1])
OBVIOUS

\* What is appended to a part is appended to the whole.
LEMMA ConcatAppend ==
  ASSUME NEW S, NEW s \in Seq(S), NEW t \in Seq(S), NEW x \in S
  PROVE  s \o Append(t, x) = Append(s \o t, x)
OBVIOUS

\* Concatenation, from the elements.
LEMMA ConcatFacts ==
  ASSUME NEW S, NEW s \in Seq(S), NEW t \in Seq(S), NEW u \in Seq(S), NEW x \in S
  PROVE  /\ s \o t \in Seq(S) /\ Append(s, x) \in Seq(S) /\ s \o <<x>> = Append(s, x)
         /\ s \o <<>> = s /\ s \o (t \o u) = (s \o t) \o u /\ <<x>> \in Seq(S)
OBVIOUS

\* Reading w after bs, an element at a time.
LEMMA PrefixSteps ==
  ASSUME NEW S, NEW bs \in Seq(S), NEW w \in Seq(S)
  PROVE  /\ SubSeq(w, 1, 0) = <<>> /\ bs \o SubSeq(w, 1, 0) = bs
         /\ Len(w) \in Nat /\ SubSeq(w, 1, Len(w)) = w /\ bs \o w \in Seq(S)
         /\ \A k \in Nat : k < Len(w) =>
              /\ w[k + 1] \in S /\ SubSeq(w, 1, k + 1) = Append(SubSeq(w, 1, k), w[k + 1])
              /\ bs \o SubSeq(w, 1, k) \in Seq(S)
              /\ bs \o SubSeq(w, 1, k + 1) = Append(bs \o SubSeq(w, 1, k), w[k + 1])
<1>1. SubSeq(w, 1, 0) = <<>>
  BY PrefixFacts
<1>2. bs \o <<>> = bs
  OBVIOUS
<1>3. Len(w) \in Nat /\ SubSeq(w, 1, Len(w)) = w /\ bs \o w \in Seq(S)
  BY PrefixFacts
<1>4. ASSUME NEW k \in Nat, k < Len(w)
      PROVE  /\ w[k + 1] \in S /\ SubSeq(w, 1, k + 1) = Append(SubSeq(w, 1, k), w[k + 1])
             /\ bs \o SubSeq(w, 1, k) \in Seq(S)
             /\ bs \o SubSeq(w, 1, k + 1) = Append(bs \o SubSeq(w, 1, k), w[k + 1])
  <2> DEFINE t == SubSeq(w, 1, k)
             x == w[k + 1]
  <2>1. x \in S /\ SubSeq(w, 1, k + 1) = Append(t, x) /\ t \in Seq(S)
    BY <1>4, PrefixFacts
  <2> HIDE DEF t, x
  <2>2. bs \o t \in Seq(S)
    BY <2>1
  <2>3. bs \o Append(t, x) = Append(bs \o t, x)
    BY <2>1
  <2> QED
    BY <2>1, <2>2, <2>3 DEF t, x
<1> QED
  BY <1>1, <1>2, <1>3, <1>4

-----------------------------------------------------------------------------
(* What the decoder makes of the next byte *)

ReadOf(bs)   == Through(Step, Reading, bs)
Written(doc) == Through(EncodeNode, Fresh, doc)

Keys == {"error", "nodes", "mode", "num", "data", "left", "page", "depth", "count"}

\* The decoder has no error, and knows this.
Is(st, mode, ns, num, data, left, p, d, c) ==
  /\ DOMAIN st = Keys /\ st.error = "none"
  /\ st.mode = mode /\ st.nodes = ns /\ st.num = num /\ st.data = data
  /\ st.left = left /\ st.page = p /\ st.depth = d /\ st.count = c

\* Between two tokens.
Between(st, ns, p, d, c) == Is(st, "token", ns, 0, <<>>, 0, p, d, c)

\* Step, mode by mode.
LEMMA StepIs ==
  ASSUME NEW st, NEW b, st.error = "none"
  PROVE  /\ st.mode = "token"  => Step(st, b) = ReadToken(st, b)
         /\ st.mode = "page"   => Step(st, b) = [st EXCEPT !.mode = "token", !.page = b]
         /\ st.mode = "string" => Step(st, b) = inline_string(st, b)
         /\ st.mode = "length" => Step(st, b) = mb_uint(st, b)
         /\ st.mode = "opaque" => Step(st, b) = ReadOpaque(st, b)
BY DEF Step

\* A node is pushed: what was being read of it is forgotten.
LEMMA PushIs ==
  ASSUME NEW st, NEW mode, NEW ns, NEW num, NEW data, NEW left, NEW p, NEW d, NEW c, NEW node,
         Is(st, mode, ns, num, data, left, p, d, c)
  PROVE  Is(Push(st, node), "token", Append(ns, node), num, <<>>, left, p, d, c)
BY DEF Push, Is, Keys

\* The tokens that have a byte of their own.
LEMMA TokenStep ==
  ASSUME NEW st, NEW ns, NEW p, NEW d, NEW c, Between(st, ns, p, d, c), c # MAX_TOKENS
  PROVE  /\ Is(Step(st, SWITCH_PAGE), "page", ns, 0, <<>>, 0, p, d, c + 1)
         /\ Between(Step(st, END), Append(ns, End), p, IF d = 0 THEN 0 ELSE d - 1, c + 1)
         /\ Is(Step(st, STR_I), "string", ns, 0, <<>>, 0, p, d, c + 1)
         /\ Is(Step(st, OPAQUE), "length", ns, 0, <<>>, 0, p, d, c + 1)
<1> DEFINE s == [st EXCEPT !.count = @ + 1]
<1>1. Between(s, ns, p, d, c + 1)
  BY DEF Between, Is, Keys
<1>2. \A b : Step(st, b) =
              CASE b = SWITCH_PAGE -> [s EXCEPT !.mode = "page"]
                [] b = END         -> Push([s EXCEPT !.depth = IF @ = 0 THEN 0 ELSE @ - 1], End)
                [] b = STR_I       -> [s EXCEPT !.mode = "string"]
                [] b = OPAQUE      -> [s EXCEPT !.mode = "length"]
                [] OTHER           -> ReadStart(s, b)
  BY StepIs DEF Between, Is, ReadToken
<1> HIDE DEF s
<1>3. /\ Step(st, SWITCH_PAGE) = [s EXCEPT !.mode = "page"]
      /\ Step(st, END) = Push([s EXCEPT !.depth = IF @ = 0 THEN 0 ELSE @ - 1], End)
      /\ Step(st, STR_I) = [s EXCEPT !.mode = "string"]
      /\ Step(st, OPAQUE) = [s EXCEPT !.mode = "length"]
  BY <1>2 DEF SWITCH_PAGE, END, STR_I, OPAQUE
<1>4. Between([s EXCEPT !.depth = IF @ = 0 THEN 0 ELSE @ - 1], ns, p, IF d = 0 THEN 0 ELSE d - 1, c + 1)
  BY <1>1 DEF Between, Is, Keys
<1>5. Between(Push([s EXCEPT !.depth = IF @ = 0 THEN 0 ELSE @ - 1], End), Append(ns, End), p, IF d = 0 THEN 0 ELSE d - 1, c + 1)
  BY <1>4, PushIs DEF Between
<1>6. /\ Is([s EXCEPT !.mode = "page"], "page", ns, 0, <<>>, 0, p, d, c + 1)
      /\ Is([s EXCEPT !.mode = "string"], "string", ns, 0, <<>>, 0, p, d, c + 1)
      /\ Is([s EXCEPT !.mode = "length"], "length", ns, 0, <<>>, 0, p, d, c + 1)
  BY <1>1 DEF Between, Is, Keys
<1> QED
  BY <1>3, <1>5, <1>6

\* The byte of a tag: an element is opened when there is a level left.
LEMMA StartStep ==
  ASSUME NEW st, NEW ns, NEW p, NEW d, NEW c, Between(st, ns, p, d, c), c # MAX_TOKENS, NEW token \in 0..63
  PROVE  /\ token \notin {SWITCH_PAGE, END, STR_I} =>
              Between(Step(st, token), Append(ns, Start(<<p, token>>, FALSE)), p, d, c + 1)
         /\ d = MAX_NESTING => Step(st, token + 64) = Fail("NestingLimit")
         /\ d # MAX_NESTING =>
              Between(Step(st, token + 64), Append(ns, Start(<<p, token>>, TRUE)), p, d + 1, c + 1)
<1> DEFINE s == [st EXCEPT !.count = @ + 1]
<1>1. Between(s, ns, p, d, c + 1)
  BY DEF Between, Is, Keys
<1>2. \A b : Step(st, b) =
              CASE b = SWITCH_PAGE -> [s EXCEPT !.mode = "page"]
                [] b = END         -> Push([s EXCEPT !.depth = IF @ = 0 THEN 0 ELSE @ - 1], End)
                [] b = STR_I       -> [s EXCEPT !.mode = "string"]
                [] b = OPAQUE      -> [s EXCEPT !.mode = "length"]
                [] OTHER           -> ReadStart(s, b)
  BY StepIs DEF Between, Is, ReadToken
<1> HIDE DEF s
<1>3. token \notin {SWITCH_PAGE, END, STR_I} => Step(st, token) = ReadStart(s, token)
  BY <1>2 DEF SWITCH_PAGE, END, STR_I, OPAQUE
<1>4. Step(st, token + 64) = ReadStart(s, token + 64)
  BY <1>2 DEF SWITCH_PAGE, END, STR_I, OPAQUE
<1>5. token < 64 /\ ~(token >= 128) /\ ~(token + 64 >= 128) /\ ~(token + 64 < 64) /\ (token + 64) - 64 = token
  OBVIOUS
<1>6. s.page = p /\ s.depth = d /\ Between([s EXCEPT !.depth = @ + 1], ns, p, d + 1, c + 1)
  BY <1>1 DEF Between, Is, Keys
<1>7. ReadStart(s, token) = Push(s, Start(<<p, token>>, FALSE))
  BY <1>5, <1>6 DEF ReadStart
<1>8. ReadStart(s, token + 64) = IF d = MAX_NESTING THEN Fail("NestingLimit")
                                 ELSE Push([s EXCEPT !.depth = @ + 1], Start(<<p, token>>, TRUE))
  BY <1>5, <1>6 DEF ReadStart
<1>9. Between(Push(s, Start(<<p, token>>, FALSE)), Append(ns, Start(<<p, token>>, FALSE)), p, d, c + 1)
  BY <1>1, PushIs DEF Between
<1>10. Between(Push([s EXCEPT !.depth = @ + 1], Start(<<p, token>>, TRUE)),
               Append(ns, Start(<<p, token>>, TRUE)), p, d + 1, c + 1)
  BY <1>6, PushIs DEF Between
<1> QED
  BY <1>3, <1>4, <1>7, <1>8, <1>9, <1>10

\* After MAX_TOKENS tokens the next one is refused, whatever it is.
LEMMA LimitStep ==
  ASSUME NEW st, NEW ns, NEW p, NEW d, NEW b, Between(st, ns, p, d, MAX_TOKENS)
  PROVE  Step(st, b) = Fail("TokenLimit")
BY StepIs DEF ReadToken, Between, Is

\* The byte after a switch is the page.
LEMMA PageStep ==
  ASSUME NEW st, NEW ns, NEW p, NEW d, NEW c, NEW b, Is(st, "page", ns, 0, <<>>, 0, p, d, c)
  PROVE  Between(Step(st, b), ns, b, d, c)
<1>1. Step(st, b) = [st EXCEPT !.mode = "token", !.page = b]
  BY StepIs DEF Is
<1>2. Between([st EXCEPT !.mode = "token", !.page = b], ns, b, d, c)
  BY DEF Between, Is, Keys
<1> QED
  BY <1>1, <1>2

\* A text ends with the first NUL.
LEMMA StringStep ==
  ASSUME NEW st, NEW ns, NEW p, NEW d, NEW c, NEW data, NEW b, Is(st, "string", ns, 0, data, 0, p, d, c)
  PROVE  /\ b # 0 => Is(Step(st, b), "string", ns, 0, Append(data, b), 0, p, d, c)
         /\ Utf8(data) => Between(Step(st, 0), Append(ns, Text(data)), p, d, c)
         /\ ~Utf8(data) => Step(st, 0) = Fail("InvalidUtf8")
<1>1. \A x : Step(st, x) = inline_string(st, x)
  BY StepIs DEF Is
<1>2. st.data = data /\ Is([st EXCEPT !.data = Append(@, b)], "string", ns, 0, Append(data, b), 0, p, d, c)
  BY DEF Is, Keys
<1>3. Between(Push(st, Text(data)), Append(ns, Text(data)), p, d, c)
  BY PushIs DEF Between
<1>4. inline_string(st, 0) = IF Utf8(data) THEN Push(st, Text(data)) ELSE Fail("InvalidUtf8")
  BY <1>2 DEF inline_string
<1>5. b # 0 => inline_string(st, b) = [st EXCEPT !.data = Append(@, b)]
  BY DEF inline_string
<1> QED
  BY <1>1, <1>2, <1>3, <1>4, <1>5

\* A byte of a length that stays below Word.
LEMMA LengthStep ==
  ASSUME NEW st, NEW ns, NEW p, NEW d, NEW c, NEW num \in Nat, NEW b \in Byte, num * 128 + (b % 128) < Word,
         Is(st, "length", ns, num, <<>>, 0, p, d, c)
  PROVE  LET n == num * 128 + (b % 128) IN
         /\ b >= 128 => Is(Step(st, b), "length", ns, n, <<>>, 0, p, d, c)
         /\ b < 128 /\ n = 0 => Between(Step(st, b), Append(ns, Opaque(<<>>)), p, d, c)
         /\ b < 128 /\ n # 0 => Is(Step(st, b), "opaque", ns, 0, <<>>, n, p, d, c)
<1> DEFINE n == num * 128 + (b % 128)
           s == [st EXCEPT !.num = 0]
<1>1. n \in Nat /\ n % Word = n
  BY WordAssumption DEF Byte
<1>2. Step(st, b) = mb_uint(st, b) /\ st.num = num
  BY StepIs DEF Is
<1>3. mb_uint(st, b) = IF b >= 128 THEN [st EXCEPT !.num = n] ELSE ReadUint(s, n)
  <2> DEFINE m == (st.num * 128 + (b % 128)) % Word
  <2>1. m = n
    BY <1>1, <1>2
  <2>2. mb_uint(st, b) = IF b >= 128 THEN [st EXCEPT !.num = m] ELSE ReadUint(s, m)
    BY DEF mb_uint
  <2> HIDE DEF m, n
  <2> QED
    BY <2>1, <2>2
<1> HIDE DEF n
<1>4. Is([st EXCEPT !.num = n], "length", ns, n, <<>>, 0, p, d, c) /\ Is(s, "length", ns, 0, <<>>, 0, p, d, c)
  BY DEF Is, Keys
<1> HIDE DEF s
<1>5. Between(Push(s, Opaque(<<>>)), Append(ns, Opaque(<<>>)), p, d, c)
  BY <1>4, PushIs DEF Between
<1>6. Is([s EXCEPT !.mode = "opaque", !.left = n], "opaque", ns, 0, <<>>, n, p, d, c)
  BY <1>4 DEF Is, Keys
<1>7. ReadUint(s, n) = IF n = 0 THEN Push(s, Opaque(<<>>)) ELSE [s EXCEPT !.mode = "opaque", !.left = n]
  BY <1>4 DEF ReadUint, Is
<1>8. b < 128 => ~(b >= 128)
  BY DEF Byte
<1> QED
  BY <1>2, <1>3, <1>4, <1>5, <1>6, <1>7, <1>8 DEF n

\* An opaque ends with the last of its bytes.
LEMMA OpaqueStep ==
  ASSUME NEW st, NEW ns, NEW p, NEW d, NEW c, NEW data, NEW left \in Nat, left # 0, NEW b,
         Is(st, "opaque", ns, 0, data, left, p, d, c)
  PROVE  /\ left = 1 => Between(Step(st, b), Append(ns, Opaque(Append(data, b))), p, d, c)
         /\ left # 1 => Is(Step(st, b), "opaque", ns, 0, Append(data, b), left - 1, p, d, c)
<1> DEFINE s == [st EXCEPT !.data = Append(@, b), !.left = @ - 1]
<1>1. Step(st, b) = ReadOpaque(st, b)
  BY StepIs DEF Is
<1>2. Is(s, "opaque", ns, 0, Append(data, b), left - 1, p, d, c)
  BY DEF Is, Keys
<1>3. ReadOpaque(st, b) = IF s.left = 0 THEN Push(s, Opaque(s.data)) ELSE s
  BY DEF ReadOpaque
<1> HIDE DEF s
<1>4. s.left = left - 1 /\ s.data = Append(data, b)
  BY <1>2 DEF Is
<1>5. left = 1 => Between(Push(s, Opaque(Append(data, b))), Append(ns, Opaque(Append(data, b))), p, d, c)
  BY <1>2, PushIs DEF Between
<1> QED
  BY <1>1, <1>2, <1>3, <1>4, <1>5

\* One more byte is read.
LEMMA ReadNext ==
  ASSUME NEW bs \in Seq(Byte), NEW b \in Byte
  PROVE  ReadOf(Append(bs, b)) = Step(ReadOf(bs), b) /\ Append(bs, b) \in Seq(Byte)
<1>1. ReadOf(Append(bs, b)) = Step(ReadOf(bs), b)
  BY ReadAppend DEF ReadOf
<1>2. Append(bs, b) \in Seq(Byte)
  OBVIOUS
<1> QED
  BY <1>1, <1>2

-----------------------------------------------------------------------------
(* What the decoder makes of several bytes *)

\* After an error the decoder reads on, and the error stays.
LEMMA ErrorStays ==
  ASSUME NEW bs \in Seq(Byte), NEW w \in Seq(Byte), ReadOf(bs).error # "none"
  PROVE  ReadOf(bs \o w) = ReadOf(bs)
<1> DEFINE upto(k) == bs \o SubSeq(w, 1, k)
           S == {k \in Nat : k <= Len(w) => ReadOf(upto(k)) = ReadOf(bs)}
<1>1. upto(0) = bs /\ upto(Len(w)) = bs \o w /\ Len(w) \in Nat
  BY PrefixSteps, Zenon
<1>2. ASSUME NEW k \in Nat, k < Len(w)
      PROVE  ReadOf(upto(k + 1)) = Step(ReadOf(upto(k)), w[k + 1])
  <2>1. w[k + 1] \in Byte /\ upto(k) \in Seq(Byte) /\ upto(k + 1) = Append(upto(k), w[k + 1])
    BY <1>2, PrefixSteps
  <2> HIDE DEF upto
  <2> QED
    BY <2>1, ReadNext
<1> HIDE DEF upto
<1>3. 0 \in S
  BY <1>1
<1>4. ASSUME NEW k \in Nat, k \in S PROVE k + 1 \in S
  <2> SUFFICES ASSUME k < Len(w) PROVE ReadOf(upto(k + 1)) = ReadOf(bs)
    BY <1>1
  <2>1. ReadOf(upto(k)) = ReadOf(bs)
    BY <1>1, <1>4
  <2>2. ReadOf(upto(k + 1)) = Step(ReadOf(bs), w[k + 1])
    BY <1>2, <2>1
  <2> QED
    BY <2>2 DEF Step
<1>5. \A k \in Nat : k \in S
  <2> HIDE DEF S
  <2> QED
    BY <1>3, <1>4, NatInd
<1>6. Len(w) \in S
  <2> HIDE DEF S
  <2> QED
    BY <1>1, <1>5
<1>7. Len(w) <= Len(w)
  BY <1>1
<1>8. ReadOf(upto(Len(w))) = ReadOf(bs)
  BY <1>6, <1>7, Zenon
<1> QED
  BY <1>1, <1>8, Zenon

\* Texts have no NUL.
Char == 1..255

\* The bytes of a text are collected.
LEMMA ReadText ==
  ASSUME NEW bs \in Seq(Byte), NEW s \in Seq(Char), NEW ns, NEW p, NEW d, NEW c,
         Is(ReadOf(bs), "string", ns, 0, <<>>, 0, p, d, c)
  PROVE  s \in Seq(Byte) /\ bs \o s \in Seq(Byte) /\ Is(ReadOf(bs \o s), "string", ns, 0, s, 0, p, d, c)
<1> DEFINE from(k) == SubSeq(s, 1, k)
           upto(k) == bs \o from(k)
           S == {k \in Nat : k <= Len(s) => Is(ReadOf(upto(k)), "string", ns, 0, from(k), 0, p, d, c)}
<1>0. s \in Seq(Byte) /\ \A k \in Nat : k < Len(s) => s[k + 1] # 0
  <2>1. \A k \in Nat : k < Len(s) => s[k + 1] \in Char
    OBVIOUS
  <2>2. s \in Seq(Byte) /\ \A x \in Char : x # 0
    BY DEF Char, Byte
  <2> HIDE DEF from, upto, S
  <2> QED
    BY <2>1, <2>2
<1>1. from(0) = <<>> /\ upto(0) = bs /\ from(Len(s)) = s /\ Len(s) \in Nat /\ bs \o s \in Seq(Byte)
  BY <1>0, PrefixSteps, ZenonT(60)
<1>2. ASSUME NEW k \in Nat, k < Len(s)
      PROVE  from(k + 1) = Append(from(k), s[k + 1]) /\ ReadOf(upto(k + 1)) = Step(ReadOf(upto(k)), s[k + 1])
  <2>1. /\ s[k + 1] \in Byte /\ from(k + 1) = Append(from(k), s[k + 1])
        /\ upto(k) \in Seq(Byte) /\ upto(k + 1) = Append(upto(k), s[k + 1])
    BY <1>0, <1>2, PrefixSteps
  <2> HIDE DEF from, upto
  <2> QED
    BY <2>1, ReadNext
<1>3. upto(Len(s)) = bs \o s
  BY <1>1
<1> HIDE DEF from, upto
<1>4. 0 \in S
  BY <1>1
<1>5. ASSUME NEW k \in Nat, k \in S PROVE k + 1 \in S
  <2> SUFFICES ASSUME k < Len(s) PROVE Is(ReadOf(upto(k + 1)), "string", ns, 0, from(k + 1), 0, p, d, c)
    BY <1>1
  <2>1. Is(ReadOf(upto(k)), "string", ns, 0, from(k), 0, p, d, c)
    BY <1>1, <1>5
  <2>2. Is(Step(ReadOf(upto(k)), s[k + 1]), "string", ns, 0, Append(from(k), s[k + 1]), 0, p, d, c)
    BY <1>0, <2>1, StringStep
  <2> QED
    BY <1>2, <2>2
<1>6. \A k \in Nat : k \in S
  <2> HIDE DEF S
  <2> QED
    BY <1>4, <1>5, NatInd
<1>7. Is(ReadOf(upto(Len(s))), "string", ns, 0, from(Len(s)), 0, p, d, c)
  BY <1>1, <1>6
<1> QED
  BY <1>0, <1>1, <1>3, <1>7

\* So are those of an opaque, up to the last one.
LEMMA ReadOpaqueData ==
  ASSUME NEW bs \in Seq(Byte), NEW s \in Seq(Byte), NEW ns, NEW p, NEW d, NEW c, Len(s) # 0,
         Is(ReadOf(bs), "opaque", ns, 0, <<>>, Len(s), p, d, c)
  PROVE  bs \o s \in Seq(Byte) /\ Between(ReadOf(bs \o s), Append(ns, Opaque(s)), p, d, c)
<1> DEFINE n == Len(s)
           from(k) == SubSeq(s, 1, k)
           upto(k) == bs \o from(k)
           S == {k \in Nat : k < n => Is(ReadOf(upto(k)), "opaque", ns, 0, from(k), n - k, p, d, c)}
<1>1. from(0) = <<>> /\ upto(0) = bs /\ from(n) = s /\ n \in Nat /\ bs \o s \in Seq(Byte)
  BY PrefixSteps, Zenon
<1>2. ASSUME NEW k \in Nat, k < n
      PROVE  from(k + 1) = Append(from(k), s[k + 1]) /\ ReadOf(upto(k + 1)) = Step(ReadOf(upto(k)), s[k + 1])
  <2>1. /\ s[k + 1] \in Byte /\ from(k + 1) = Append(from(k), s[k + 1])
        /\ upto(k) \in Seq(Byte) /\ upto(k + 1) = Append(upto(k), s[k + 1])
    BY <1>2, PrefixSteps
  <2> HIDE DEF from, upto
  <2> QED
    BY <2>1, ReadNext
<1>3. upto(n) = bs \o s
  BY <1>1
<1>4. n > 0 /\ n - 0 = n
  BY <1>1
<1>5. Is(ReadOf(bs), "opaque", ns, 0, <<>>, n, p, d, c)
  OBVIOUS
<1> HIDE DEF from, upto, n
<1>6. 0 \in S
  BY <1>1, <1>4, <1>5
<1>7. ASSUME NEW k \in Nat, k \in S PROVE k + 1 \in S
  <2> SUFFICES ASSUME k + 1 < n PROVE Is(ReadOf(upto(k + 1)), "opaque", ns, 0, from(k + 1), n - (k + 1), p, d, c)
    OBVIOUS
  <2>1. Is(ReadOf(upto(k)), "opaque", ns, 0, from(k), n - k, p, d, c) /\ k < n
    BY <1>1, <1>7
  <2>2. n - k \in Nat /\ n - k # 0 /\ n - k # 1 /\ (n - k) - 1 = n - (k + 1)
    BY <1>1
  <2>3. Is(Step(ReadOf(upto(k)), s[k + 1]), "opaque", ns, 0, Append(from(k), s[k + 1]), n - (k + 1), p, d, c)
    BY <2>1, <2>2, OpaqueStep
  <2> QED
    BY <1>2, <2>1, <2>3
<1>8. \A k \in Nat : k \in S
  <2> HIDE DEF S
  <2> QED
    BY <1>6, <1>7, NatInd
<1>9. n - 1 \in Nat /\ n - 1 < n /\ (n - 1) + 1 = n /\ n - (n - 1) = 1
  BY <1>1, <1>4
<1>10. Is(ReadOf(upto(n - 1)), "opaque", ns, 0, from(n - 1), 1, p, d, c)
  BY <1>8, <1>9
<1>11. Between(Step(ReadOf(upto(n - 1)), s[n]), Append(ns, Opaque(Append(from(n - 1), s[n]))), p, d, c)
  BY <1>10, OpaqueStep
<1>12. from(n) = Append(from(n - 1), s[n]) /\ ReadOf(upto(n)) = Step(ReadOf(upto(n - 1)), s[n])
  BY <1>2, <1>9
<1> QED
  BY <1>1, <1>3, <1>11, <1>12

-----------------------------------------------------------------------------
(* The length of an opaque *)

\* high of write_mb_uint.
High(g, n) == g = [m \in 0..n |-> IF m = 0 THEN <<>> ELSE Append(g[m \div 128], (m % 128) + 128)]

\* It is defined for every integer, m \div 128 being less than m.
LEMMA HighExists == \A n \in Nat : \E g : High(g, n)
<1> DEFINE S == {n \in Nat : \E g : High(g, n)}
<1>1. 0 \in S
  <2> DEFINE g == [m \in 0..0 |-> <<>>]
  <2>1. High(g, 0)
    BY DEF High
  <2> HIDE DEF g
  <2> QED
    BY <2>1
<1>2. ASSUME NEW n \in Nat, n \in S PROVE n + 1 \in S
  <2>1. PICK g : High(g, n)
    BY <1>2
  <2> DEFINE last == Append(g[(n + 1) \div 128], ((n + 1) % 128) + 128)
             h == [m \in 0..n + 1 |-> IF m = n + 1 THEN last ELSE g[m]]
  <2>a. \A m \in 0..n : g[m] = IF m = 0 THEN <<>> ELSE Append(g[m \div 128], (m % 128) + 128)
    BY <2>1 DEF High
  <2>2. ASSUME NEW m \in 0..n + 1
        PROVE  h[m] = IF m = 0 THEN <<>> ELSE Append(h[m \div 128], (m % 128) + 128)
    <3>1. m # 0 => m \div 128 \in 0..n /\ m \div 128 # n + 1 /\ m \div 128 \in 0..n + 1
      OBVIOUS
    <3>2. m # 0 => h[m \div 128] = g[m \div 128]
      BY <3>1
    <3>3. m # n + 1 => m \in 0..n /\ g[m] = IF m = 0 THEN <<>> ELSE Append(g[m \div 128], (m % 128) + 128)
      BY <2>a
    <3>4. h[m] = IF m = n + 1 THEN last ELSE g[m]
      OBVIOUS
    <3> HIDE DEF h
    <3> QED
      BY <3>2, <3>3, <3>4
  <2>3. h = [m \in 0..n + 1 |-> h[m]]
    OBVIOUS
  <2> HIDE DEF h
  <2>4. High(h, n + 1)
    BY <2>2, <2>3 DEF High
  <2> QED
    BY <2>4
<1> HIDE DEF S
<1>3. \A n \in Nat : n \in S
  BY <1>1, <1>2, NatInd
<1> QED
  BY <1>3 DEF S

\* Its bytes say m.
LEMMA ReadHigh ==
  ASSUME NEW n \in Nat, n < Word, NEW g, High(g, n), NEW bs \in Seq(Byte), NEW ns, NEW p, NEW d, NEW c,
         Is(ReadOf(bs), "length", ns, 0, <<>>, 0, p, d, c)
  PROVE  \A m \in 0..n : g[m] \in Seq(Byte) /\ Is(ReadOf(bs \o g[m]), "length", ns, m, <<>>, 0, p, d, c)
<1> DEFINE P(m) == g[m] \in Seq(Byte) /\ Is(ReadOf(bs \o g[m]), "length", ns, m, <<>>, 0, p, d, c)
           S == {k \in Nat : \A m \in 0..n : m <= k => P(m)}
<1>1. P(0)
  <2>1. g[0] = <<>>
    BY DEF High
  <2>2. bs \o <<>> = bs /\ <<>> \in Seq(Byte)
    OBVIOUS
  <2> QED
    BY <2>1, <2>2
<1>2. ASSUME NEW m \in 0..n, m # 0, P(m \div 128) PROVE P(m)
  <2> DEFINE k == m \div 128
             b == (m % 128) + 128
  <2>0. m % 128 \in 0..127 /\ k \in Nat /\ k * 128 + (m % 128) = m /\ m < Word
    BY WordAssumption
  <2>1. b \in Byte /\ b >= 128 /\ b % 128 = m % 128
    BY <2>0 DEF Byte
  <2>2. g[m] = Append(g[k], b)
    BY <1>2 DEF High
  <2>3. g[k] \in Seq(Byte) /\ Is(ReadOf(bs \o g[k]), "length", ns, k, <<>>, 0, p, d, c)
    BY <1>2
  <2> HIDE DEF k, b
  <2>4. bs \o g[k] \in Seq(Byte) /\ Append(g[k], b) \in Seq(Byte)
    BY <2>1, <2>3
  <2>5. bs \o Append(g[k], b) = Append(bs \o g[k], b)
    BY <2>1, <2>3
  <2>6. Is(Step(ReadOf(bs \o g[k]), b), "length", ns, m, <<>>, 0, p, d, c)
    <3>1. k * 128 + (b % 128) = m
      BY <2>0, <2>1
    <3>2. k \in Nat /\ k * 128 + (b % 128) < Word
      BY <2>0, <3>1
    <3>3. LET v == k * 128 + (b % 128) IN b >= 128 => Is(Step(ReadOf(bs \o g[k]), b), "length", ns, v, <<>>, 0, p, d, c)
      BY <2>1, <2>3, <3>2, LengthStep
    <3> QED
      BY <2>1, <3>1, <3>3
  <2> QED
    BY <2>1, <2>2, <2>4, <2>5, <2>6, ReadNext
<1> HIDE DEF P
<1>3. 0 \in S
  BY <1>1
<1>4. ASSUME NEW k \in Nat, k \in S PROVE k + 1 \in S
  <2> SUFFICES ASSUME NEW m \in 0..n, m <= k + 1 PROVE P(m)
    OBVIOUS
  <2>1. m # 0 => m \div 128 \in 0..n /\ m \div 128 <= k
    OBVIOUS
  <2>2. m # 0 => P(m \div 128)
    BY <1>4, <2>1
  <2> QED
    BY <1>1, <1>2, <2>2
<1>5. \A k \in Nat : k \in S
  <2> HIDE DEF S
  <2> QED
    BY <1>3, <1>4, NatInd
<1>6. \A m \in 0..n : P(m)
  BY <1>5
<1> QED
  BY <1>6 DEF P

\* The length that write_mb_uint writes is the one that is read.
LEMMA ReadUintIs ==
  ASSUME NEW n \in Nat, n < Word, NEW bs \in Seq(Byte), NEW ns, NEW p, NEW d, NEW c,
         Is(ReadOf(bs), "length", ns, 0, <<>>, 0, p, d, c)
  PROVE  /\ write_mb_uint(n) \in Seq(Byte) /\ bs \o write_mb_uint(n) \in Seq(Byte)
         /\ n = 0 => Between(ReadOf(bs \o write_mb_uint(n)), Append(ns, Opaque(<<>>)), p, d, c)
         /\ n # 0 => Is(ReadOf(bs \o write_mb_uint(n)), "opaque", ns, 0, <<>>, n, p, d, c)
<1> DEFINE g == CHOOSE f : High(f, n)
           k == n \div 128
           b == n % 128
<1>1. High(g, n)
  BY HighExists
<1>2. write_mb_uint(n) = Append(g[k], b)
  BY DEF write_mb_uint, High
<1> HIDE DEF g
<1>3. k \in 0..n /\ k \in Nat /\ b \in Byte /\ b < 128 /\ k * 128 + (b % 128) = n
  BY DEF Byte
<1> HIDE DEF k, b
<1>4. g[k] \in Seq(Byte) /\ Is(ReadOf(bs \o g[k]), "length", ns, k, <<>>, 0, p, d, c)
  BY <1>1, <1>3, ReadHigh
<1>5. bs \o g[k] \in Seq(Byte) /\ Append(g[k], b) \in Seq(Byte) /\ bs \o Append(g[k], b) = Append(bs \o g[k], b)
  BY <1>3, <1>4
<1>6. bs \o Append(g[k], b) \in Seq(Byte) /\ ReadOf(bs \o Append(g[k], b)) = Step(ReadOf(bs \o g[k]), b)
  BY <1>3, <1>5, ReadNext
<1>7. /\ n = 0 => Between(Step(ReadOf(bs \o g[k]), b), Append(ns, Opaque(<<>>)), p, d, c)
      /\ n # 0 => Is(Step(ReadOf(bs \o g[k]), b), "opaque", ns, 0, <<>>, n, p, d, c)
  BY <1>3, <1>4, LengthStep
<1> QED
  BY <1>2, <1>5, <1>6, <1>7

-----------------------------------------------------------------------------
(* Texts without NULs *)

\* kept of WithoutNul.
Kept(k, s, n) ==
  k = [i \in 0..n |-> IF i = 0 THEN <<>> ELSE IF s[i] = 0 THEN k[i - 1] ELSE Append(k[i - 1], s[i])]

\* It is defined for every text.
LEMMA KeptExists ==
  ASSUME NEW s
  PROVE  \A n \in Nat : \E k : Kept(k, s, n)
<1> DEFINE S == {n \in Nat : \E k : Kept(k, s, n)}
<1>1. 0 \in S
  <2> DEFINE k == [i \in 0..0 |-> <<>>]
  <2>1. Kept(k, s, 0)
    BY DEF Kept
  <2> HIDE DEF k
  <2> QED
    BY <2>1
<1>2. ASSUME NEW n \in Nat, n \in S PROVE n + 1 \in S
  <2>1. PICK k : Kept(k, s, n)
    BY <1>2
  <2> DEFINE last == IF s[n + 1] = 0 THEN k[n] ELSE Append(k[n], s[n + 1])
             h == [i \in 0..n + 1 |-> IF i = n + 1 THEN last ELSE k[i]]
  <2>2. \A i \in 0..n : k[i] = IF i = 0 THEN <<>> ELSE IF s[i] = 0 THEN k[i - 1] ELSE Append(k[i - 1], s[i])
    BY <2>1 DEF Kept
  <2>3. ASSUME NEW i \in 0..n + 1
        PROVE  h[i] = IF i = 0 THEN <<>> ELSE IF s[i] = 0 THEN h[i - 1] ELSE Append(h[i - 1], s[i])
    <3>1. i # 0 => i - 1 \in 0..n /\ h[i - 1] = k[i - 1]
      OBVIOUS
    <3>2. i # n + 1 => i \in 0..n /\ h[i] = k[i]
      OBVIOUS
    <3>3. i = n + 1 => h[i] = last /\ i - 1 = n /\ i # 0
      OBVIOUS
    <3> HIDE DEF h
    <3> QED
      BY <2>2, <3>1, <3>2, <3>3
  <2>4. h = [i \in 0..n + 1 |-> h[i]]
    OBVIOUS
  <2> HIDE DEF h
  <2>5. Kept(h, s, n + 1)
    BY <2>3, <2>4 DEF Kept
  <2> QED
    BY <2>5
<1> HIDE DEF S
<1>3. \A n \in Nat : n \in S
  BY <1>1, <1>2, NatInd
<1> QED
  BY <1>3 DEF S

\* WithoutNul, from the shorter texts.
LEMMA WithoutNulIs ==
  ASSUME NEW s \in Seq(Byte)
  PROVE  \E k : /\ WithoutNul(s) = k[Len(s)] /\ k[0] = <<>>
                /\ \A n \in 0..Len(s) : n # 0 => k[n] = IF s[n] = 0 THEN k[n - 1] ELSE Append(k[n - 1], s[n])
<1> DEFINE k == CHOOSE f : Kept(f, s, Len(s))
<1>1. Kept(k, s, Len(s))
  <2>1. Len(s) \in Nat
    OBVIOUS
  <2> QED
    BY <2>1, KeptExists
<1>2. WithoutNul(s) = k[Len(s)]
  BY DEF WithoutNul, Kept
<1> HIDE DEF k
<1>3. \A n \in 0..Len(s) : k[n] = IF n = 0 THEN <<>> ELSE IF s[n] = 0 THEN k[n - 1] ELSE Append(k[n - 1], s[n])
  BY <1>1 DEF Kept
<1>4. 0 \in 0..Len(s)
  OBVIOUS
<1> QED
  BY <1>2, <1>3, <1>4

\* A text without NULs is sent as it is.
LEMMA WithoutNulSame ==
  ASSUME NEW s \in Seq(Char)
  PROVE  WithoutNul(s) = s
<1>0. s \in Seq(Byte)
  BY DEF Char, Byte
<1>1. PICK k : /\ WithoutNul(s) = k[Len(s)] /\ k[0] = <<>>
               /\ \A n \in 0..Len(s) : n # 0 => k[n] = IF s[n] = 0 THEN k[n - 1] ELSE Append(k[n - 1], s[n])
  BY <1>0, WithoutNulIs
<1> DEFINE from(n) == SubSeq(s, 1, n)
           S == {n \in Nat : n <= Len(s) => k[n] = from(n)}
<1>2. from(0) = <<>> /\ Len(s) \in Nat /\ from(Len(s)) = s
  BY PrefixFacts
<1>3. \A n \in Nat : n < Len(s) => s[n + 1] \in Char /\ from(n + 1) = Append(from(n), s[n + 1])
  BY PrefixFacts
<1>4. \A x \in Char : x # 0
  BY DEF Char
<1> HIDE DEF from
<1>5. 0 \in S
  BY <1>1, <1>2
<1>6. ASSUME NEW n \in Nat, n \in S PROVE n + 1 \in S
  <2> SUFFICES ASSUME n + 1 <= Len(s) PROVE k[n + 1] = from(n + 1)
    OBVIOUS
  <2>1. k[n] = from(n) /\ n < Len(s) /\ n + 1 \in 0..Len(s) /\ n + 1 # 0 /\ (n + 1) - 1 = n
    BY <1>2, <1>6
  <2>2. s[n + 1] # 0 /\ from(n + 1) = Append(from(n), s[n + 1])
    BY <1>3, <1>4, <2>1
  <2> QED
    BY <1>1, <2>1, <2>2
<1>7. \A n \in Nat : n \in S
  <2> HIDE DEF S
  <2> QED
    BY <1>5, <1>6, NatInd
<1>8. Len(s) \in S
  <2> HIDE DEF S
  <2> QED
    BY <1>2, <1>7
<1> QED
  BY <1>1, <1>2, <1>8

Lead(x) == x \in 194..223
Cont(x) == x \in 128..191
Fits(x) == x < 224 /\ (x >= 192 => x >= 194)

\* Utf8 in terms of lead and continuation bytes, a lead byte fitting.
LEMMA Utf8Is ==
  ASSUME NEW s \in Seq(Byte)
  PROVE  Utf8(s) <=> \A i \in 1..Len(s) : /\ Fits(s[i])
                                          /\ Cont(s[i]) => i > 1 /\ Lead(s[i - 1])
                                          /\ Lead(s[i]) => i < Len(s) /\ Cont(s[i + 1])
<1>1. DOMAIN s = 1..Len(s) /\ \A i \in 1..Len(s) : s[i] \in Byte
  OBVIOUS
<1> DEFINE A(i) == /\ s[i] < 224
                   /\ s[i] \in 128..191 => i > 1 /\ s[i - 1] \in 194..223
                   /\ s[i] >= 192 => s[i] >= 194 /\ i < Len(s) /\ s[i + 1] \in 128..191
           B(i) == /\ Fits(s[i])
                   /\ Cont(s[i]) => i > 1 /\ Lead(s[i - 1])
                   /\ Lead(s[i]) => i < Len(s) /\ Cont(s[i + 1])
<1>2. ASSUME NEW i \in 1..Len(s) PROVE A(i) <=> B(i)
  <2>1. \A x \in Byte : Fits(x) => (x >= 192 <=> Lead(x))
    BY DEF Fits, Lead, Byte
  <2>2. Fits(s[i]) => (s[i] >= 192 <=> Lead(s[i]))
    BY <1>1, <2>1
  <2>3. A(i) <=> /\ s[i] < 224 /\ (Cont(s[i]) => i > 1 /\ Lead(s[i - 1]))
                 /\ s[i] >= 192 => s[i] >= 194 /\ i < Len(s) /\ Cont(s[i + 1])
    BY Zenon DEF Lead, Cont
  <2>4. Fits(s[i]) <=> s[i] < 224 /\ (s[i] >= 192 => s[i] >= 194)
    BY Zenon DEF Fits
  <2> QED
    BY <2>2, <2>3, <2>4, Zenon
<1>3. Utf8(s) <=> \A i \in 1..Len(s) : A(i)
  BY <1>1 DEF Utf8
<1> HIDE DEF A, B
<1>4. Utf8(s) <=> \A i \in 1..Len(s) : B(i)
  BY <1>2, <1>3
<1> QED
  BY <1>4 DEF B

\* A text stays UTF-8 without its NULs: they are not within a character.
LEMMA WithoutNulValid ==
  ASSUME NEW s \in Seq(Byte), Utf8(s)
  PROVE  WithoutNul(s) \in Seq(Char) /\ Utf8(WithoutNul(s))
<1>1. PICK k : /\ WithoutNul(s) = k[Len(s)] /\ k[0] = <<>>
               /\ \A n \in 0..Len(s) : n # 0 => k[n] = IF s[n] = 0 THEN k[n - 1] ELSE Append(k[n - 1], s[n])
  BY WithoutNulIs
<1> DEFINE Chars(t) == \A i \in 1..Len(t) :
             /\ Fits(t[i])
             /\ Cont(t[i]) => i > 1 /\ Lead(t[i - 1])
             /\ Lead(t[i]) /\ i < Len(t) => Cont(t[i + 1])
           P(t, n) == /\ t \in Seq(Char) /\ Chars(t)
                      /\ n # 0 /\ s[n] # 0 => Len(t) # 0 /\ t[Len(t)] = s[n]
                      /\ Len(t) # 0 /\ Lead(t[Len(t)]) => n # 0 /\ s[n] = t[Len(t)]
           S == {n \in Nat : n <= Len(s) => P(k[n], n)}
<1>2. Len(s) \in Nat /\ \A i \in 1..Len(s) : s[i] \in Byte
  OBVIOUS
<1>3. \A i \in 1..Len(s) : /\ Fits(s[i])
                           /\ Cont(s[i]) => i > 1 /\ Lead(s[i - 1])
                           /\ Lead(s[i]) => i < Len(s) /\ Cont(s[i + 1])
  BY Utf8Is
<1>4. ~Lead(0) /\ ~Cont(0) /\ \A x \in Byte : x # 0 => x \in Char
  BY DEF Lead, Cont, Byte, Char
<1>5. P(<<>>, 0)
  OBVIOUS
<1>6. ASSUME NEW n \in Nat, n + 1 <= Len(s), NEW t, P(t, n), s[n + 1] = 0
      PROVE  P(t, n + 1)
  <2>1. n # 0 => n \in 1..Len(s)
    BY <1>2, <1>6
  <2>2. ~(n # 0 /\ Lead(s[n]))
    BY <1>3, <1>4, <1>6, <2>1
  <2>3. ~(Len(t) # 0 /\ Lead(t[Len(t)]))
    BY <1>6, <2>2
  <2> QED
    BY <1>6, <2>3
<1>7. ASSUME NEW n \in Nat, n + 1 <= Len(s), NEW t, P(t, n), s[n + 1] # 0
      PROVE  P(Append(t, s[n + 1]), n + 1)
  <2> DEFINE b == s[n + 1]
             u == Append(t, b)
             L == Len(t)
  <2>1. n + 1 \in 1..Len(s) /\ (n + 1 > 1 <=> n # 0) /\ (n + 1) - 1 = n /\ (n # 0 => n \in 1..Len(s))
    BY <1>2, <1>7
  <2>2. b \in Char /\ Fits(b)
    BY <1>2, <1>3, <1>4, <1>7, <2>1
  <2>3. Cont(b) => n # 0 /\ Lead(s[n])
    BY <1>3, <2>1
  <2>4. n # 0 /\ Lead(s[n]) => Cont(b)
    BY <1>3, <2>1
  <2>5. Cont(b) => L # 0 /\ Lead(t[L])
    BY <1>4, <1>7, <2>3
  <2>6. L # 0 /\ Lead(t[L]) => Cont(b)
    BY <1>7, <2>4
  <2>7. t \in Seq(Char) /\ Chars(t)
    BY <1>7
  <2> HIDE DEF b
  <2>8. /\ L \in Nat /\ u \in Seq(Char) /\ Len(u) = L + 1 /\ u[L + 1] = b
        /\ \A i \in 1..L : u[i] = t[i]
    BY <2>2, <2>7
  <2> HIDE DEF u, L
  <2>9. \A i \in 1..L : /\ Fits(t[i])
                        /\ Cont(t[i]) => i > 1 /\ Lead(t[i - 1])
                        /\ Lead(t[i]) /\ i < L => Cont(t[i + 1])
    BY <2>7 DEF L
  <2>10. ASSUME NEW i \in 1..L + 1
         PROVE  /\ Fits(u[i])
                /\ Cont(u[i]) => i > 1 /\ Lead(u[i - 1])
                /\ Lead(u[i]) /\ i < L + 1 => Cont(u[i + 1])
    <3>1. CASE i = L + 1
      <4>1. u[i] = b /\ i - 1 = L /\ (L # 0 => i > 1 /\ u[i - 1] = t[L]) /\ ~(i < L + 1)
        BY <2>8, <3>1
      <4> QED
        BY <2>2, <2>5, <4>1
    <3>2. CASE i = L
      <4>1. i \in 1..L /\ L # 0 /\ u[i] = t[i] /\ u[i + 1] = b /\ (i > 1 => u[i - 1] = t[i - 1])
        BY <2>8, <3>2
      <4> QED
        BY <2>6, <2>9, <3>2, <4>1
    <3>3. CASE i < L
      <4>1. i \in 1..L /\ u[i] = t[i] /\ u[i + 1] = t[i + 1] /\ (i > 1 => u[i - 1] = t[i - 1])
        BY <2>8, <3>3
      <4> QED
        BY <2>9, <3>3, <4>1
    <3> QED
      BY <2>8, <3>1, <3>2, <3>3
  <2>11. Chars(u)
    BY <2>8, <2>10
  <2>12. n + 1 # 0 /\ Len(u) # 0 /\ u[Len(u)] = b
    BY <2>8
  <2> HIDE DEF Chars
  <2> QED
    BY <2>8, <2>11, <2>12 DEF b, u
<1> HIDE DEF P
<1>8. 0 \in S
  BY <1>1, <1>5
<1>9. ASSUME NEW n \in Nat, n \in S PROVE n + 1 \in S
  <2> SUFFICES ASSUME n + 1 <= Len(s) PROVE P(k[n + 1], n + 1)
    OBVIOUS
  <2>1. P(k[n], n) /\ n + 1 \in 0..Len(s) /\ n + 1 # 0 /\ (n + 1) - 1 = n
    BY <1>2, <1>9
  <2>2. k[n + 1] = IF s[n + 1] = 0 THEN k[n] ELSE Append(k[n], s[n + 1])
    BY <1>1, <2>1
  <2> QED
    BY <1>6, <1>7, <2>1, <2>2
<1>10. \A n \in Nat : n \in S
  <2> HIDE DEF S
  <2> QED
    BY <1>8, <1>9, NatInd
<1>11. Len(s) \in S
  <2> HIDE DEF S
  <2> QED
    BY <1>2, <1>10
<1> DEFINE t == k[Len(s)]
<1>12. P(t, Len(s))
  BY <1>2, <1>11
<1> HIDE DEF t
<1>13. t \in Seq(Char) /\ Len(t) \in Nat /\ Chars(t)
  BY <1>12 DEF P
<1>14. t \in Seq(Byte)
  BY <1>13 DEF Char, Byte
<1>15. ~(Len(t) # 0 /\ Lead(t[Len(t)]))
  <2> SUFFICES ASSUME Len(t) # 0, Lead(t[Len(t)]) PROVE FALSE
    OBVIOUS
  <2>1. Len(s) # 0 /\ Lead(s[Len(s)])
    BY <1>12 DEF P
  <2>2. Len(s) \in 1..Len(s) /\ ~(Len(s) < Len(s))
    BY <1>2, <2>1
  <2> QED
    BY <1>3, <2>1, <2>2
<1>16. \A i \in 1..Len(t) : Lead(t[i]) => i < Len(t)
  <2> TAKE i \in 1..Len(t)
  <2>1. i < Len(t) \/ (i = Len(t) /\ Len(t) # 0)
    BY <1>13
  <2> QED
    BY <1>15, <2>1
<1>17. Utf8(t)
  BY <1>13, <1>14, <1>16, Utf8Is
<1> QED
  BY <1>1, <1>13, <1>17 DEF t

\* An integer of which num is read, and then b.
Integer(num, b) == (num * 128 + (b % 128)) % Word

\* A byte of an integer, of any value: the bits above Word are lost.
LEMMA IntegerStep ==
  ASSUME NEW st, NEW mode \in {"public", "charset", "table", "length"}, NEW ns, NEW p, NEW d, NEW c,
         NEW num \in Nat, NEW b \in Byte, Is(st, mode, ns, num, <<>>, 0, p, d, c),
         NEW n, n = Integer(num, b)
  PROVE  /\ b >= 128 => Is(Step(st, b), mode, ns, n, <<>>, 0, p, d, c)
         /\ b < 128 => /\ mode = "public"  => IF n = 1 THEN Is(Step(st, b), "charset", ns, 0, <<>>, 0, p, d, c)
                                              ELSE Step(st, b) = Fail("UnsupportedPublicId")
                       /\ mode = "charset" => IF n = 106 THEN Is(Step(st, b), "table", ns, 0, <<>>, 0, p, d, c)
                                              ELSE Step(st, b) = Fail("UnsupportedCharset")
                       /\ mode = "table"   => IF n = 0 THEN Between(Step(st, b), ns, p, d, c)
                                              ELSE Step(st, b) = Fail("StringTableUnsupported")
                       /\ mode = "length"  => IF n = 0 THEN Between(Step(st, b), Append(ns, Opaque(<<>>)), p, d, c)
                                              ELSE Is(Step(st, b), "opaque", ns, 0, <<>>, n, p, d, c)
<1> DEFINE s == [st EXCEPT !.num = 0]
<1>1. Step(st, b) = mb_uint(st, b) /\ st.num = num
  BY DEF Is, Step
<1>2. mb_uint(st, b) = IF b >= 128 THEN [st EXCEPT !.num = n] ELSE ReadUint(s, n)
  BY <1>1 DEF mb_uint, Integer
<1>3. Is([st EXCEPT !.num = n], mode, ns, n, <<>>, 0, p, d, c) /\ Is(s, mode, ns, 0, <<>>, 0, p, d, c)
  BY DEF Is, Keys
<1> HIDE DEF s
<1>4. /\ mode = "public"  => ReadUint(s, n) = IF n = 1 THEN [s EXCEPT !.mode = "charset"] ELSE Fail("UnsupportedPublicId")
      /\ mode = "charset" => ReadUint(s, n) = IF n = 106 THEN [s EXCEPT !.mode = "table"] ELSE Fail("UnsupportedCharset")
      /\ mode = "table"   => ReadUint(s, n) = IF n = 0 THEN [s EXCEPT !.mode = "token"] ELSE Fail("StringTableUnsupported")
      /\ mode = "length"  => ReadUint(s, n) = IF n = 0 THEN Push(s, Opaque(<<>>)) ELSE [s EXCEPT !.mode = "opaque", !.left = n]
  BY <1>3 DEF ReadUint, Is
<1>5. /\ Is([s EXCEPT !.mode = "charset"], "charset", ns, 0, <<>>, 0, p, d, c)
      /\ Is([s EXCEPT !.mode = "table"], "table", ns, 0, <<>>, 0, p, d, c)
      /\ Between([s EXCEPT !.mode = "token"], ns, p, d, c)
      /\ Is([s EXCEPT !.mode = "opaque", !.left = n], "opaque", ns, 0, <<>>, n, p, d, c)
  BY <1>3 DEF Is, Keys, Between
<1>6. Between(Push(s, Opaque(<<>>)), Append(ns, Opaque(<<>>)), p, d, c)
  BY <1>3, PushIs DEF Between
<1>7. b < 128 => ~(b >= 128)
  BY DEF Byte
<1> QED
  BY <1>1, <1>2, <1>3, <1>4, <1>5, <1>6, <1>7

\* The first byte is the version.
LEMMA VersionStep ==
  ASSUME NEW st, NEW ns, NEW p, NEW d, NEW c, NEW b, Is(st, "version", ns, 0, <<>>, 0, p, d, c)
  PROVE  IF b = 3 THEN Is(Step(st, b), "public", ns, 0, <<>>, 0, p, d, c) ELSE Step(st, b) = Fail("UnsupportedVersion")
<1>1. Step(st, b) = IF b = 3 THEN [st EXCEPT !.mode = "public"] ELSE Fail("UnsupportedVersion")
  BY DEF Is, Step
<1>2. Is([st EXCEPT !.mode = "public"], "public", ns, 0, <<>>, 0, p, d, c)
  BY DEF Is, Keys
<1> QED
  BY <1>1, <1>2

\* Before the first byte.
LEMMA ReadingIs == Is(ReadOf(<<>>), "version", <<>>, 0, <<>>, 0, 0, 0, 0)
<1>1. ReadOf(<<>>) = Reading
  BY ReadEmpty DEF ReadOf
<1>2. Is(Reading, "version", <<>>, 0, <<>>, 0, 0, 0, 0)
  BY DEF Is, Keys, Reading
<1> QED
  BY <1>1, <1>2

\* After the header the decoder is between two tokens.
LEMMA HeaderRead == Header \in Seq(Byte) /\ Between(ReadOf(Header), <<>>, 0, 0, 0)
<1> DEFINE b1 == Append(<<>>, 3)
           b2 == Append(b1, 1)
           b3 == Append(b2, 106)
           b4 == Append(b3, 0)
<1>1. Header = b4 /\ <<>> \in Seq(Byte)
  BY DEF Header
<1>2. 3 \in Byte /\ 1 \in Byte /\ 106 \in Byte /\ 0 \in Byte
  BY DEF Byte
<1>3. b1 \in Seq(Byte) /\ ReadOf(b1) = Step(ReadOf(<<>>), 3)
  BY <1>1, <1>2, ReadNext
<1> HIDE DEF b1
<1>4. b2 \in Seq(Byte) /\ ReadOf(b2) = Step(ReadOf(b1), 1)
  BY <1>2, <1>3, ReadNext
<1> HIDE DEF b2
<1>5. b3 \in Seq(Byte) /\ ReadOf(b3) = Step(ReadOf(b2), 106)
  BY <1>2, <1>4, ReadNext
<1> HIDE DEF b3
<1>6. b4 \in Seq(Byte) /\ ReadOf(b4) = Step(ReadOf(b3), 0)
  BY <1>2, <1>5, ReadNext
<1> HIDE DEF b4
<1>7. Is(ReadOf(b1), "public", <<>>, 0, <<>>, 0, 0, 0, 0)
  BY <1>3, ReadingIs, VersionStep
<1>8. 1 = Integer(0, 1) /\ 106 = Integer(0, 106) /\ 0 = Integer(0, 0)
  BY WordAssumption DEF Integer
<1>9. 0 < 128 /\ 1 < 128 /\ 106 < 128 /\ 0 \in Nat
  OBVIOUS
<1>10. Is(ReadOf(b2), "charset", <<>>, 0, <<>>, 0, 0, 0, 0)
  <2>1. Is(Step(ReadOf(b1), 1), "charset", <<>>, 0, <<>>, 0, 0, 0, 0)
    BY <1>2, <1>7, <1>8, <1>9, IntegerStep, SMTT(60)
  <2> QED
    BY <1>4, <2>1, Zenon
<1>11. Is(ReadOf(b3), "table", <<>>, 0, <<>>, 0, 0, 0, 0)
  <2>1. Is(Step(ReadOf(b2), 106), "table", <<>>, 0, <<>>, 0, 0, 0, 0)
    <3>1. 106 \in Byte /\ 106 < 128 /\ 0 \in Nat /\ 106 = Integer(0, 106)
      BY <1>2, <1>8, <1>9
    <3> QED
      BY <1>10, <3>1, IntegerStep
  <2> QED
    BY <1>5, <2>1, Zenon
<1>12. Between(ReadOf(b4), <<>>, 0, 0, 0)
  <2>1. Between(Step(ReadOf(b3), 0), <<>>, 0, 0, 0)
    BY <1>2, <1>8, <1>9, <1>11, IntegerStep
  <2> QED
    BY <1>6, <2>1, Zenon
<1> QED
  BY <1>1, <1>6, <1>12

-----------------------------------------------------------------------------
(* A node is read as it is written *)

\* What the decoder says of a document that is too long or too deep.
Refused(st) == st.error \in {"NestingLimit", "TokenLimit"}

\* A refused document stays refused.
LEMMA RefusedStays ==
  ASSUME NEW bs \in Seq(Byte), NEW w \in Seq(Byte), Refused(ReadOf(bs))
  PROVE  Refused(ReadOf(bs \o w))
<1>1. ReadOf(bs).error # "none"
  BY DEF Refused
<1> QED
  BY <1>1, ErrorStays

\* A byte, and the ones after it.
LEMMA ReadTwo ==
  ASSUME NEW bs \in Seq(Byte), NEW b \in Byte, NEW w \in Seq(Byte)
  PROVE  /\ bs \o (<<b>> \o w) = Append(bs, b) \o w /\ Append(bs, b) \in Seq(Byte)
         /\ <<b>> \o w \in Seq(Byte) /\ <<b>> \in Seq(Byte) /\ ReadOf(Append(bs, b)) = Step(ReadOf(bs), b)
<1>1. <<b>> \in Seq(Byte) /\ bs \o (<<b>> \o w) = (bs \o <<b>>) \o w /\ bs \o <<b>> = Append(bs, b)
  BY ConcatFacts
<1>2. <<b>> \o w \in Seq(Byte)
  BY <1>1, ConcatFacts
<1> QED
  BY <1>1, <1>2, ReadNext

\* The two errors of Refused.
LEMMA FailIs == Fail("TokenLimit").error = "TokenLimit" /\ Fail("NestingLimit").error = "NestingLimit"
BY DEF Fail

\* A token too many refuses the document, whatever follows.
LEMMA TokenRefused ==
  ASSUME NEW bs \in Seq(Byte), NEW ns, NEW p, NEW d, Between(ReadOf(bs), ns, p, d, MAX_TOKENS),
         NEW b \in Byte, NEW w \in Seq(Byte)
  PROVE  Refused(ReadOf(bs \o (<<b>> \o w)))
<1>1. Refused(ReadOf(Append(bs, b)))
  <2>1. ReadOf(Append(bs, b)) = Step(ReadOf(bs), b)
    BY ReadTwo
  <2>2. Step(ReadOf(bs), b) = Fail("TokenLimit")
    BY LimitStep
  <2> QED
    BY <2>1, <2>2, FailIs DEF Refused
<1>2. Append(bs, b) \in Seq(Byte) /\ bs \o (<<b>> \o w) = Append(bs, b) \o w
  BY ReadTwo
<1> QED
  BY <1>1, <1>2, RefusedStays

\* Numbers of open elements and of tokens.
Depths == 0..MAX_NESTING
Counts == 0..MAX_TOKENS

\* An end is read as it is written.
LEMMA EndRead ==
  ASSUME NEW bs \in Seq(Byte), NEW ns, NEW p, NEW d, NEW c \in Counts, Between(ReadOf(bs), ns, p, d, c)
  PROVE  /\ Append(bs, END) \in Seq(Byte)
         /\ c + 1 <= MAX_TOKENS => Between(ReadOf(Append(bs, END)), Append(ns, End), p, IF d = 0 THEN 0 ELSE d - 1, c + 1)
         /\ ~(c + 1 <= MAX_TOKENS) => Refused(ReadOf(Append(bs, END)))
<1>1. END \in Byte
  BY DEF END, Byte
<1>2. Append(bs, END) \in Seq(Byte) /\ ReadOf(Append(bs, END)) = Step(ReadOf(bs), END)
  BY <1>1, ReadNext
<1>3. c + 1 <= MAX_TOKENS <=> c # MAX_TOKENS
  BY LimitsAssumption DEF Counts
<1>4. c = MAX_TOKENS => Refused(Step(ReadOf(bs), END))
  BY LimitStep, FailIs DEF Refused
<1> QED
  BY <1>2, <1>3, <1>4, TokenStep

\* So is a text without NULs.
LEMMA TextRead ==
  ASSUME NEW bs \in Seq(Byte), NEW ns, NEW p, NEW d, NEW c \in Counts, Between(ReadOf(bs), ns, p, d, c),
         NEW s \in Seq(Char), Utf8(s)
  PROVE  LET out == bs \o <<STR_I>> \o s \o <<0>> IN
         /\ out \in Seq(Byte)
         /\ c + 1 <= MAX_TOKENS => Between(ReadOf(out), Append(ns, Text(s)), p, d, c + 1)
         /\ ~(c + 1 <= MAX_TOKENS) => Refused(ReadOf(out))
<1> DEFINE b1 == Append(bs, STR_I)
           b2 == b1 \o s
           b3 == Append(b2, 0)
<1>1. STR_I \in Byte /\ 0 \in Byte
  BY DEF STR_I, Byte
<1>2. b1 \in Seq(Byte) /\ ReadOf(b1) = Step(ReadOf(bs), STR_I) /\ bs \o <<STR_I>> = b1
  BY <1>1, ReadNext, ConcatFacts
<1>3. s \in Seq(Byte)
  BY DEF Char, Byte
<1> HIDE DEF b1
<1>4. b2 \in Seq(Byte)
  BY <1>2, <1>3, ConcatFacts
<1> HIDE DEF b2
<1>5. b3 \in Seq(Byte) /\ ReadOf(b3) = Step(ReadOf(b2), 0) /\ b2 \o <<0>> = b3
  BY <1>1, <1>4, ReadNext, ConcatFacts
<1>6. bs \o <<STR_I>> \o s \o <<0>> = b3
  BY <1>2, <1>5 DEF b2
<1> HIDE DEF b3
<1>7. c + 1 <= MAX_TOKENS <=> c # MAX_TOKENS
  BY LimitsAssumption DEF Counts
<1>8. ASSUME c # MAX_TOKENS PROVE Between(ReadOf(b3), Append(ns, Text(s)), p, d, c + 1)
  <2>1. Is(ReadOf(b1), "string", ns, 0, <<>>, 0, p, d, c + 1)
    BY <1>2, <1>8, TokenStep
  <2>2. Is(ReadOf(b2), "string", ns, 0, s, 0, p, d, c + 1)
    BY <1>2, <2>1, ReadText DEF b2
  <2>3. Between(Step(ReadOf(b2), 0), Append(ns, Text(s)), p, d, c + 1)
    BY <2>2, StringStep
  <2> QED
    BY <1>5, <2>3
<1>9. ASSUME c = MAX_TOKENS PROVE Refused(ReadOf(b3))
  <2>1. Refused(ReadOf(b1))
    BY <1>2, <1>9, LimitStep, FailIs DEF Refused
  <2>2. Refused(ReadOf(b2))
    BY <1>2, <1>3, <2>1, RefusedStays DEF b2
  <2>3. <<0>> \in Seq(Byte)
    BY <1>1
  <2> QED
    BY <1>4, <1>5, <2>2, <2>3, RefusedStays
<1> QED
  BY <1>5, <1>6, <1>7, <1>8, <1>9

\* A length is written in bytes.
LEMMA MbUintBytes ==
  ASSUME NEW n \in Nat
  PROVE  write_mb_uint(n) \in Seq(Byte)
<1> DEFINE g == CHOOSE f : High(f, n)
           S == {k \in Nat : \A m \in 0..n : m <= k => g[m] \in Seq(Byte)}
<1>1. High(g, n)
  BY HighExists
<1>2. write_mb_uint(n) = Append(g[n \div 128], n % 128)
  BY DEF write_mb_uint, High
<1> HIDE DEF g
<1>3. \A m \in 0..n : g[m] = IF m = 0 THEN <<>> ELSE Append(g[m \div 128], (m % 128) + 128)
  BY <1>1 DEF High
<1>4. <<>> \in Seq(Byte) /\ \A x \in Byte, w \in Seq(Byte) : Append(w, x) \in Seq(Byte)
  OBVIOUS
<1>5. 0 \in S
  <2>1. \A m \in 0..n : m <= 0 => m = 0
    OBVIOUS
  <2>2. 0 \in 0..n => g[0] = <<>>
    BY <1>3
  <2> QED
    BY <1>4, <2>1, <2>2
<1>6. ASSUME NEW k \in Nat, k \in S PROVE k + 1 \in S
  <2> SUFFICES ASSUME NEW m \in 0..n, m <= k + 1 PROVE g[m] \in Seq(Byte)
    OBVIOUS
  <2>1. m # 0 => m \div 128 \in 0..n /\ m \div 128 <= k /\ (m % 128) + 128 \in Byte
    BY DEF Byte
  <2>2. m # 0 => g[m \div 128] \in Seq(Byte)
    BY <1>6, <2>1
  <2> HIDE DEF S
  <2>3. CASE m = 0
    BY <1>3, <1>4, <2>3
  <2>4. CASE m # 0
    <3>1. g[m] = Append(g[m \div 128], (m % 128) + 128)
      BY <1>3, <2>4
    <3>2. PICK w \in Seq(Byte), x \in Byte : w = g[m \div 128] /\ x = (m % 128) + 128
      BY <2>1, <2>2, <2>4
    <3>3. Append(w, x) \in Seq(Byte)
      BY <1>4
    <3> QED
      BY <3>1, <3>2, <3>3
  <2> QED
    BY <2>3, <2>4
<1>7. \A k \in Nat : k \in S
  <2> HIDE DEF S
  <2> QED
    BY <1>5, <1>6, NatInd
<1>8. n \div 128 \in 0..n /\ n % 128 \in Byte
  BY DEF Byte
<1>9. g[n \div 128] \in Seq(Byte)
  BY <1>7, <1>8
<1> QED
  BY <1>2, <1>8, <1>9, <1>4

\* An opaque is read as it is written.
LEMMA OpaqueRead ==
  ASSUME NEW bs \in Seq(Byte), NEW ns, NEW p, NEW d, NEW c \in Counts, Between(ReadOf(bs), ns, p, d, c),
         NEW s \in Seq(Byte), Len(s) < Word
  PROVE  LET out == bs \o <<OPAQUE>> \o write_mb_uint(Len(s)) \o s IN
         /\ out \in Seq(Byte)
         /\ c + 1 <= MAX_TOKENS => Between(ReadOf(out), Append(ns, Opaque(s)), p, d, c + 1)
         /\ ~(c + 1 <= MAX_TOKENS) => Refused(ReadOf(out))
<1> DEFINE n == Len(s)
           len == write_mb_uint(n)
           b1 == Append(bs, OPAQUE)
           b2 == b1 \o len
           b3 == b2 \o s
<1>1. OPAQUE \in Byte /\ n \in Nat
  BY DEF OPAQUE, Byte
<1>2. b1 \in Seq(Byte) /\ ReadOf(b1) = Step(ReadOf(bs), OPAQUE) /\ bs \o <<OPAQUE>> = b1
  BY <1>1, ReadNext, ConcatFacts
<1>3. len \in Seq(Byte)
  BY <1>1, MbUintBytes
<1> HIDE DEF b1, len
<1>4. b2 \in Seq(Byte)
  BY <1>2, <1>3, ConcatFacts
<1>5. bs \o <<OPAQUE>> \o len \o s = b3
  BY <1>2
<1> HIDE DEF b2
<1>6. b3 \in Seq(Byte)
  BY <1>4, ConcatFacts
<1>7. c + 1 <= MAX_TOKENS <=> c # MAX_TOKENS
  BY LimitsAssumption DEF Counts
<1>8. ASSUME c # MAX_TOKENS PROVE Between(ReadOf(b3), Append(ns, Opaque(s)), p, d, c + 1)
  <2>1. Is(ReadOf(b1), "length", ns, 0, <<>>, 0, p, d, c + 1)
    BY <1>2, <1>8, TokenStep
  <2>2. CASE n = 0
    <3>1. s = <<>> /\ b3 = b2
      BY <1>4, <2>2
    <3>2. Between(ReadOf(b2), Append(ns, Opaque(<<>>)), p, d, c + 1)
      BY <1>1, <1>2, <2>1, <2>2, ReadUintIs DEF b2, len
    <3> QED
      BY <3>1, <3>2
  <2>3. CASE n # 0
    <3>1. Is(ReadOf(b2), "opaque", ns, 0, <<>>, n, p, d, c + 1)
      BY <1>1, <1>2, <2>1, <2>3, ReadUintIs DEF b2, len
    <3> QED
      BY <1>4, <2>3, <3>1, ReadOpaqueData
  <2> QED
    BY <2>2, <2>3
<1>9. ASSUME c = MAX_TOKENS PROVE Refused(ReadOf(b3))
  <2>1. Refused(ReadOf(b1))
    BY <1>2, <1>9, LimitStep, FailIs DEF Refused
  <2>2. Refused(ReadOf(b2))
    BY <1>2, <1>3, <2>1, RefusedStays DEF b2
  <2> QED
    BY <1>4, <2>2, RefusedStays
<1> QED
  BY <1>5, <1>6, <1>7, <1>8, <1>9 DEF len

\* The bytes w are the nodes ns, or there is no room for them.
Reads(w, room, ns, p, d, c) ==
  /\ w \in Seq(Byte)
  /\ room => Between(ReadOf(w), ns, p, d, c)
  /\ ~room => Refused(ReadOf(w))

Deeper(content, d)  == IF content THEN d + 1 ELSE d
Room(content, d, c) == c <= MAX_TOKENS /\ (content => d + 1 <= MAX_NESTING)
Tag(token, content) == IF content THEN token + 64 ELSE token

\* The byte of a tag.
LEMMA TagIs ==
  ASSUME NEW page, NEW token \in 0..63, NEW content \in BOOLEAN
  PROVE  /\ to_byte(Start(<<page, token>>, content)) = Tag(token, content)
         /\ Tag(token, content) \in Byte
<1> DEFINE n == Start(<<page, token>>, content)
<1>1. n.tag[2] = token /\ n.content = content
  BY DEF Start
<1> HIDE DEF n
<1>2. to_byte(n) = token + (IF content THEN 64 ELSE 0)
  BY <1>1 DEF to_byte
<1>3. token + (IF content THEN 64 ELSE 0) = Tag(token, content)
  BY DEF Tag
<1>4. Tag(token, content) \in Byte
  BY DEF Byte, Tag
<1> QED
  BY <1>2, <1>3, <1>4 DEF n

\* The byte of a start, read in its page.
LEMMA TagRead ==
  ASSUME NEW bs \in Seq(Byte), NEW ns, NEW page, NEW d \in Depths, NEW c \in Counts, Between(ReadOf(bs), ns, page, d, c),
         NEW token \in 0..63, NEW content \in BOOLEAN, content \/ token \notin {SWITCH_PAGE, END, STR_I}
  PROVE  Reads(Append(bs, Tag(token, content)), Room(content, d, c + 1),
               Append(ns, Start(<<page, token>>, content)), page, Deeper(content, d), c + 1)
<1> DEFINE b == Tag(token, content)
<1>0. b \in Byte
  BY TagIs
<1>1. Append(bs, b) \in Seq(Byte) /\ ReadOf(Append(bs, b)) = Step(ReadOf(bs), b)
  <2> HIDE DEF b
  <2> QED
    BY <1>0, ReadNext
<1>2. (c + 1 <= MAX_TOKENS <=> c # MAX_TOKENS) /\ (d + 1 <= MAX_NESTING <=> d # MAX_NESTING)
  BY LimitsAssumption DEF Counts, Depths
<1>3. CASE c = MAX_TOKENS
  <2>1. Step(ReadOf(bs), b) = Fail("TokenLimit")
    <3>1. Between(ReadOf(bs), ns, page, d, MAX_TOKENS)
      BY <1>3
    <3> HIDE DEF b
    <3> QED
      BY <3>1, LimitStep
  <2>2. Refused(Step(ReadOf(bs), b))
    BY <2>1, FailIs DEF Refused
  <2>3. ~Room(content, d, c + 1)
    BY <1>2, <1>3 DEF Room
  <2> QED
    BY <1>1, <2>2, <2>3 DEF Reads
<1>4. CASE c # MAX_TOKENS /\ content
  <2>1. b = token + 64 /\ content = TRUE /\ Deeper(content, d) = d + 1
    BY <1>4 DEF Tag, Deeper
  <2>2. d = MAX_NESTING => Step(ReadOf(bs), b) = Fail("NestingLimit")
    <3>1. d = MAX_NESTING => Step(ReadOf(bs), token + 64) = Fail("NestingLimit")
      BY <1>4, StartStep
    <3> HIDE DEF b
    <3> QED
      BY <2>1, <3>1
  <2>3. d = MAX_NESTING => Refused(Step(ReadOf(bs), b))
    BY <2>2, FailIs DEF Refused
  <2>4. d # MAX_NESTING => Between(Step(ReadOf(bs), b), Append(ns, Start(<<page, token>>, TRUE)), page, d + 1, c + 1)
    BY <1>4, <2>1, StartStep
  <2>5. Room(content, d, c + 1) <=> d # MAX_NESTING
    BY <1>2, <1>4 DEF Room
  <2> QED
    BY <1>1, <2>1, <2>3, <2>4, <2>5 DEF Reads
<1>5. CASE c # MAX_TOKENS /\ ~content
  <2>1. b = token /\ token \notin {SWITCH_PAGE, END, STR_I} /\ content = FALSE /\ Deeper(content, d) = d
    BY <1>5 DEF Tag, Deeper
  <2>2. Between(Step(ReadOf(bs), b), Append(ns, Start(<<page, token>>, FALSE)), page, d, c + 1)
    BY <1>5, <2>1, StartStep
  <2>3. Room(content, d, c + 1)
    BY <1>2, <1>5 DEF Room
  <2> QED
    BY <1>1, <2>1, <2>2, <2>3 DEF Reads
<1> QED
  BY <1>3, <1>4, <1>5

\* The page of a start, when it is another one.
Turn(p, page) == IF page = p THEN 0 ELSE 1

\* A start is read as it is written, with the switch to its page.
LEMMA StartRead ==
  ASSUME NEW bs \in Seq(Byte), NEW ns, NEW p, NEW d \in Depths, NEW c \in Counts, Between(ReadOf(bs), ns, p, d, c),
         NEW page \in Byte, NEW token \in 0..63, NEW content \in BOOLEAN,
         content \/ token \notin {SWITCH_PAGE, END, STR_I}
  PROVE  Reads(bs \o SwitchPage(p, page) \o <<Tag(token, content)>>, Room(content, d, c + Turn(p, page) + 1),
               Append(ns, Start(<<page, token>>, content)), page, Deeper(content, d), c + Turn(p, page) + 1)
<1> DEFINE b == Tag(token, content)
           next == Append(ns, Start(<<page, token>>, content))
<1>1. b \in Byte
  BY TagIs
<1>2. CASE page = p
  <2>1. bs \o SwitchPage(p, page) \o <<b>> = Append(bs, b)
    <3>1. SwitchPage(p, page) = <<>>
      BY <1>2 DEF SwitchPage
    <3> HIDE DEF b
    <3> QED
      BY <3>1, <1>1, ConcatFacts
  <2>2. c + Turn(p, page) + 1 = c + 1
    BY <1>2 DEF Counts, Turn
  <2>3. Reads(Append(bs, b), Room(content, d, c + 1), next, page, Deeper(content, d), c + 1)
    BY <1>2, TagRead
  <2> HIDE DEF b, next
  <2>4. Reads(bs \o SwitchPage(p, page) \o <<b>>, Room(content, d, c + Turn(p, page) + 1), next, page,
              Deeper(content, d), c + Turn(p, page) + 1)
    BY <2>1, <2>2, <2>3
  <2> QED
    BY <2>4 DEF b, next
<1>3. CASE page # p
  <2> DEFINE b1 == Append(bs, SWITCH_PAGE)
             b2 == Append(b1, page)
             b3 == Append(b2, b)
  <2>1. SWITCH_PAGE \in Byte
    BY DEF SWITCH_PAGE, Byte
  <2>2. b1 \in Seq(Byte) /\ ReadOf(b1) = Step(ReadOf(bs), SWITCH_PAGE)
    BY <2>1, ReadNext
  <2>3. bs \o <<SWITCH_PAGE, page>> = b2
    BY <2>1
  <2> HIDE DEF b1, b
  <2>4. b2 \in Seq(Byte) /\ ReadOf(b2) = Step(ReadOf(b1), page)
    BY <2>2, ReadNext
  <2> HIDE DEF b2
  <2>5. b2 \o <<b>> = b3 /\ b3 \in Seq(Byte)
    BY <1>1, <2>4, ConcatFacts
  <2>6. bs \o SwitchPage(p, page) \o <<b>> = b3
    <3>1. SwitchPage(p, page) = <<SWITCH_PAGE, page>>
      BY <1>3 DEF SwitchPage
    <3> QED
      BY <2>3, <2>5, <3>1
  <2>7. c + Turn(p, page) + 1 = c + 1 + 1
    BY <1>3 DEF Counts, Turn
  <2>8. Reads(b3, Room(content, d, c + 1 + 1), next, page, Deeper(content, d), c + 1 + 1)
    <3>1. CASE c = MAX_TOKENS
      <4>1. Step(ReadOf(bs), SWITCH_PAGE) = Fail("TokenLimit")
        BY <3>1, LimitStep
      <4>2. Refused(ReadOf(b1))
        BY <2>2, <4>1, FailIs DEF Refused
      <4>3. <<page>> \in Seq(Byte) /\ b2 = b1 \o <<page>>
        BY <2>2 DEF b2
      <4>4. Refused(ReadOf(b2))
        BY <2>2, <4>2, <4>3, RefusedStays
      <4>5. <<b>> \in Seq(Byte)
        BY <1>1
      <4>6. Refused(ReadOf(b3))
        BY <2>4, <2>5, <4>4, <4>5, RefusedStays
      <4>7. ~Room(content, d, c + 1 + 1)
        BY <3>1, LimitsAssumption DEF Room
      <4> QED
        BY <2>5, <4>6, <4>7 DEF Reads
    <3>2. CASE c # MAX_TOKENS
      <4>1. Is(ReadOf(b1), "page", ns, 0, <<>>, 0, p, d, c + 1)
        BY <2>2, <3>2, TokenStep
      <4>2. Between(ReadOf(b2), ns, page, d, c + 1)
        BY <2>4, <4>1, PageStep
      <4>3. c + 1 \in Counts
        BY <3>2, LimitsAssumption DEF Counts
      <4> QED
        BY <2>4, <4>2, <4>3, TagRead DEF b, b3, next
    <3> QED
      BY <3>1, <3>2
  <2> HIDE DEF b3, next
  <2>9. Reads(bs \o SwitchPage(p, page) \o <<b>>, Room(content, d, c + Turn(p, page) + 1), next, page,
              Deeper(content, d), c + Turn(p, page) + 1)
    BY <2>6, <2>7, <2>8
  <2> QED
    BY <2>9 DEF b, next
<1> QED
  BY <1>2, <1>3

\* Concatenation is associative.
LEMMA Concat3 ==
  ASSUME NEW S, NEW s \in Seq(S), NEW t \in Seq(S), NEW u \in Seq(S)
  PROVE  s \o (t \o u) = (s \o t) \o u /\ s \o t \in Seq(S)
OBVIOUS

Encoders == [page : Byte, out : Seq(Byte)]

\* The bytes of a node on the page p.
NodeBytes(n, p) ==
  CASE n.node = "start"  -> SwitchPage(p, n.tag[1]) \o <<to_byte(n)>>
    [] n.node = "end"    -> <<END>>
    [] n.node = "text"   -> <<STR_I>> \o (WithoutNul(n.data) \o <<0>>)
    [] n.node = "opaque" -> <<OPAQUE>> \o (write_mb_uint(Len(n.data)) \o n.data)

PageAfter(n, p) == IF n.node = "start" THEN n.tag[1] ELSE p

\* The nodes that are well-formed, one kind after the other.
IsStart(n, page, token, content) ==
  /\ page \in Byte /\ token \in 0..63 /\ content \in BOOLEAN /\ n = Start(<<page, token>>, content)
  /\ content \/ token \notin {SWITCH_PAGE, END, STR_I}
IsText(n)   == n = Text(n.data) /\ n.data \in Seq(Byte) /\ Utf8(n.data)
IsOpaque(n) == n = Opaque(n.data) /\ n.data \in Seq(Byte) /\ Len(n.data) < Word

\* The four kinds of nodes.
LEMMA WellFormedIs ==
  ASSUME NEW n
  PROVE  WellFormed(n) <=> \/ n = End
                           \/ \E page, token, content : IsStart(n, page, token, content)
                           \/ IsText(n) \/ IsOpaque(n)
<1>1. \A page, token, content : Start(<<page, token>>, content).node = "start"
  BY DEF Start
<1>2. \A s : Text(s).node = "text" /\ Opaque(s).node = "opaque"
  BY DEF Text, Opaque
<1>3. n.node = "text" /\ n = Text(n.data) /\ n.data \in Seq(0..255) /\ Utf8(n.data) <=> IsText(n)
  BY <1>2 DEF IsText, Byte
<1>4. n.node = "opaque" /\ n = Opaque(n.data) /\ n.data \in Seq(0..255) /\ Len(n.data) < Word <=> IsOpaque(n)
  BY <1>2 DEF IsOpaque, Byte
<1>5. (n.node = "start" /\ \E page \in 0..255, token \in 0..63, content \in BOOLEAN :
         n = Start(<<page, token>>, content) /\ (content \/ token \notin {SWITCH_PAGE, END, STR_I}))
      <=> \E page, token, content : IsStart(n, page, token, content)
  BY <1>1, Zenon DEF IsStart, Byte
<1> QED
  BY <1>3, <1>4, <1>5 DEF WellFormed

\* The fields of a start.
LEMMA StartIs ==
  ASSUME NEW n, NEW page, NEW token, NEW content, IsStart(n, page, token, content)
  PROVE  /\ n.node = "start" /\ n.tag = <<page, token>> /\ n.tag[1] = page /\ n.content = content
         /\ to_byte(n) = Tag(token, content) /\ Tag(token, content) \in Byte
<1>1. n.node = "start" /\ n.tag = <<page, token>> /\ n.tag[1] = page /\ n.content = content
  BY DEF IsStart, Start
<1>2. to_byte(n) = Tag(token, content) /\ Tag(token, content) \in Byte
  BY TagIs DEF IsStart
<1> QED
  BY <1>1, <1>2

\* The other kinds.
LEMMA KindIs ==
  ASSUME NEW n
  PROVE  /\ n = End => n.node = "end"
         /\ IsText(n) => n.node = "text"
         /\ IsOpaque(n) => n.node = "opaque"
<1>1. \A s : Text(s).node = "text" /\ Opaque(s).node = "opaque"
  BY DEF Text, Opaque
<1>2. End.node = "end"
  BY DEF End
<1> QED
  BY <1>1, <1>2 DEF IsText, IsOpaque

\* The bytes of a well-formed node are bytes.
LEMMA BytesIs ==
  ASSUME NEW n, NEW p \in Byte, WellFormed(n)
  PROVE  NodeBytes(n, p) \in Seq(Byte) /\ PageAfter(n, p) \in Byte
<1>0. 0 \in Byte /\ END \in Byte /\ STR_I \in Byte /\ OPAQUE \in Byte /\ SWITCH_PAGE \in Byte
  BY DEF END, STR_I, OPAQUE, SWITCH_PAGE, Byte
<1>1. ASSUME NEW page, NEW token, NEW content, IsStart(n, page, token, content)
      PROVE  NodeBytes(n, p) \in Seq(Byte) /\ PageAfter(n, p) \in Byte
  <2>1. n.node = "start" /\ n.tag[1] = page /\ to_byte(n) \in Byte /\ page \in Byte
    BY <1>1, StartIs DEF IsStart
  <2>2. NodeBytes(n, p) = SwitchPage(p, page) \o <<to_byte(n)>> /\ PageAfter(n, p) = page
    BY <2>1 DEF NodeBytes, PageAfter
  <2>3. SwitchPage(p, page) \in Seq(Byte) /\ <<to_byte(n)>> \in Seq(Byte)
    BY <1>0, <2>1 DEF SwitchPage
  <2> QED
    BY <2>1, <2>2, <2>3, ConcatFacts
<1>2. CASE n = End
  <2>1. NodeBytes(n, p) = <<END>> /\ PageAfter(n, p) = p
    BY <1>2, KindIs DEF NodeBytes, PageAfter
  <2> QED
    BY <1>0, <2>1
<1>3. CASE IsText(n)
  <2>1. NodeBytes(n, p) = <<STR_I>> \o (WithoutNul(n.data) \o <<0>>) /\ PageAfter(n, p) = p
    BY <1>3, KindIs DEF NodeBytes, PageAfter
  <2>2. WithoutNul(n.data) \in Seq(Byte)
    <3>1. WithoutNul(n.data) \in Seq(Char)
      BY <1>3, WithoutNulValid DEF IsText
    <3> QED
      BY <3>1 DEF Char, Byte
  <2>3. WithoutNul(n.data) \o <<0>> \in Seq(Byte) /\ <<STR_I>> \in Seq(Byte)
    BY <1>0, <2>2
  <2> QED
    BY <2>1, <2>3, ConcatFacts
<1>4. CASE IsOpaque(n)
  <2>1. NodeBytes(n, p) = <<OPAQUE>> \o (write_mb_uint(Len(n.data)) \o n.data) /\ PageAfter(n, p) = p
    BY <1>4, KindIs DEF NodeBytes, PageAfter
  <2>2. n.data \in Seq(Byte) /\ Len(n.data) \in Nat
    BY <1>4 DEF IsOpaque
  <2>3. write_mb_uint(Len(n.data)) \in Seq(Byte)
    BY <2>2, MbUintBytes
  <2>4. write_mb_uint(Len(n.data)) \o n.data \in Seq(Byte) /\ <<OPAQUE>> \in Seq(Byte)
    BY <1>0, <2>2, <2>3
  <2> QED
    BY <2>1, <2>4, ConcatFacts
<1> QED
  BY <1>1, <1>2, <1>3, <1>4, WellFormedIs

\* EncodeNode adds the bytes of the node.
LEMMA NodeWritten ==
  ASSUME NEW e \in Encoders, NEW n, WellFormed(n)
  PROVE  /\ EncodeNode(e, n) \in Encoders /\ EncodeNode(e, n).page = PageAfter(n, e.page)
         /\ EncodeNode(e, n).out = e.out \o NodeBytes(n, e.page)
<1> DEFINE w == NodeBytes(n, e.page)
           page == PageAfter(n, e.page)
<1>1. e.page \in Byte /\ e.out \in Seq(Byte) /\ e = [page |-> e.page, out |-> e.out]
  BY DEF Encoders
<1>2. w \in Seq(Byte) /\ page \in Byte
  BY <1>1, BytesIs
<1>3. EncodeNode(e, n) = [page |-> page, out |-> e.out \o w]
  <2>1. CASE n.node = "start"
    <3>1. SwitchPage(e.page, n.tag[1]) \in Seq(Byte) /\ <<to_byte(n)>> \in Seq(Byte)
      <4>1. PICK q, token, content : IsStart(n, q, token, content)
        <5>1. n # End /\ ~IsText(n) /\ ~IsOpaque(n)
          BY <2>1, KindIs
        <5>2. \/ n = End \/ \E q, token, content : IsStart(n, q, token, content)
              \/ IsText(n) \/ IsOpaque(n)
          BY WellFormedIs
        <5> QED
          BY <5>1, <5>2
      <4>2. to_byte(n) \in Byte /\ n.tag[1] = q /\ q \in Byte
        BY <4>1, StartIs DEF IsStart
      <4> QED
        <5>1. \A x \in Byte : <<SWITCH_PAGE, x>> \in Seq(Byte) /\ <<x>> \in Seq(Byte) /\ <<>> \in Seq(Byte)
          BY DEF SWITCH_PAGE, Byte
        <5> QED
          BY <4>2, <5>1 DEF SwitchPage
    <3>2. EncodeNode(e, n) = [page |-> n.tag[1], out |-> e.out \o SwitchPage(e.page, n.tag[1]) \o <<to_byte(n)>>]
      BY <2>1 DEF EncodeNode
    <3>3. page = n.tag[1] /\ w = SwitchPage(e.page, n.tag[1]) \o <<to_byte(n)>>
      BY <2>1 DEF NodeBytes, PageAfter
    <3>4. e.out \o SwitchPage(e.page, n.tag[1]) \o <<to_byte(n)>> = e.out \o w
      BY <1>1, <3>1, <3>3, ConcatFacts
    <3> QED
      BY <3>2, <3>3, <3>4
  <2>2. CASE n = End
    <3>1. n.node = "end"
      BY <2>2, KindIs
    <3>2. EncodeNode(e, n) = [e EXCEPT !.out = Append(@, END)] /\ w = <<END>> /\ page = e.page
      BY <3>1 DEF EncodeNode, NodeBytes, PageAfter
    <3>3. Append(e.out, END) = e.out \o <<END>>
      BY <1>1
    <3> QED
      BY <1>1, <3>2, <3>3
  <2>3. CASE IsText(n)
    <3>1. n.node = "text"
      BY <2>3, KindIs
    <3>2. EncodeNode(e, n) = [e EXCEPT !.out = @ \o <<STR_I>> \o WithoutNul(n.data) \o <<0>>]
          /\ w = <<STR_I>> \o (WithoutNul(n.data) \o <<0>>) /\ page = e.page
      BY <3>1 DEF EncodeNode, NodeBytes, PageAfter
    <3>3. WithoutNul(n.data) \in Seq(Char)
      BY <2>3, WithoutNulValid DEF IsText
    <3>4. WithoutNul(n.data) \in Seq(Byte) /\ <<STR_I>> \in Seq(Byte) /\ <<0>> \in Seq(Byte)
      BY <3>3 DEF Char, Byte, STR_I
    <3>5. e.out \o <<STR_I>> \o WithoutNul(n.data) \o <<0>> = e.out \o w
      <4> DEFINE t == WithoutNul(n.data)
      <4>1. w = <<STR_I>> \o (t \o <<0>>)
        BY <3>2
      <4>2. t \in Seq(Byte) /\ <<STR_I>> \in Seq(Byte) /\ <<0>> \in Seq(Byte)
        BY <3>4
      <4> HIDE DEF t, w
      <4>3. e.out \o (<<STR_I>> \o (t \o <<0>>)) = (e.out \o <<STR_I>>) \o (t \o <<0>>)
        <5>1. PICK u \in Seq(Byte) : u = t \o <<0>>
          BY <4>2, Concat3
        <5>2. e.out \o (<<STR_I>> \o u) = (e.out \o <<STR_I>>) \o u
          BY <1>1, <4>2, Concat3
        <5> QED
          BY <5>1, <5>2
      <4>4. (e.out \o <<STR_I>>) \o (t \o <<0>>) = ((e.out \o <<STR_I>>) \o t) \o <<0>>
        <5> DEFINE u == e.out \o <<STR_I>>
        <5>1. u \in Seq(Byte)
          BY <1>1, <4>2, ConcatFacts
        <5> HIDE DEF u
        <5>2. u \o (t \o <<0>>) = (u \o t) \o <<0>>
          BY <4>2, <5>1, Concat3
        <5> QED
          BY <5>2 DEF u
      <4>5. e.out \o <<STR_I>> \o t \o <<0>> = e.out \o w
        BY <4>1, <4>3, <4>4
      <4> QED
        BY <4>5 DEF t
    <3> QED
      BY <1>1, <3>2, <3>5
  <2>4. CASE IsOpaque(n)
    <3>1. n.node = "opaque"
      BY <2>4, KindIs
    <3>2. EncodeNode(e, n) = [e EXCEPT !.out = @ \o <<OPAQUE>> \o write_mb_uint(Len(n.data)) \o n.data]
          /\ w = <<OPAQUE>> \o (write_mb_uint(Len(n.data)) \o n.data) /\ page = e.page
      BY <3>1 DEF EncodeNode, NodeBytes, PageAfter
    <3>3. n.data \in Seq(Byte) /\ Len(n.data) \in Nat
      BY <2>4 DEF IsOpaque
    <3>4. write_mb_uint(Len(n.data)) \in Seq(Byte) /\ <<OPAQUE>> \in Seq(Byte)
      BY <3>3, MbUintBytes DEF OPAQUE, Byte
    <3> DEFINE len == write_mb_uint(Len(n.data))
               s == n.data
    <3>5. e.out \o <<OPAQUE>> \o len \o s = e.out \o w
      <4> HIDE DEF len, s, w
      <4>0. len \in Seq(Byte) /\ s \in Seq(Byte) /\ <<OPAQUE>> \in Seq(Byte)
        BY <3>3, <3>4 DEF len, s
      <4>1. e.out \o (<<OPAQUE>> \o (len \o s)) = (e.out \o <<OPAQUE>>) \o (len \o s)
        BY <1>1, <4>0, Concat3
      <4>2. e.out \o <<OPAQUE>> \in Seq(Byte)
        BY <1>1, <4>0, ConcatFacts
      <4>3. (e.out \o <<OPAQUE>>) \o (len \o s) = ((e.out \o <<OPAQUE>>) \o len) \o s
        <5> DEFINE u == e.out \o <<OPAQUE>>
        <5>1. u \in Seq(Byte)
          BY <4>2
        <5> HIDE DEF u
        <5>2. u \o (len \o s) = (u \o len) \o s
          BY <4>0, <5>1, Concat3
        <5> QED
          BY <5>2 DEF u
      <4>4. w = <<OPAQUE>> \o (len \o s)
        BY <3>2 DEF len, s
      <4> QED
        BY <4>1, <4>3, <4>4
    <3> QED
      BY <1>1, <3>2, <3>5
  <2>5. \A q, token, content : IsStart(n, q, token, content) => n.node = "start"
    BY StartIs
  <2> QED
    BY <2>1, <2>2, <2>3, <2>4, <2>5, WellFormedIs
<1> HIDE DEF w, page
<1>4. e.out \o w \in Seq(Byte)
  BY <1>1, <1>2, ConcatFacts
<1>5. EncodeNode(e, n) \in Encoders /\ EncodeNode(e, n).page = page /\ EncodeNode(e, n).out = e.out \o w
  BY <1>2, <1>3, <1>4 DEF Encoders
<1> QED
  BY <1>5 DEF w, page

\* A node as it is read, and the counters after it.
Clean(n)         == IF n.node = "text" THEN Text(WithoutNul(n.data)) ELSE n
Tokens(n, p)     == IF n.node = "start" THEN Turn(p, n.tag[1]) + 1 ELSE 1
DepthAfter(n, d) == IF n.node = "start" THEN Deeper(n.content, d)
                    ELSE IF n.node = "end" /\ d # 0 THEN d - 1 ELSE d
RoomFor(n, d, c) == c <= MAX_TOKENS /\ (n.node = "start" /\ n.content => d + 1 <= MAX_NESTING)

\* Only texts lose anything.
LEMMA CleanOther == \A n : n.node # "text" => Clean(n) = n
BY DEF Clean

\* A node is read as it is written, whatever is before it: by kinds.
LEMMA NodeRead ==
  ASSUME NEW e \in Encoders, NEW n, WellFormed(n), NEW ns, NEW d \in Depths, NEW c \in Counts,
         Between(ReadOf(e.out), ns, e.page, d, c)
  PROVE  LET f == EncodeNode(e, n) IN
         Reads(f.out, RoomFor(n, d, c + Tokens(n, e.page)), Append(ns, Clean(n)), f.page,
               DepthAfter(n, d), c + Tokens(n, e.page))
<1> DEFINE f == EncodeNode(e, n)
           bs == e.out
           p == e.page
<1>1. bs \in Seq(Byte) /\ p \in Byte
  BY DEF Encoders
<1>2. f.page = PageAfter(n, p) /\ f.out = bs \o NodeBytes(n, p)
  BY NodeWritten
<1>0. Between(ReadOf(bs), ns, p, d, c)
  OBVIOUS
<1> HIDE DEF f, bs, p
<1>3. ASSUME NEW page, NEW token, NEW content, IsStart(n, page, token, content)
      PROVE  Reads(f.out, RoomFor(n, d, c + Tokens(n, p)), Append(ns, Clean(n)), f.page,
                   DepthAfter(n, d), c + Tokens(n, p))
  <2>1. /\ n.node = "start" /\ n.tag[1] = page /\ n.content = content /\ to_byte(n) = Tag(token, content)
        /\ page \in Byte /\ token \in 0..63 /\ content \in BOOLEAN /\ Tag(token, content) \in Byte
        /\ n = Start(<<page, token>>, content) /\ (content \/ token \notin {SWITCH_PAGE, END, STR_I})
    BY <1>3, StartIs DEF IsStart
  <2>2. Reads(bs \o SwitchPage(p, page) \o <<Tag(token, content)>>, Room(content, d, c + Turn(p, page) + 1),
              Append(ns, Start(<<page, token>>, content)), page, Deeper(content, d), c + Turn(p, page) + 1)
    BY <1>0, <1>1, <2>1, StartRead
  <2>3. f.page = page /\ Clean(n) = n /\ DepthAfter(n, d) = Deeper(content, d)
    BY <1>2, <2>1, CleanOther DEF PageAfter, DepthAfter
  <2>4. c + Tokens(n, p) = c + Turn(p, page) + 1
    BY <2>1 DEF Tokens, Turn, Counts
  <2>5. RoomFor(n, d, c + Tokens(n, p)) <=> Room(content, d, c + Turn(p, page) + 1)
    BY <2>1, <2>4 DEF RoomFor, Room
  <2>6. f.out = bs \o SwitchPage(p, page) \o <<Tag(token, content)>>
    <3> DEFINE b == Tag(token, content)
               s == SwitchPage(p, page)
    <3>1. f.out = bs \o (s \o <<b>>)
      BY <1>2, <2>1 DEF NodeBytes
    <3>2. s \in Seq(Byte) /\ <<b>> \in Seq(Byte)
      <4>1. \A x \in Byte : <<SWITCH_PAGE, x>> \in Seq(Byte) /\ <<x>> \in Seq(Byte) /\ <<>> \in Seq(Byte)
        BY DEF SWITCH_PAGE, Byte
      <4> QED
        BY <1>1, <2>1, <4>1 DEF SwitchPage
    <3> HIDE DEF s, b
    <3>3. bs \o (s \o <<b>>) = (bs \o s) \o <<b>>
      BY <1>1, <3>2, Concat3
    <3> QED
      BY <3>1, <3>3 DEF s, b
  <2> QED
    BY <2>1, <2>2, <2>3, <2>4, <2>5, <2>6 DEF Reads
<1>4. ASSUME n = End
      PROVE  Reads(f.out, RoomFor(n, d, c + Tokens(n, p)), Append(ns, Clean(n)), f.page,
                   DepthAfter(n, d), c + Tokens(n, p))
  <2>1. n.node = "end"
    BY <1>4, KindIs
  <2>2. f.page = p /\ Clean(n) = End /\ DepthAfter(n, d) = (IF d = 0 THEN 0 ELSE d - 1) /\ Tokens(n, p) = 1
    BY <1>2, <1>4, <2>1, CleanOther DEF PageAfter, DepthAfter, Tokens
  <2>3. RoomFor(n, d, c + Tokens(n, p)) <=> c + 1 <= MAX_TOKENS
    BY <2>1, <2>2 DEF RoomFor
  <2>4. f.out = Append(bs, END)
    <3>1. f.out = bs \o <<END>>
      BY <1>2, <2>1 DEF NodeBytes
    <3> QED
      BY <1>1, <3>1
  <2>5. /\ Append(bs, END) \in Seq(Byte)
        /\ c + 1 <= MAX_TOKENS => Between(ReadOf(Append(bs, END)), Append(ns, End), p, IF d = 0 THEN 0 ELSE d - 1, c + 1)
        /\ ~(c + 1 <= MAX_TOKENS) => Refused(ReadOf(Append(bs, END)))
    BY <1>0, <1>1, EndRead
  <2> DEFINE to == IF d = 0 THEN 0 ELSE d - 1
  <2>6. Reads(f.out, c + 1 <= MAX_TOKENS, Append(ns, Clean(n)), f.page, to, c + 1)
    BY <2>2, <2>4, <2>5 DEF Reads
  <2> HIDE DEF to
  <2>7. DepthAfter(n, d) = to /\ c + Tokens(n, p) = c + 1
    BY <2>2 DEF to
  <2> QED
    BY <2>3, <2>6, <2>7 DEF Reads
<1>5. ASSUME IsText(n)
      PROVE  Reads(f.out, RoomFor(n, d, c + Tokens(n, p)), Append(ns, Clean(n)), f.page,
                   DepthAfter(n, d), c + Tokens(n, p))
  <2> DEFINE s == WithoutNul(n.data)
  <2>1. n.node = "text" /\ s \in Seq(Char) /\ Utf8(s)
    BY <1>5, KindIs, WithoutNulValid DEF IsText
  <2>2. f.page = p /\ Clean(n) = Text(s) /\ DepthAfter(n, d) = d /\ Tokens(n, p) = 1
    BY <1>2, <2>1 DEF PageAfter, DepthAfter, Tokens, Clean
  <2>3. RoomFor(n, d, c + Tokens(n, p)) <=> c + 1 <= MAX_TOKENS
    BY <2>1, <2>2 DEF RoomFor
  <2>4. f.out = bs \o (<<STR_I>> \o (s \o <<0>>))
    BY <1>2, <2>1 DEF NodeBytes
  <2> HIDE DEF s
  <2>5. f.out = bs \o <<STR_I>> \o s \o <<0>>
    <3>1. s \in Seq(Byte) /\ <<STR_I>> \in Seq(Byte) /\ <<0>> \in Seq(Byte)
      BY <2>1 DEF STR_I, Byte, Char
    <3> DEFINE u == bs \o <<STR_I>>
    <3>2. u \in Seq(Byte) /\ f.out = u \o (s \o <<0>>)
      <4>1. s \o <<0>> \in Seq(Byte)
        BY <3>1, Concat3
      <4> DEFINE v == s \o <<0>>
                 t == <<STR_I>>
      <4>a. v \in Seq(Byte) /\ t \in Seq(Byte)
        BY <3>1, <4>1
      <4> HIDE DEF v, t
      <4>2. bs \o (t \o v) = (bs \o t) \o v
        BY <1>1, <4>a, Concat3
      <4>3. bs \o <<STR_I>> \in Seq(Byte)
        BY <1>1, <3>1, Concat3
      <4> QED
        BY <2>4, <4>2, <4>3 DEF v, t
    <3> HIDE DEF u
    <3>3. u \o (s \o <<0>>) = (u \o s) \o <<0>>
      BY <3>1, <3>2, Concat3
    <3> QED
      BY <3>2, <3>3 DEF u
  <2>6. /\ bs \o <<STR_I>> \o s \o <<0>> \in Seq(Byte)
        /\ c + 1 <= MAX_TOKENS => Between(ReadOf(bs \o <<STR_I>> \o s \o <<0>>), Append(ns, Text(s)), p, d, c + 1)
        /\ ~(c + 1 <= MAX_TOKENS) => Refused(ReadOf(bs \o <<STR_I>> \o s \o <<0>>))
    BY <1>0, <1>1, <2>1, TextRead
  <2>7. Reads(f.out, c + 1 <= MAX_TOKENS, Append(ns, Clean(n)), f.page, d, c + 1)
    BY <2>2, <2>5, <2>6 DEF Reads
  <2>8. DepthAfter(n, d) = d /\ c + Tokens(n, p) = c + 1
    BY <2>2
  <2> QED
    BY <2>3, <2>7, <2>8 DEF Reads
<1>6. ASSUME IsOpaque(n)
      PROVE  Reads(f.out, RoomFor(n, d, c + Tokens(n, p)), Append(ns, Clean(n)), f.page,
                   DepthAfter(n, d), c + Tokens(n, p))
  <2> DEFINE s == n.data
             len == write_mb_uint(Len(s))
  <2>1. n.node = "opaque" /\ s \in Seq(Byte) /\ Len(s) \in Nat /\ Len(s) < Word /\ n = Opaque(s)
    BY <1>6, KindIs DEF IsOpaque
  <2>2. f.page = p /\ Clean(n) = Opaque(s) /\ DepthAfter(n, d) = d /\ Tokens(n, p) = 1
    BY <1>2, <2>1, CleanOther DEF PageAfter, DepthAfter, Tokens
  <2>3. RoomFor(n, d, c + Tokens(n, p)) <=> c + 1 <= MAX_TOKENS
    BY <2>1, <2>2 DEF RoomFor
  <2>4. f.out = bs \o (<<OPAQUE>> \o (len \o s))
    BY <1>2, <2>1 DEF NodeBytes
  <2>5. len \in Seq(Byte) /\ <<OPAQUE>> \in Seq(Byte)
    BY <2>1, MbUintBytes DEF OPAQUE, Byte
  <2> HIDE DEF s, len
  <2>6. f.out = bs \o <<OPAQUE>> \o len \o s
    <3> DEFINE u == bs \o <<OPAQUE>>
    <3>2. u \in Seq(Byte) /\ f.out = u \o (len \o s)
      <4> DEFINE v == len \o s
      <4>1. v \in Seq(Byte)
        BY <2>1, <2>5, Concat3
      <4> DEFINE t == <<OPAQUE>>
      <4>a. t \in Seq(Byte)
        BY <2>5
      <4> HIDE DEF v, t
      <4>2. bs \o (t \o v) = (bs \o t) \o v
        BY <1>1, <4>1, <4>a, Concat3
      <4>3. bs \o <<OPAQUE>> \in Seq(Byte)
        BY <1>1, <2>5, Concat3
      <4> QED
        BY <2>4, <4>2, <4>3 DEF v, t
    <3> HIDE DEF u
    <3>3. u \o (len \o s) = (u \o len) \o s
      BY <2>1, <2>5, <3>2, Concat3
    <3> QED
      BY <3>2, <3>3 DEF u
  <2>7. /\ bs \o <<OPAQUE>> \o len \o s \in Seq(Byte)
        /\ c + 1 <= MAX_TOKENS => Between(ReadOf(bs \o <<OPAQUE>> \o len \o s), Append(ns, Opaque(s)), p, d, c + 1)
        /\ ~(c + 1 <= MAX_TOKENS) => Refused(ReadOf(bs \o <<OPAQUE>> \o len \o s))
    BY <1>0, <1>1, <2>1, OpaqueRead DEF len
  <2>8. Reads(f.out, c + 1 <= MAX_TOKENS, Append(ns, Clean(n)), f.page, d, c + 1)
    BY <2>2, <2>6, <2>7 DEF Reads
  <2>9. DepthAfter(n, d) = d /\ c + Tokens(n, p) = c + 1
    BY <2>2
  <2> QED
    BY <2>3, <2>8, <2>9 DEF Reads
<1>7. Reads(f.out, RoomFor(n, d, c + Tokens(n, p)), Append(ns, Clean(n)), f.page, DepthAfter(n, d), c + Tokens(n, p))
  BY <1>3, <1>4, <1>5, <1>6, WellFormedIs
<1> QED
  BY <1>7 DEF f, p

-----------------------------------------------------------------------------
(* What a document needs, node by node *)

\* How many of the first n positions are in a set.
LEMMA CountNext ==
  ASSUME NEW A
  PROVE  /\ Cardinality(A \cap 1..0) = 0
         /\ \A n \in Nat : /\ Cardinality(A \cap 1..n) \in Nat
                           /\ n + 1 \in A => Cardinality(A \cap 1..n + 1) = Cardinality(A \cap 1..n) + 1
                           /\ n + 1 \notin A => Cardinality(A \cap 1..n + 1) = Cardinality(A \cap 1..n)
<1>1. Cardinality(A \cap 1..0) = 0
  <2>1. A \cap 1..0 = {}
    OBVIOUS
  <2> QED
    BY <2>1, FS_EmptySet
<1>2. ASSUME NEW n \in Nat
      PROVE  /\ Cardinality(A \cap 1..n) \in Nat
             /\ n + 1 \in A => Cardinality(A \cap 1..n + 1) = Cardinality(A \cap 1..n) + 1
             /\ n + 1 \notin A => Cardinality(A \cap 1..n + 1) = Cardinality(A \cap 1..n)
  <2>1. IsFiniteSet(1..n)
    BY FS_Interval
  <2>2. IsFiniteSet(A \cap 1..n)
    BY <2>1, FS_Intersection
  <2>3. n + 1 \notin A \cap 1..n
    OBVIOUS
  <2>4. n + 1 \in A => A \cap 1..n + 1 = (A \cap 1..n) \cup {n + 1}
    OBVIOUS
  <2>5. n + 1 \notin A => A \cap 1..n + 1 = A \cap 1..n
    OBVIOUS
  <2>6. Cardinality(A \cap 1..n) \in Nat
    BY <2>2, FS_CardinalityType
  <2>7. Cardinality((A \cap 1..n) \cup {n + 1}) = Cardinality(A \cap 1..n) + 1
    BY <2>2, <2>3, FS_AddElement
  <2> QED
    BY <2>4, <2>5, <2>6, <2>7
<1> QED
  BY <1>1, <1>2

\* How many elements are open after a node more.
LEMMA OpenNext ==
  ASSUME NEW doc
  PROVE  /\ Open(doc, 0) = 0
         /\ \A n \in Nat :
              /\ Open(doc, n) \in Int
              /\ n + 1 \in Opening(doc) \ Closing(doc) => Open(doc, n + 1) = Open(doc, n) + 1
              /\ n + 1 \in Closing(doc) \ Opening(doc) => Open(doc, n + 1) = Open(doc, n) - 1
              /\ n + 1 \notin Opening(doc) \cup Closing(doc) => Open(doc, n + 1) = Open(doc, n)
<1> DEFINE u(n) == Cardinality(Opening(doc) \cap 1..n)
           v(n) == Cardinality(Closing(doc) \cap 1..n)
<1>1. \A n : Open(doc, n) = u(n) - v(n)
  BY DEF Open
<1>2. /\ u(0) = 0 /\ v(0) = 0
      /\ \A n \in Nat : /\ u(n) \in Nat /\ v(n) \in Nat
                        /\ n + 1 \in Opening(doc) => u(n + 1) = u(n) + 1
                        /\ n + 1 \notin Opening(doc) => u(n + 1) = u(n)
                        /\ n + 1 \in Closing(doc) => v(n + 1) = v(n) + 1
                        /\ n + 1 \notin Closing(doc) => v(n + 1) = v(n)
  BY CountNext
<1> HIDE DEF u, v
<1>3. Open(doc, 0) = 0
  BY <1>1, <1>2
<1>4. ASSUME NEW n \in Nat
      PROVE  /\ Open(doc, n) \in Int
             /\ n + 1 \in Opening(doc) \ Closing(doc) => Open(doc, n + 1) = Open(doc, n) + 1
             /\ n + 1 \in Closing(doc) \ Opening(doc) => Open(doc, n + 1) = Open(doc, n) - 1
             /\ n + 1 \notin Opening(doc) \cup Closing(doc) => Open(doc, n + 1) = Open(doc, n)
  BY <1>1, <1>2
<1> QED
  BY <1>3, <1>4

\* The page after the first n nodes: the one of the last start of them.
PageIs(p, doc, n) ==
  \/ Before(doc, n + 1) = {} /\ p = 0
  \/ \E j \in Before(doc, n + 1) : p = doc[j].tag[1] /\ \A k \in Before(doc, n + 1) : k <= j

\* Whether the next node is a switch of pages, and the page after it.
LEMMA PageNext ==
  ASSUME NEW S, NEW doc \in Seq(S), NEW n \in Nat, n < Len(doc), NEW p, PageIs(p, doc, n)
  PROVE  /\ n + 1 \in Switches(doc) <=> doc[n + 1].node = "start" /\ doc[n + 1].tag[1] # p
         /\ PageIs(PageAfter(doc[n + 1], p), doc, n + 1)
<1> DEFINE B == Before(doc, n + 1)
           C == Before(doc, (n + 1) + 1)
           x == doc[n + 1]
           D == Starts(doc)
<1>1. DOMAIN doc = 1..Len(doc) /\ n + 1 \in DOMAIN doc
  OBVIOUS
<1>2. D \subseteq Nat /\ (n + 1 \in D <=> x.node = "start")
  BY <1>1 DEF Starts
<1> HIDE DEF D, x
<1>3. B = {j \in D : j < n + 1} /\ C = {j \in D : j < (n + 1) + 1} /\ B \subseteq Nat
  BY <1>2 DEF Before, D
<1>4. (n + 1 \in D => C = B \cup {n + 1}) /\ (n + 1 \notin D => C = B)
  <2>1. \A j \in D : j < (n + 1) + 1 <=> j < n + 1 \/ j = n + 1
    BY <1>2
  <2>2. ~(n + 1 < n + 1) /\ n + 1 < (n + 1) + 1
    OBVIOUS
  <2> HIDE DEF B, C
  <2> QED
    BY <1>3, <2>1, <2>2
<1>5. \A j \in B : j <= n + 1
  BY <1>2, <1>3
<1>6. (B = {} /\ p = 0) \/ \E j \in B : p = doc[j].tag[1] /\ \A k \in B : k <= j
  BY DEF PageIs
<1> HIDE DEF B, C
<1>7. n + 1 \in Switches(doc) <=>
        n + 1 \in D /\ (\/ B = {} /\ x.tag[1] # 0
                        \/ \E j \in B : doc[j].tag[1] # x.tag[1] /\ \A k \in B : k <= j)
  <2>1. \A i : i \in Switches(doc) <=>
          i \in Starts(doc) /\ (\/ Before(doc, i) = {} /\ doc[i].tag[1] # 0
                              \/ \E j \in Before(doc, i) : doc[j].tag[1] # doc[i].tag[1] /\ \A k \in Before(doc, i) : k <= j)
    BY DEF Switches
  <2> QED
    BY <2>1 DEF B, D, x
<1>8. \A j, k \in B : j <= k /\ k <= j => j = k
  BY <1>3
<1>9. n + 1 \in Switches(doc) <=> x.node = "start" /\ x.tag[1] # p
  <2>1. CASE B = {} /\ p = 0
    BY <1>2, <1>7, <2>1
  <2>2. ASSUME NEW j \in B, p = doc[j].tag[1], \A k \in B : k <= j PROVE n + 1 \in Switches(doc) <=> x.node = "start" /\ x.tag[1] # p
    <3>1. ASSUME NEW i \in B, doc[i].tag[1] # x.tag[1], \A k \in B : k <= i PROVE x.tag[1] # p
      <4>1. i = j
        BY <1>8, <2>2, <3>1
      <4> QED
        BY <2>2, <3>1, <4>1
    <3> QED
      BY <1>2, <1>7, <2>2, <3>1
  <2> QED
    BY <1>6, <2>1, <2>2
<1>10. PageIs(PageAfter(x, p), doc, n + 1)
  <2>1. CASE n + 1 \in D
    <3>1. PageAfter(x, p) = doc[n + 1].tag[1] /\ n + 1 \in C /\ \A k \in C : k <= n + 1
      BY <1>2, <1>4, <1>5, <2>1 DEF PageAfter, x
    <3> QED
      BY <3>1 DEF PageIs, C
  <2>2. CASE n + 1 \notin D
    <3>1. PageAfter(x, p) = p /\ C = B
      BY <1>2, <1>4, <2>2 DEF PageAfter
    <3> QED
      BY <1>6, <3>1 DEF PageIs, C
  <2> QED
    BY <2>1, <2>2
<1> QED
  BY <1>9, <1>10 DEF x

\* Append, element by element.
LEMMA AppendAt ==
  ASSUME NEW T, NEW u \in Seq(T), NEW y \in T
  PROVE  /\ Append(u, y) = [i \in 1..Len(u) + 1 |-> Append(u, y)[i]]
         /\ \A i \in 1..Len(u) : Append(u, y)[i] = u[i]
         /\ Append(u, y)[Len(u) + 1] = y
<1> DEFINE z == Append(u, y)
<1>1. z \in Seq(T) /\ Len(z) = Len(u) + 1 /\ (\A i \in 1..Len(u) : z[i] = u[i]) /\ z[Len(u) + 1] = y
  OBVIOUS
<1> HIDE DEF z
<1>2. z \in [1..Len(z) -> T]
  BY <1>1
<1>3. z = [i \in 1..Len(z) |-> z[i]]
  BY <1>2
<1> QED
  BY <1>1, <1>3 DEF z

\* A document is cleaned a node at a time.
LEMMA CleanAppend ==
  ASSUME NEW S, NEW s \in Seq(S), NEW x \in S
  PROVE  [i \in DOMAIN Append(s, x) |-> Clean(Append(s, x)[i])] = Append([i \in DOMAIN s |-> Clean(s[i])], Clean(x))
<1> DEFINE t == Append(s, x)
           u == [i \in DOMAIN s |-> Clean(s[i])]
           v == [i \in DOMAIN t |-> Clean(t[i])]
           L == Len(s)
<1>1. L \in Nat /\ DOMAIN s = 1..L /\ DOMAIN t = 1..L + 1 /\ (\A i \in 1..L : t[i] = s[i]) /\ t[L + 1] = x
  OBVIOUS
<1> HIDE DEF t, L
<1>2. u \in Seq({Clean(s[i]) : i \in DOMAIN s} \cup {Clean(x)}) /\ Len(u) = L
  <2>1. u \in [1..L -> {Clean(s[i]) : i \in DOMAIN s} \cup {Clean(x)}]
    BY <1>1
  <2> HIDE DEF u
  <2> QED
    BY <1>1, <2>1
<1>3. \A i \in 1..L : u[i] = Clean(s[i])
  BY <1>1
<1>4. v = [i \in 1..L + 1 |-> Clean(t[i])]
  BY <1>1
<1> HIDE DEF u
<1>5. /\ Append(u, Clean(x)) = [i \in 1..L + 1 |-> Append(u, Clean(x))[i]]
      /\ \A i \in 1..L : Append(u, Clean(x))[i] = u[i]
      /\ Append(u, Clean(x))[L + 1] = Clean(x)
  <2>1. PICK T : u \in Seq(T) /\ Clean(x) \in T
    BY <1>2
  <2>2. PICK y \in T : y = Clean(x)
    BY <2>1
  <2> QED
    BY <1>2, <2>1, <2>2, AppendAt
<1>6. \A i \in 1..L + 1 : Append(u, Clean(x))[i] = Clean(t[i])
  <2> TAKE i \in 1..L + 1
  <2>1. i = L + 1 \/ i \in 1..L
    BY <1>1
  <2> QED
    BY <1>1, <1>3, <1>5, <2>1
<1> DEFINE w == Append(u, Clean(x))
<1> HIDE DEF w
<1>7. w = v
  BY <1>4, <1>5, <1>6 DEF w
<1> QED
  BY <1>7, Zenon DEF w, u, t

CleanDoc(doc) == [i \in DOMAIN doc |-> Clean(doc[i])]
Turns(doc, n) == Cardinality(Switches(doc) \cap 1..n)

\* The decoder has room for the first n nodes.
RoomUpto(doc, n) == n + Turns(doc, n) <= MAX_TOKENS /\ \A i \in Opening(doc) \cap 1..n : Open(doc, i) <= MAX_NESTING

\* What is read of the first n nodes.
ReadUpto(doc, n) ==
  LET s == SubSeq(doc, 1, n)
      e == Written(s) IN
  /\ e \in Encoders /\ PageIs(e.page, doc, n) /\ Open(doc, n) \in Nat
  /\ RoomUpto(doc, n) => Open(doc, n) \in Depths
  /\ Reads(e.out, RoomUpto(doc, n), CleanDoc(s), e.page, Open(doc, n), n + Turns(doc, n))

\* The next node opens or closes an element: the count of the definition
\* Balanced is the decoder's depth.
LEMMA NodeCounts ==
  ASSUME NEW S, NEW doc \in Seq(S), \A x \in S : WellFormed(x), Balanced(doc), NEW n \in Nat, n < Len(doc),
         Open(doc, n) \in Nat
  PROVE  LET x == doc[n + 1] IN
         /\ Open(doc, n + 1) = DepthAfter(x, Open(doc, n)) /\ Open(doc, n + 1) \in Nat
         /\ n + 1 \in Opening(doc) <=> x.node = "start" /\ x.content
         /\ x.node = "start" /\ x.content => Open(doc, n + 1) = Open(doc, n) + 1
         /\ ~(x.node = "start" /\ x.content) => Open(doc, n + 1) <= Open(doc, n)
<1> DEFINE x == doc[n + 1]
           d == Open(doc, n)
<1>1. DOMAIN doc = 1..Len(doc) /\ n + 1 \in DOMAIN doc /\ x \in S
  OBVIOUS
<1>2. /\ n + 1 \in Opening(doc) <=> x.node = "start" /\ x.content
      /\ n + 1 \in Closing(doc) <=> x.node = "end"
  BY <1>1 DEF Starts, Opening, Closing
<1>3. x.node = "start" => x.content \in BOOLEAN
  <2>1. SUFFICES ASSUME x.node = "start" PROVE x.content \in BOOLEAN
    OBVIOUS
  <2>2. x # End /\ ~IsText(x) /\ ~IsOpaque(x)
    BY <2>1, KindIs
  <2>3. PICK page, token, content : IsStart(x, page, token, content)
    BY <1>1, <2>2, WellFormedIs
  <2>4. content \in BOOLEAN
    BY <2>3 DEF IsStart
  <2> HIDE DEF x
  <2>5. x.content = content
    BY <2>3, StartIs
  <2> QED
    BY <2>4, <2>5
<1>4. "start" # "end"
  OBVIOUS
<1>5. n + 1 \in Closing(doc) => Open(doc, n + 1) >= 0
  BY DEF Balanced
<1> HIDE DEF x
<1>6. CASE x.node = "start" /\ x.content
  <2>1. Open(doc, n + 1) = d + 1
    BY <1>2, <1>4, <1>6, OpenNext
  <2>2. DepthAfter(x, d) = d + 1
    BY <1>6 DEF DepthAfter, Deeper
  <2> QED
    BY <1>2, <1>6, <2>1, <2>2 DEF x
<1>7. CASE x.node = "end"
  <2>1. Open(doc, n + 1) = d - 1
    BY <1>2, <1>4, <1>7, OpenNext
  <2>2. d - 1 >= 0 /\ d # 0
    BY <1>2, <1>5, <1>7, <2>1
  <2>3. DepthAfter(x, d) = d - 1
    BY <1>4, <1>7, <2>2 DEF DepthAfter
  <2> QED
    BY <1>2, <1>4, <1>7, <2>1, <2>2, <2>3 DEF x
<1>8. CASE x.node # "end" /\ ~(x.node = "start" /\ x.content)
  <2>1. Open(doc, n + 1) = d
    BY <1>2, <1>8, OpenNext
  <2>2. DepthAfter(x, d) = d
    BY <1>3, <1>8 DEF DepthAfter, Deeper
  <2> QED
    BY <1>2, <1>8, <2>1, <2>2 DEF x
<1> QED
  BY <1>6, <1>7, <1>8

\* A node more is read.
LEMMA ReadUptoStep ==
  ASSUME NEW S, NEW doc \in Seq(S), \A x \in S : WellFormed(x), Balanced(doc), NEW n \in Nat, n < Len(doc),
         ReadUpto(doc, n)
  PROVE  ReadUpto(doc, n + 1)
<1> DEFINE x == doc[n + 1]
           s == SubSeq(doc, 1, n)
           t == SubSeq(doc, 1, n + 1)
           e == Written(s)
           f == Written(t)
           d == Open(doc, n)
           c == n + Turns(doc, n)
           k == Turns(doc, n)
<1>1. x \in S /\ WellFormed(x) /\ s \in Seq(S) /\ t = Append(s, x)
  <2>1. x \in S /\ s \in Seq(S) /\ t = Append(s, x)
    BY PrefixFacts
  <2> QED
    BY <2>1
<1>2. e \in Encoders /\ PageIs(e.page, doc, n) /\ d \in Nat /\ (RoomUpto(doc, n) => d \in Depths)
      /\ Reads(e.out, RoomUpto(doc, n), CleanDoc(s), e.page, d, c)
  BY DEF ReadUpto
<1> HIDE DEF x, s, t
<1>3. f = EncodeNode(e, x)
  BY <1>1, WriteAppend DEF Written
<1> HIDE DEF e, f
<1>4. f \in Encoders /\ f.page = PageAfter(x, e.page) /\ f.out = e.out \o NodeBytes(x, e.page)
  BY <1>1, <1>2, <1>3, NodeWritten
<1>5. /\ n + 1 \in Switches(doc) <=> x.node = "start" /\ x.tag[1] # e.page
      /\ PageIs(f.page, doc, n + 1)
  BY <1>2, <1>4, PageNext DEF x
<1>6. /\ Open(doc, n + 1) = DepthAfter(x, d) /\ Open(doc, n + 1) \in Nat
      /\ n + 1 \in Opening(doc) <=> x.node = "start" /\ x.content
      /\ x.node = "start" /\ x.content => Open(doc, n + 1) = d + 1
      /\ ~(x.node = "start" /\ x.content) => Open(doc, n + 1) <= d
  BY <1>2, NodeCounts DEF x
<1> HIDE DEF d
<1>7. k \in Nat /\ (n + 1) + Turns(doc, n + 1) = c + Tokens(x, e.page)
  <2>1. /\ k \in Nat
        /\ n + 1 \in Switches(doc) => Turns(doc, n + 1) = k + 1
        /\ n + 1 \notin Switches(doc) => Turns(doc, n + 1) = k
    BY CountNext DEF Turns
  <2>2. Tokens(x, e.page) = IF n + 1 \in Switches(doc) THEN 2 ELSE 1
    BY <1>5 DEF Tokens, Turn
  <2> HIDE DEF k
  <2>3. (n + 1) + Turns(doc, n + 1) = n + k + Tokens(x, e.page)
    BY <2>1, <2>2
  <2> QED
    BY <2>1, <2>3 DEF k
<1>8. Tokens(x, e.page) \in Nat /\ c \in Nat /\ c <= c + Tokens(x, e.page)
  <2>1. Tokens(x, e.page) \in Nat
    BY DEF Tokens, Turn
  <2> QED
    BY <1>7, <2>1
<1>9. RoomUpto(doc, n + 1) <=> RoomUpto(doc, n) /\ RoomFor(x, d, c + Tokens(x, e.page))
  <2>1. (\A i \in Opening(doc) \cap 1..n + 1 : Open(doc, i) <= MAX_NESTING) <=>
          /\ \A i \in Opening(doc) \cap 1..n : Open(doc, i) <= MAX_NESTING
          /\ n + 1 \in Opening(doc) => Open(doc, n + 1) <= MAX_NESTING
    <3>1. \A i : i \in 1..n + 1 <=> i \in 1..n \/ i = n + 1
      OBVIOUS
    <3> QED
      BY <3>1
  <2>2. RoomFor(x, d, c + Tokens(x, e.page)) <=>
          /\ (n + 1) + Turns(doc, n + 1) <= MAX_TOKENS
          /\ n + 1 \in Opening(doc) => Open(doc, n + 1) <= MAX_NESTING
    BY <1>6, <1>7 DEF RoomFor
  <2>3. (n + 1) + Turns(doc, n + 1) <= MAX_TOKENS => c <= MAX_TOKENS
    BY <1>7, <1>8, LimitsAssumption
  <2> QED
    BY <2>1, <2>2, <2>3 DEF RoomUpto
<1>10. Reads(f.out, RoomUpto(doc, n + 1), CleanDoc(t), f.page, Open(doc, n + 1), (n + 1) + Turns(doc, n + 1))
  <2>1. CASE RoomUpto(doc, n)
    <3>1. Between(ReadOf(e.out), CleanDoc(s), e.page, d, c) /\ d \in Depths
      BY <1>2, <2>1 DEF Reads
    <3>2. c \in Counts
      BY <1>8, <2>1 DEF RoomUpto, Counts
    <3>3. Reads(EncodeNode(e, x).out, RoomFor(x, d, c + Tokens(x, e.page)), Append(CleanDoc(s), Clean(x)),
                EncodeNode(e, x).page, DepthAfter(x, d), c + Tokens(x, e.page))
      BY <1>1, <1>2, <3>1, <3>2, NodeRead
    <3>4. CleanDoc(t) = Append(CleanDoc(s), Clean(x))
      BY <1>1, CleanAppend DEF CleanDoc
    <3> HIDE DEF c
    <3> QED
      BY <1>3, <1>6, <1>7, <1>9, <2>1, <3>3, <3>4 DEF Reads
  <2>2. CASE ~RoomUpto(doc, n)
    <3>1. e.out \in Seq(Byte) /\ Refused(ReadOf(e.out))
      BY <1>2, <2>2 DEF Reads
    <3>2. NodeBytes(x, e.page) \in Seq(Byte)
      BY <1>1, <1>2, BytesIs DEF Encoders
    <3>3. f.out \in Seq(Byte) /\ Refused(ReadOf(f.out))
      BY <1>4, <3>1, <3>2, RefusedStays, Concat3
    <3> QED
      BY <1>9, <2>2, <3>3 DEF Reads
  <2> QED
    BY <2>1, <2>2
<1>11. RoomUpto(doc, n + 1) => Open(doc, n + 1) \in Depths
  <2>1. RoomUpto(doc, n + 1) => d \in Depths /\ RoomFor(x, d, c + Tokens(x, e.page))
    BY <1>2, <1>9
  <2> QED
    BY <1>6, <2>1, LimitsAssumption DEF RoomFor, Depths
<1> QED
  BY <1>4, <1>5, <1>6, <1>10, <1>11 DEF ReadUpto, f, t

\* Every balanced document of well-formed nodes, of any length, is read as it is
\* written, its texts without their NULs, when it is within the decoder's limits;
\* and is refused for a limit when it is not (decode_document after encode_document).
THEOREM DocumentRead ==
  ASSUME NEW S, NEW doc \in Seq(S), \A x \in S : WellFormed(x), Balanced(doc)
  PROVE  /\ WithinLimits(doc) => decode_document(encode_document(doc)) = Decoded(CleanDoc(doc))
         /\ ~WithinLimits(doc) => Refused(decode_document(encode_document(doc)))
<1> DEFINE T == {n \in Nat : n <= Len(doc) => ReadUpto(doc, n)}
           L == Len(doc)
<1>1. L \in Nat /\ SubSeq(doc, 1, 0) = <<>> /\ SubSeq(doc, 1, L) = doc /\ DOMAIN doc = 1..L
  BY PrefixFacts
<1>2. 0 \in T
  <2>1. Written(<<>>) = Fresh /\ Fresh \in Encoders /\ Fresh.page = 0 /\ Fresh.out = Header
    BY WriteEmpty, HeaderRead DEF Written, Fresh, Encoders, Byte
  <2>2. Before(doc, 0 + 1) = {}
    BY <1>1 DEF Before, Starts
  <2>3. Open(doc, 0) = 0 /\ Turns(doc, 0) = 0 /\ 0 \in Depths
    BY OpenNext, CountNext, LimitsAssumption DEF Turns, Depths
  <2>4. RoomUpto(doc, 0)
    <3>1. Opening(doc) \cap 1..0 = {} /\ 0 + 0 <= MAX_TOKENS
      BY LimitsAssumption
    <3> QED
      BY <2>3, <3>1 DEF RoomUpto
  <2>5. CleanDoc(<<>>) = <<>>
    <3>1. CleanDoc(<<>>) \in [1..0 -> {}]
      BY DEF CleanDoc
    <3>2. CleanDoc(<<>>) \in Seq({}) /\ Len(CleanDoc(<<>>)) = 0
      BY <3>1
    <3> QED
      BY <3>2
  <2>6. Reads(Header, RoomUpto(doc, 0), <<>>, 0, 0, 0 + Turns(doc, 0))
    BY <2>3, <2>4, HeaderRead DEF Reads
  <2>7. PageIs(0, doc, 0)
    BY <2>2 DEF PageIs
  <2> QED
    <3> DEFINE s == SubSeq(doc, 1, 0)
               e == Written(s)
    <3>1. e \in Encoders /\ e.page = 0 /\ e.out = Header /\ CleanDoc(s) = <<>>
      BY <1>1, <2>1, <2>5
    <3> HIDE DEF e, s
    <3>2. Open(doc, 0) \in Nat /\ Open(doc, 0) \in Depths /\ PageIs(e.page, doc, 0)
      BY <2>3, <2>7, <3>1
    <3>3. Reads(e.out, RoomUpto(doc, 0), CleanDoc(s), e.page, Open(doc, 0), 0 + Turns(doc, 0))
      BY <2>3, <2>6, <3>1 DEF Reads
    <3>4. ReadUpto(doc, 0)
      BY <3>1, <3>2, <3>3 DEF ReadUpto, e, s
    <3> QED
      BY <3>4
<1>3. ASSUME NEW n \in Nat, n \in T PROVE n + 1 \in T
  BY <1>1, <1>3, ReadUptoStep
<1>4. \A n \in Nat : n \in T
  <2> HIDE DEF T
  <2> QED
    BY <1>2, <1>3, NatInd
<1>5. ReadUpto(doc, L)
  BY <1>1, <1>4
<1> HIDE DEF L
<1>6. RoomUpto(doc, L) <=> WithinLimits(doc)
  <2>1. Switches(doc) \cap 1..L = Switches(doc) /\ Opening(doc) \cap 1..L = Opening(doc)
    BY <1>1 DEF Switches, Opening, Starts
  <2> QED
    BY <2>1 DEF RoomUpto, WithinLimits, Turns, L
<1> DEFINE out == Written(doc).out
<1>7. Reads(out, WithinLimits(doc), CleanDoc(doc), Written(doc).page, Open(doc, L), L + Turns(doc, L))
  BY <1>1, <1>5, <1>6 DEF ReadUpto, Reads
<1>8. encode_document(doc) = out
  BY DEF encode_document, Written, Fresh
<1>9. decode_document(out) = LET st == ReadOf(out) IN
        IF st.error # "none" THEN st
        ELSE CASE st.mode = "token" -> Decoded(st.nodes) [] st.mode = "version" -> Fail("Empty") [] OTHER -> Fail("UnexpectedEof")
  BY DEF decode_document, ReadOf
<1> HIDE DEF out
<1>10. WithinLimits(doc) => decode_document(out) = Decoded(CleanDoc(doc))
  BY <1>7, <1>9 DEF Reads, Between, Is
<1>11. ~WithinLimits(doc) => Refused(decode_document(out))
  BY <1>7, <1>9 DEF Reads, Refused
<1> QED
  BY <1>8, <1>10, <1>11

-----------------------------------------------------------------------------
(* What is read of any bytes can be written *)

\* The nodes that are ever read.
OpenTags  == {Start(tag, TRUE) : tag \in Byte \X (0..63)}
EmptyTags == {Start(tag, FALSE) : tag \in Byte \X ((0..63) \ {SWITCH_PAGE, END, STR_I})}
TextNodes == {Text(s) : s \in {t \in Seq(Char) : Utf8(t)}}
OpaqueNodes == {Opaque(s) : s \in {t \in Seq(Byte) : Len(t) < Word}}
ReadNodes == {End} \cup OpenTags \cup EmptyTags \cup TextNodes \cup OpaqueNodes

\* They are well-formed and have no NULs, and every kind is one of them.
LEMMA ReadNodesAre ==
  /\ \A n \in ReadNodes : WellFormed(n) /\ Clean(n) = n
  /\ End \in ReadNodes
  /\ \A page, token, content : IsStart(Start(<<page, token>>, content), page, token, content) =>
       Start(<<page, token>>, content) \in ReadNodes
  /\ \A s \in Seq(Char) : Utf8(s) => Text(s) \in ReadNodes
  /\ \A s \in Seq(Byte) : Len(s) < Word => Opaque(s) \in ReadNodes
<1>2. ASSUME NEW n \in ReadNodes PROVE WellFormed(n) /\ Clean(n) = n
  <2>1. CASE n = End
    BY <2>1, WellFormedIs, KindIs, CleanOther
  <2>2. ASSUME NEW page \in Byte, NEW token \in 0..63, NEW content \in BOOLEAN, n = Start(<<page, token>>, content),
               content \/ token \notin {SWITCH_PAGE, END, STR_I}
        PROVE  WellFormed(n) /\ Clean(n) = n
    <3>1. IsStart(n, page, token, content)
      BY <2>2 DEF IsStart
    <3>2. WellFormed(n)
      BY <3>1, WellFormedIs
    <3>3. n.node = "start"
      BY <3>1, StartIs
    <3> QED
      BY <3>2, <3>3, CleanOther
  <2>3. ASSUME NEW s \in Seq(Char), Utf8(s), n = Text(s) PROVE WellFormed(n) /\ Clean(n) = n
    <3>1. n.node = "text" /\ n.data = s
      BY <2>3 DEF Text
    <3>2. s \in Seq(Byte)
      BY DEF Char, Byte
    <3>3. IsText(n)
      BY <2>3, <3>1, <3>2 DEF IsText
    <3>4. Clean(n) = Text(WithoutNul(s))
      BY <3>1 DEF Clean
    <3>5. WithoutNul(s) = s
      BY WithoutNulSame
    <3> QED
      BY <2>3, <3>3, <3>4, <3>5, WellFormedIs
  <2>4. ASSUME NEW s \in Seq(Byte), Len(s) < Word, n = Opaque(s) PROVE WellFormed(n) /\ Clean(n) = n
    <3>1. n.node = "opaque" /\ n.data = s
      BY <2>4 DEF Opaque
    <3>2. IsOpaque(n)
      BY <2>4, <3>1 DEF IsOpaque
    <3> QED
      BY <3>1, <3>2, WellFormedIs, CleanOther
  <2>5. ASSUME NEW page \in Byte, NEW token \in 0..63, n = Start(<<page, token>>, TRUE) PROVE WellFormed(n) /\ Clean(n) = n
    BY <2>2, <2>5
  <2>6. ASSUME NEW page \in Byte, NEW token \in (0..63) \ {SWITCH_PAGE, END, STR_I}, n = Start(<<page, token>>, FALSE)
        PROVE  WellFormed(n) /\ Clean(n) = n
    BY <2>2, <2>6
  <2>7. CASE n \in OpenTags
    <3>1. PICK tag \in Byte \X (0..63) : n = Start(tag, TRUE)
      BY <2>7 DEF OpenTags
    <3>2. tag = <<tag[1], tag[2]>> /\ tag[1] \in Byte /\ tag[2] \in 0..63
      OBVIOUS
    <3> QED
      BY <2>5, <3>1, <3>2
  <2>8. CASE n \in EmptyTags
    <3>1. PICK tag \in Byte \X ((0..63) \ {SWITCH_PAGE, END, STR_I}) : n = Start(tag, FALSE)
      BY <2>8 DEF EmptyTags
    <3>2. tag = <<tag[1], tag[2]>> /\ tag[1] \in Byte /\ tag[2] \in (0..63) \ {SWITCH_PAGE, END, STR_I}
      OBVIOUS
    <3> QED
      BY <2>6, <3>1, <3>2
  <2>9. CASE n \in TextNodes
    BY <2>3, <2>9 DEF TextNodes
  <2>10. CASE n \in OpaqueNodes
    BY <2>4, <2>10 DEF OpaqueNodes
  <2> QED
    BY <2>1, <2>7, <2>8, <2>9, <2>10 DEF ReadNodes
<1>3. ASSUME NEW page, NEW token, NEW content, IsStart(Start(<<page, token>>, content), page, token, content)
      PROVE  Start(<<page, token>>, content) \in ReadNodes
  <2>1. page \in Byte /\ token \in 0..63 /\ content \in BOOLEAN /\ (content \/ token \notin {SWITCH_PAGE, END, STR_I})
    BY <1>3 DEF IsStart
  <2>2. CASE content = TRUE
    <3>1. <<page, token>> \in Byte \X (0..63)
      BY <2>1
    <3>2. Start(<<page, token>>, TRUE) \in OpenTags
      BY <3>1 DEF OpenTags
    <3> QED
      BY <2>2, <3>2 DEF ReadNodes
  <2>3. CASE content = FALSE
    <3>1. token \in (0..63) \ {SWITCH_PAGE, END, STR_I}
      BY <2>1, <2>3
    <3>2. <<page, token>> \in Byte \X ((0..63) \ {SWITCH_PAGE, END, STR_I})
      BY <2>1, <3>1
    <3>3. Start(<<page, token>>, FALSE) \in EmptyTags
      BY <3>2 DEF EmptyTags
    <3> QED
      BY <2>3, <3>3 DEF ReadNodes
  <2> QED
    BY <2>1, <2>2, <2>3
<1>4. \A s \in Seq(Char) : Utf8(s) => Text(s) \in TextNodes
  BY DEF TextNodes
<1>5. \A s \in Seq(Byte) : Len(s) < Word => Opaque(s) \in OpaqueNodes
  BY DEF OpaqueNodes
<1>6. End \in ReadNodes /\ TextNodes \subseteq ReadNodes /\ OpaqueNodes \subseteq ReadNodes
  BY DEF ReadNodes
<1> QED
  BY <1>2, <1>3, <1>4, <1>5, <1>6

\* The nodes ns can be written, and are read again with no more than c tokens,
\* the ones of a switch to the page p that was read last included.
Again(ns, p, d, c) ==
  /\ ns \in Seq(ReadNodes) /\ p \in Byte /\ d \in Depths /\ c \in Counts
  /\ Written(ns) \in Encoders
  /\ \E k \in Counts : /\ Between(ReadOf(Written(ns).out), ns, Written(ns).page, d, k)
                       /\ k + Turn(Written(ns).page, p) <= c

\* A node more that was read can be written too, on the page it was read on.
LEMMA AgainNext ==
  ASSUME NEW ns, NEW p, NEW d, NEW c, Again(ns, p, d, c), c + 1 \in Counts, NEW x \in ReadNodes,
         x.node = "start" => x.tag[1] = p, x.node = "start" /\ x.content => d + 1 <= MAX_NESTING
  PROVE  Again(Append(ns, x), p, DepthAfter(x, d), c + 1)
<1> DEFINE e == Written(ns)
           f == Written(Append(ns, x))
<1>1. /\ ns \in Seq(ReadNodes) /\ p \in Byte /\ d \in Depths /\ c \in Counts /\ e \in Encoders
      /\ WellFormed(x) /\ Clean(x) = x
  BY ReadNodesAre DEF Again
<1>2. PICK k \in Counts : Between(ReadOf(e.out), ns, e.page, d, k) /\ k + Turn(e.page, p) <= c
  BY DEF Again
<1>3. f = EncodeNode(e, x) /\ Append(ns, x) \in Seq(ReadNodes)
  <2>1. Append(ns, x) \in Seq(ReadNodes)
    BY <1>1
  <2>2. Written(Append(ns, x)) = EncodeNode(Written(ns), x)
    BY <1>1, WriteAppend DEF Written
  <2> QED
    BY <2>1, <2>2
<1> HIDE DEF e, f
<1>4. f \in Encoders /\ f.page = PageAfter(x, e.page)
  BY <1>1, <1>3, NodeWritten
<1> DEFINE m == k + Tokens(x, e.page)
<1>5. m \in Counts /\ m + Turn(f.page, p) <= c + 1
  <2>1. CASE x.node = "start"
    <3>1. Tokens(x, e.page) = Turn(e.page, p) + 1 /\ f.page = p
      BY <1>4, <2>1 DEF Tokens, PageAfter
    <3>2. Turn(p, p) = 0 /\ Turn(e.page, p) \in Nat
      BY DEF Turn
    <3> QED
      BY <1>1, <1>2, <3>1, <3>2, LimitsAssumption DEF Counts
  <2>2. CASE x.node # "start"
    <3>1. Tokens(x, e.page) = 1 /\ f.page = e.page
      BY <1>4, <2>2 DEF Tokens, PageAfter
    <3>2. Turn(e.page, p) \in Nat
      BY DEF Turn
    <3> QED
      BY <1>1, <1>2, <3>1, <3>2, LimitsAssumption DEF Counts
  <2> QED
    BY <2>1, <2>2
<1>6. RoomFor(x, d, m)
  BY <1>5 DEF RoomFor, Counts
<1> HIDE DEF m
<1>7. Between(ReadOf(f.out), Append(ns, x), f.page, DepthAfter(x, d), m)
  <2>1. Reads(EncodeNode(e, x).out, RoomFor(x, d, k + Tokens(x, e.page)), Append(ns, Clean(x)),
              EncodeNode(e, x).page, DepthAfter(x, d), k + Tokens(x, e.page))
    BY <1>1, <1>2, NodeRead
  <2> QED
    BY <1>1, <1>3, <1>6, <2>1 DEF Reads, m
<1>8. DepthAfter(x, d) \in Depths
  BY <1>1, LimitsAssumption DEF DepthAfter, Deeper, Depths
<1> QED
  BY <1>1, <1>3, <1>4, <1>5, <1>7, <1>8 DEF Again, f

\* What the decoder has read of a token.
Pending(mode, num, data, left) ==
  \/ mode = "page" /\ num = 0 /\ data = <<>> /\ left = 0
  \/ mode = "string" /\ num = 0 /\ data \in Seq(Char) /\ left = 0
  \/ mode = "length" /\ num \in Nat /\ data = <<>> /\ left = 0
  \/ mode = "opaque" /\ num = 0 /\ data \in Seq(Byte) /\ left \in Nat \ {0} /\ Len(data) + left < Word

\* The decoder, whatever bytes it has read.
Understood(st) ==
  \/ st.error # "none"
  \/ Is(st, "version", <<>>, 0, <<>>, 0, 0, 0, 0)
  \/ \E mode \in {"public", "charset", "table"}, num \in Nat : Is(st, mode, <<>>, num, <<>>, 0, 0, 0, 0)
  \/ \E ns, p, d, c :
       /\ Again(ns, p, d, c)
       /\ \/ Between(st, ns, p, d, c)
          \/ c + 1 \in Counts /\ \E mode, num, data, left :
               Is(st, mode, ns, num, data, left, p, d, c + 1) /\ Pending(mode, num, data, left)

\* Between two tokens.
LEMMA UnderstoodToken ==
  ASSUME NEW st, NEW ns, NEW p, NEW d, NEW c, Between(st, ns, p, d, c), Again(ns, p, d, c)
  PROVE  Understood(st)
BY DEF Understood

\* Within a token.
LEMMA UnderstoodPending ==
  ASSUME NEW st, NEW ns, NEW p, NEW d, NEW c, Again(ns, p, d, c), c + 1 \in Counts,
         NEW mode, NEW num, NEW data, NEW left,
         Is(st, mode, ns, num, data, left, p, d, c + 1), Pending(mode, num, data, left)
  PROVE  Understood(st)
BY DEF Understood

\* After an error nothing is asked.
LEMMA FailUnderstood ==
  /\ Understood(Fail("TokenLimit")) /\ Understood(Fail("NestingLimit"))
  /\ Understood(Fail("AttributesUnsupported")) /\ Understood(Fail("InvalidUtf8"))
  /\ Understood(Fail("UnsupportedVersion")) /\ Understood(Fail("UnsupportedPublicId"))
  /\ Understood(Fail("UnsupportedCharset")) /\ Understood(Fail("StringTableUnsupported"))
BY DEF Understood, Fail

\* The next byte begins a token.
LEMMA TokenUnderstood ==
  ASSUME NEW st, NEW b \in Byte, NEW ns, NEW p, NEW d, NEW c, Again(ns, p, d, c), Between(st, ns, p, d, c)
  PROVE  Understood(Step(st, b))
<1>1. p \in Byte /\ d \in Depths /\ c \in Counts
  BY DEF Again
<1>2. CASE c = MAX_TOKENS
  <2>1. Step(st, b) = Fail("TokenLimit")
    BY <1>2, LimitStep
  <2> QED
    BY <2>1, FailUnderstood
<1>3. CASE c # MAX_TOKENS
  <2>1. c + 1 \in Counts
    BY <1>1, <1>3, LimitsAssumption DEF Counts
  <2>2. CASE b = SWITCH_PAGE
    <3>1. Is(Step(st, b), "page", ns, 0, <<>>, 0, p, d, c + 1)
      BY <1>3, <2>2, TokenStep
    <3> QED
      BY <2>1, <3>1, UnderstoodPending DEF Pending
  <2>3. CASE b = END
    <3>1. Between(Step(st, b), Append(ns, End), p, IF d = 0 THEN 0 ELSE d - 1, c + 1)
      BY <1>3, <2>3, TokenStep
    <3>2. DepthAfter(End, d) = IF d = 0 THEN 0 ELSE d - 1
      BY KindIs DEF DepthAfter
    <3>3. Again(Append(ns, End), p, DepthAfter(End, d), c + 1)
      BY <2>1, ReadNodesAre, KindIs, AgainNext
    <3> QED
      BY <3>1, <3>2, <3>3, UnderstoodToken
  <2>4. CASE b = STR_I
    <3>1. Is(Step(st, b), "string", ns, 0, <<>>, 0, p, d, c + 1)
      BY <1>3, <2>4, TokenStep
    <3>2. Pending("string", 0, <<>>, 0)
      BY DEF Pending
    <3> QED
      BY <2>1, <3>1, <3>2, UnderstoodPending
  <2>5. CASE b = OPAQUE
    <3>1. Is(Step(st, b), "length", ns, 0, <<>>, 0, p, d, c + 1)
      BY <1>3, <2>5, TokenStep
    <3>2. Pending("length", 0, <<>>, 0)
      BY DEF Pending
    <3> QED
      BY <2>1, <3>1, <3>2, UnderstoodPending
  <2>6. CASE b \notin {SWITCH_PAGE, END, STR_I, OPAQUE} /\ b < 64
    <3> DEFINE x == Start(<<p, b>>, FALSE)
    <3>1. b \in 0..63 /\ b \notin {SWITCH_PAGE, END, STR_I}
      BY <2>6 DEF Byte
    <3>2. Between(Step(st, b), Append(ns, x), p, d, c + 1)
      BY <1>3, <3>1, StartStep
    <3>3. IsStart(x, p, b, FALSE)
      BY <1>1, <3>1 DEF IsStart
    <3>4. x \in ReadNodes /\ x.node = "start" /\ x.tag[1] = p /\ x.content = FALSE
      BY <3>3, ReadNodesAre, StartIs
    <3> HIDE DEF x
    <3>5. DepthAfter(x, d) = d
      BY <3>4 DEF DepthAfter, Deeper
    <3>6. Again(Append(ns, x), p, DepthAfter(x, d), c + 1)
      BY <2>1, <3>4, AgainNext
    <3> QED
      BY <3>2, <3>5, <3>6, UnderstoodToken
  <2>7. CASE b >= 64 /\ b < 128
    <3> DEFINE token == b - 64
               x == Start(<<p, token>>, TRUE)
    <3>1. token \in 0..63 /\ b = token + 64
      BY <2>7 DEF Byte
    <3> HIDE DEF token
    <3>2. CASE d = MAX_NESTING
      <4>1. Step(st, token + 64) = Fail("NestingLimit")
        BY <1>3, <3>1, <3>2, StartStep
      <4> QED
        BY <3>1, <4>1, FailUnderstood
    <3>3. CASE d # MAX_NESTING
      <4>1. Between(Step(st, token + 64), Append(ns, x), p, d + 1, c + 1)
        BY <1>3, <3>1, <3>3, StartStep
      <4>2. IsStart(x, p, token, TRUE)
        BY <1>1, <3>1 DEF IsStart
      <4>3. x \in ReadNodes /\ x.node = "start" /\ x.tag[1] = p /\ x.content = TRUE
        BY <4>2, ReadNodesAre, StartIs
      <4> HIDE DEF x
      <4>4. DepthAfter(x, d) = d + 1 /\ d + 1 <= MAX_NESTING
        BY <1>1, <3>3, <4>3, LimitsAssumption DEF DepthAfter, Deeper, Depths
      <4>5. Again(Append(ns, x), p, DepthAfter(x, d), c + 1)
        BY <2>1, <4>3, <4>4, AgainNext
      <4> QED
        BY <3>1, <4>1, <4>4, <4>5, UnderstoodToken
    <3> QED
      BY <3>2, <3>3
  <2>8. CASE b >= 128 /\ b # OPAQUE
    <3>1. Step(st, b) = Fail("AttributesUnsupported")
      <4>1. b # SWITCH_PAGE /\ b # END /\ b # STR_I /\ st.error = "none" /\ st.mode = "token" /\ st.count = c
        BY <2>8 DEF SWITCH_PAGE, END, STR_I, Byte, Between, Is
      <4>2. Step(st, b) = ReadStart([st EXCEPT !.count = @ + 1], b)
        BY <1>3, <2>8, <4>1, StepIs DEF ReadToken
      <4> QED
        BY <2>8, <4>2 DEF ReadStart
    <3> QED
      BY <3>1, FailUnderstood
  <2> QED
    BY <2>2, <2>3, <2>4, <2>5, <2>6, <2>7, <2>8 DEF Byte
<1> QED
  BY <1>2, <1>3

\* The next byte goes on with it.
LEMMA PendingUnderstood ==
  ASSUME NEW st, NEW b \in Byte, NEW ns, NEW p, NEW d, NEW c, Again(ns, p, d, c), c + 1 \in Counts,
         NEW mode, NEW num, NEW data, NEW left,
         Is(st, mode, ns, num, data, left, p, d, c + 1), Pending(mode, num, data, left)
  PROVE  Understood(Step(st, b))
<1>1. p \in Byte /\ d \in Depths /\ c \in Counts
  BY DEF Again
<1>2. CASE mode = "page"
  <2>1. Is(st, "page", ns, 0, <<>>, 0, p, d, c + 1)
    BY <1>2 DEF Pending
  <2>2. Between(Step(st, b), ns, b, d, c + 1)
    BY <2>1, PageStep
  <2>3. Again(ns, b, d, c + 1)
    <3>1. PICK k \in Counts : Between(ReadOf(Written(ns).out), ns, Written(ns).page, d, k) /\ k + Turn(Written(ns).page, p) <= c
      BY DEF Again
    <3>2. k + Turn(Written(ns).page, b) <= c + 1
      BY <1>1, <3>1 DEF Turn, Counts
    <3> QED
      BY <3>1, <3>2 DEF Again
  <2> QED
    BY <2>2, <2>3, UnderstoodToken
<1>3. CASE mode = "string"
  <2>1. Is(st, "string", ns, 0, data, 0, p, d, c + 1) /\ data \in Seq(Char)
    BY <1>3 DEF Pending
  <2>2. CASE b # 0
    <3>1. Is(Step(st, b), "string", ns, 0, Append(data, b), 0, p, d, c + 1)
      BY <2>1, <2>2, StringStep
    <3>2. b \in Char
      BY <2>2 DEF Byte, Char
    <3>3. Append(data, b) \in Seq(Char)
      BY <2>1, <3>2
    <3>4. Pending("string", 0, Append(data, b), 0)
      BY <3>3 DEF Pending
    <3> QED
      BY <3>1, <3>4, UnderstoodPending
  <2>3. CASE b = 0 /\ Utf8(data)
    <3>1. Between(Step(st, b), Append(ns, Text(data)), p, d, c + 1)
      BY <2>1, <2>3, StringStep
    <3>2. Text(data) \in ReadNodes /\ Text(data).node = "text"
      BY <2>1, <2>3, ReadNodesAre DEF Text
    <3>3. DepthAfter(Text(data), d) = d
      BY <3>2 DEF DepthAfter
    <3>4. Again(Append(ns, Text(data)), p, DepthAfter(Text(data), d), c + 1)
      BY <3>2, AgainNext
    <3> QED
      BY <3>1, <3>3, <3>4, UnderstoodToken
  <2>4. CASE b = 0 /\ ~Utf8(data)
    <3>1. Step(st, b) = Fail("InvalidUtf8")
      BY <2>1, <2>4, StringStep
    <3> QED
      BY <3>1, FailUnderstood
  <2> QED
    BY <2>2, <2>3, <2>4
<1>4. ASSUME NEW s \in Seq(Byte), Len(s) < Word, Between(Step(st, b), Append(ns, Opaque(s)), p, d, c + 1)
      PROVE  Understood(Step(st, b))
  <2>1. Opaque(s) \in ReadNodes /\ Opaque(s).node = "opaque"
    BY <1>4, ReadNodesAre DEF Opaque
  <2>2. DepthAfter(Opaque(s), d) = d
    BY <2>1 DEF DepthAfter
  <2>3. Again(Append(ns, Opaque(s)), p, DepthAfter(Opaque(s), d), c + 1)
    BY <2>1, AgainNext
  <2> QED
    BY <1>4, <2>2, <2>3, UnderstoodToken
<1>5. CASE mode = "length"
  <2> DEFINE n == Integer(num, b)
  <2>1. Is(st, "length", ns, num, <<>>, 0, p, d, c + 1) /\ num \in Nat
    BY <1>5 DEF Pending
  <2>2. n \in Nat /\ n < Word
    BY <2>1, WordAssumption DEF Integer, Byte
  <2>6. n = Integer(num, b)
    OBVIOUS
  <2> HIDE DEF n
  <2>7. /\ b >= 128 => Is(Step(st, b), "length", ns, n, <<>>, 0, p, d, c + 1)
        /\ b < 128 => IF n = 0 THEN Between(Step(st, b), Append(ns, Opaque(<<>>)), p, d, c + 1)
                      ELSE Is(Step(st, b), "opaque", ns, 0, <<>>, n, p, d, c + 1)
    BY <2>1, <2>6, IntegerStep
  <2>3. CASE b >= 128
    <3>1. Is(Step(st, b), "length", ns, n, <<>>, 0, p, d, c + 1)
      BY <2>3, <2>7
    <3>2. Pending("length", n, <<>>, 0)
      BY <2>2 DEF Pending
    <3> QED
      BY <3>1, <3>2, UnderstoodPending
  <2>4. CASE b < 128 /\ n = 0
    <3>1. Between(Step(st, b), Append(ns, Opaque(<<>>)), p, d, c + 1)
      BY <2>4, <2>7
    <3>2. <<>> \in Seq(Byte) /\ Len(<<>>) < Word
      BY WordAssumption
    <3> QED
      BY <1>4, <3>1, <3>2
  <2>5. CASE b < 128 /\ n # 0
    <3>1. Is(Step(st, b), "opaque", ns, 0, <<>>, n, p, d, c + 1)
      BY <2>5, <2>7
    <3>2. <<>> \in Seq(Byte) /\ Len(<<>>) + n < Word
      BY <2>2
    <3>3. Pending("opaque", 0, <<>>, n)
      BY <2>2, <2>5, <3>2 DEF Pending
    <3> QED
      BY <3>1, <3>3, UnderstoodPending
  <2> QED
    BY <2>3, <2>4, <2>5 DEF Byte
<1>6. CASE mode = "opaque"
  <2>1. Is(st, "opaque", ns, 0, data, left, p, d, c + 1) /\ data \in Seq(Byte) /\ left \in Nat \ {0} /\ Len(data) + left < Word
    BY <1>6 DEF Pending
  <2>2. Append(data, b) \in Seq(Byte) /\ Len(Append(data, b)) = Len(data) + 1 /\ Len(data) \in Nat
    BY <2>1
  <2>3. CASE left = 1
    <3>1. Between(Step(st, b), Append(ns, Opaque(Append(data, b))), p, d, c + 1)
      BY <2>1, <2>3, OpaqueStep
    <3> QED
      BY <1>4, <2>1, <2>2, <2>3, <3>1
  <2>4. CASE left # 1
    <3>1. Is(Step(st, b), "opaque", ns, 0, Append(data, b), left - 1, p, d, c + 1)
      BY <2>1, <2>4, OpaqueStep
    <3>2. Len(Append(data, b)) + (left - 1) < Word /\ left - 1 \in Nat \ {0}
      BY <2>1, <2>2, <2>4
    <3>3. Pending("opaque", 0, Append(data, b), left - 1)
      BY <2>2, <3>2 DEF Pending
    <3> QED
      BY <3>1, <3>3, UnderstoodPending
  <2> QED
    BY <2>3, <2>4
<1> QED
  BY <1>2, <1>3, <1>5, <1>6 DEF Pending

\* The decoder starts a document after its header.
LEMMA AgainEmpty == Again(<<>>, 0, 0, 0)
<1>1. Written(<<>>) = Fresh /\ Fresh \in Encoders /\ Fresh.page = 0 /\ Fresh.out = Header
  BY WriteEmpty, HeaderRead DEF Written, Fresh, Encoders, Byte
<1>2. Between(ReadOf(Header), <<>>, 0, 0, 0) /\ Turn(0, 0) = 0
  BY HeaderRead DEF Turn
<1>3. 0 \in Byte /\ 0 \in Depths /\ 0 \in Counts /\ <<>> \in Seq(ReadNodes) /\ 0 + 0 <= 0
  BY LimitsAssumption DEF Byte, Depths, Counts
<1> QED
  BY <1>1, <1>2, <1>3 DEF Again

\* Understood is kept by every byte.
LEMMA StepUnderstood ==
  ASSUME NEW st, NEW b \in Byte, Understood(st)
  PROVE  Understood(Step(st, b))
<1>1. CASE st.error # "none"
  <2>1. Step(st, b) = st
    BY <1>1 DEF Step
  <2> QED
    BY <1>1, <2>1 DEF Understood
<1>2. CASE Is(st, "version", <<>>, 0, <<>>, 0, 0, 0, 0)
  <2>1. IF b = 3 THEN Is(Step(st, b), "public", <<>>, 0, <<>>, 0, 0, 0, 0) ELSE Step(st, b) = Fail("UnsupportedVersion")
    BY <1>2, VersionStep
  <2>2. CASE b = 3
    BY <2>1, <2>2 DEF Understood
  <2>3. CASE b # 3
    BY <2>1, <2>3, FailUnderstood
  <2> QED
    BY <2>2, <2>3
<1>3. ASSUME NEW mode \in {"public", "charset", "table"}, NEW num \in Nat, Is(st, mode, <<>>, num, <<>>, 0, 0, 0, 0)
      PROVE  Understood(Step(st, b))
  <2> DEFINE n == Integer(num, b)
  <2>1. n \in Nat
    BY WordAssumption DEF Integer, Byte
  <2>2. /\ b >= 128 => Is(Step(st, b), mode, <<>>, n, <<>>, 0, 0, 0, 0)
        /\ b < 128 => /\ mode = "public"  => IF n = 1 THEN Is(Step(st, b), "charset", <<>>, 0, <<>>, 0, 0, 0, 0)
                                             ELSE Step(st, b) = Fail("UnsupportedPublicId")
                      /\ mode = "charset" => IF n = 106 THEN Is(Step(st, b), "table", <<>>, 0, <<>>, 0, 0, 0, 0)
                                             ELSE Step(st, b) = Fail("UnsupportedCharset")
                      /\ mode = "table"   => IF n = 0 THEN Between(Step(st, b), <<>>, 0, 0, 0)
                                             ELSE Step(st, b) = Fail("StringTableUnsupported")
    <3>1. n = Integer(num, b) /\ mode \in {"public", "charset", "table", "length"}
      OBVIOUS
    <3> HIDE DEF n
    <3> QED
      BY <1>3, <3>1, IntegerStep, SMTT(60)
  <2> HIDE DEF n
  <2>3. CASE b >= 128
    BY <2>1, <2>2, <2>3 DEF Understood
  <2>4. CASE b < 128 /\ mode = "public"
    BY <2>2, <2>4, FailUnderstood DEF Understood
  <2>5. CASE b < 128 /\ mode = "charset"
    BY <2>2, <2>5, FailUnderstood DEF Understood
  <2>6. CASE b < 128 /\ mode = "table"
    BY <2>2, <2>6, FailUnderstood, AgainEmpty, UnderstoodToken
  <2> QED
    BY <2>3, <2>4, <2>5, <2>6 DEF Byte
<1>4. ASSUME NEW ns, NEW p, NEW d, NEW c, Again(ns, p, d, c), Between(st, ns, p, d, c)
      PROVE  Understood(Step(st, b))
  BY <1>4, TokenUnderstood
<1>5. ASSUME NEW ns, NEW p, NEW d, NEW c, Again(ns, p, d, c), c + 1 \in Counts, NEW mode, NEW num, NEW data, NEW left,
             Is(st, mode, ns, num, data, left, p, d, c + 1), Pending(mode, num, data, left)
      PROVE  Understood(Step(st, b))
  BY <1>5, PendingUnderstood
<1> HIDE DEF Step
<1> QED
  BY <1>1, <1>2, <1>3, <1>4, <1>5 DEF Understood

\* It holds of the decoder whatever it has read.
LEMMA AllUnderstood ==
  ASSUME NEW bs \in Seq(Byte)
  PROVE  Understood(ReadOf(bs))
<1> DEFINE T == {n \in Nat : n <= Len(bs) => Understood(ReadOf(SubSeq(bs, 1, n)))}
<1>1. /\ Len(bs) \in Nat /\ SubSeq(bs, 1, 0) = <<>> /\ SubSeq(bs, 1, Len(bs)) = bs
      /\ \A n \in Nat : n < Len(bs) =>
           /\ bs[n + 1] \in Byte /\ SubSeq(bs, 1, n) \in Seq(Byte)
           /\ SubSeq(bs, 1, n + 1) = Append(SubSeq(bs, 1, n), bs[n + 1])
  BY PrefixFacts
<1>2. 0 \in T
  BY <1>1, ReadingIs DEF Understood
<1>3. ASSUME NEW n \in Nat, n \in T PROVE n + 1 \in T
  <2> SUFFICES ASSUME n + 1 <= Len(bs) PROVE Understood(ReadOf(SubSeq(bs, 1, n + 1)))
    OBVIOUS
  <2>1. Understood(ReadOf(SubSeq(bs, 1, n))) /\ n < Len(bs)
    BY <1>1, <1>3
  <2>2. ReadOf(SubSeq(bs, 1, n + 1)) = Step(ReadOf(SubSeq(bs, 1, n)), bs[n + 1])
    BY <1>1, <2>1, ReadNext
  <2>3. bs[n + 1] \in Byte
    BY <1>1, <2>1
  <2> QED
    BY <2>1, <2>2, <2>3, StepUnderstood
<1>4. \A n \in Nat : n \in T
  <2> HIDE DEF T
  <2> QED
    BY <1>2, <1>3, NatInd
<1>5. Len(bs) \in T
  <2> HIDE DEF T
  <2> QED
    BY <1>1, <1>4
<1>6. Understood(ReadOf(SubSeq(bs, 1, Len(bs))))
  BY <1>1, <1>5
<1> QED
  BY <1>1, <1>6

\* Whatever bytes are decoded without an error, the nodes of them are written
\* as a document that is decoded to the same nodes (decode_document, encode_document).
THEOREM BytesReread ==
  ASSUME NEW bs \in Seq(Byte), decode_document(bs).error = "none"
  PROVE  decode_document(encode_document(decode_document(bs).nodes)) = decode_document(bs)
<1> DEFINE st == ReadOf(bs)
           Result(s) == IF s.error # "none" THEN s
                        ELSE CASE s.mode = "token"   -> Decoded(s.nodes)
                               [] s.mode = "version" -> Fail("Empty")
                               [] OTHER              -> Fail("UnexpectedEof")
<1>1. \A w : decode_document(w) = Result(ReadOf(w))
  BY DEF decode_document, ReadOf
<1>2. Understood(st)
  BY AllUnderstood
<1> HIDE DEF st
<1>3. st.error = "none" /\ st.mode = "token" /\ decode_document(bs) = Decoded(st.nodes)
  <2>1. decode_document(bs) = Result(st)
    BY <1>1 DEF st
  <2>2. st.error = "none"
    BY <2>1
  <2>3. Fail("Empty").error # "none" /\ Fail("UnexpectedEof").error # "none"
    BY DEF Fail
  <2> QED
    BY <2>1, <2>2, <2>3
<1>4. PICK ns, p, d, c : Again(ns, p, d, c) /\ Between(st, ns, p, d, c)
  BY <1>2, <1>3 DEF Understood, Pending, Is
<1>5. st.nodes = ns
  BY <1>4 DEF Between, Is
<1>6. PICK k \in Counts : Between(ReadOf(Written(ns).out), ns, Written(ns).page, d, k)
  BY <1>4 DEF Again
<1>7. encode_document(ns) = Written(ns).out
  BY DEF encode_document, Written, Fresh
<1>8. decode_document(Written(ns).out) = Decoded(ns)
  BY <1>1, <1>6 DEF Between, Is
<1>9. Decoded(ns).nodes = ns
  BY DEF Decoded
<1> QED
  BY <1>3, <1>5, <1>7, <1>8, <1>9

-----------------------------------------------------------------------------
(* The specification *)

\* The nodes of the documents that are sent.
SentNodes == Nodes \cup {Start(<<0, 5>>, TRUE), Start(<<0, 5>>, FALSE)}

\* What is sent, and that it is read by decode_document.
Codec ==
  /\ sent.kind = "document" => /\ sent.meant \in Seq(SentNodes) /\ Balanced(sent.meant)
                               /\ sent.bytes = encode_document(sent.meant)
  /\ sent.kind = "bytes" => sent.bytes \in Seq(Byte)
  /\ read \in {Unread, decode_document(sent.bytes)}

\* The constants hold well-formed nodes.
LEMMA SentWellFormed == \A n \in SentNodes : WellFormed(n)
<1>1. IsStart(Start(<<0, 5>>, TRUE), 0, 5, TRUE) /\ IsStart(Start(<<0, 5>>, FALSE), 0, 5, FALSE)
  BY DEF IsStart, Byte, SWITCH_PAGE, END, STR_I
<1>2. WellFormed(Start(<<0, 5>>, TRUE)) /\ WellFormed(Start(<<0, 5>>, FALSE))
  BY <1>1, WellFormedIs
<1> QED
  BY <1>2, NodesAssumption DEF SentNodes

\* What is built from them is a sequence.
LEMMA UptoSeq ==
  ASSUME NEW S, NEW n \in Nat, NEW s \in Upto(S, n)
  PROVE  s \in Seq(S)
<1>1. PICK k \in 0..n : s \in [1..k -> S]
  BY DEF Upto
<1> QED
  BY <1>1

\* A function over the positions is a sequence, an empty one below 1.
LEMMA UptoInt ==
  ASSUME NEW S, NEW k \in Int, NEW s \in [1..k -> S]
  PROVE  s \in Seq(S)
<1>1. CASE k >= 0
  BY <1>1
<1>2. CASE k < 0
  <2>1. 1..k = 1..0
    BY <1>2
  <2>2. s \in [1..0 -> S]
    BY <2>1
  <2> QED
    BY <2>2
<1> QED
  BY <1>1, <1>2

\* Sequences of less are sequences of more.
LEMMA SeqSubset ==
  ASSUME NEW S, NEW T, S \subseteq T, NEW s \in Seq(S)
  PROVE  s \in Seq(T)
<1>1. s \in [1..Len(s) -> S] /\ Len(s) \in Nat
  OBVIOUS
<1>2. s \in [1..Len(s) -> T]
  BY <1>1
<1> QED
  BY <1>1, <1>2

\* Concatenation is closed.
LEMMA ConcatSeq ==
  ASSUME NEW S, NEW s \in Seq(S), NEW t \in Seq(S)
  PROVE  s \o t \in Seq(S)
OBVIOUS

\* Codec holds of what is sent.
LEMMA InitCodec == Init => Codec
<1>1. SUFFICES ASSUME Init PROVE Codec
  OBVIOUS
<1>2. read \in {Unread, decode_document(sent.bytes)}
  BY <1>1 DEF Init
<1>3. CASE SendDocument
  <2>1. PICK tail \in Upto(Nodes, MaxNodes), before \in {<<>>, Deep, Long} :
          /\ Balanced(before \o tail)
          /\ sent = [kind |-> "document", bytes |-> encode_document(before \o tail), meant |-> before \o tail]
    BY <1>3 DEF SendDocument
  <2>2. tail \in Seq(Nodes)
    BY BytesAssumption, UptoSeq
  <2>3. tail \in Seq(SentNodes)
    <3>1. Nodes \subseteq SentNodes
      BY DEF SentNodes
    <3> HIDE DEF SentNodes
    <3> QED
      BY <2>2, <3>1, SeqSubset
  <2>4. Deep \in Seq(SentNodes)
    <3>1. Deep \in [1..MAX_NESTING - 1 -> SentNodes] /\ MAX_NESTING - 1 \in Int
      BY LimitsAssumption DEF Deep, SentNodes
    <3> QED
      BY <3>1, UptoInt
  <2>5. Long \in Seq(SentNodes)
    <3>1. Long \in [1..MAX_TOKENS - 3 -> SentNodes] /\ MAX_TOKENS - 3 \in Int
      BY LimitsAssumption DEF Long, SentNodes
    <3> QED
      BY <3>1, UptoInt
  <2>6. before \in Seq(SentNodes)
    <3>1. <<>> \in Seq(SentNodes)
      OBVIOUS
    <3>2. before = <<>> \/ before = Deep \/ before = Long
      OBVIOUS
    <3> QED
      BY <2>4, <2>5, <3>1, <3>2, Zenon
  <2>7. before \o tail \in Seq(SentNodes)
    BY <2>3, <2>6, ConcatSeq
  <2>8. sent.kind = "document" /\ sent.kind # "bytes" /\ sent.meant = before \o tail /\ sent.bytes = encode_document(sent.meant)
    BY <2>1
  <2> QED
    BY <1>2, <2>1, <2>7, <2>8 DEF Codec
<1>4. CASE SendBytes
  <2>1. PICK tail \in Upto(Bytes, MaxBytes) : sent = [kind |-> "bytes", bytes |-> Header \o tail, meant |-> <<>>]
    BY <1>4 DEF SendBytes
  <2>2. tail \in Seq(Bytes)
    BY BytesAssumption, UptoSeq
  <2>3. tail \in Seq(Byte) /\ Header \in Seq(Byte)
    <3>1. Bytes \subseteq Byte
      BY BytesAssumption DEF Byte
    <3> HIDE DEF Byte
    <3> QED
      BY <2>2, <3>1, SeqSubset, HeaderRead
  <2>4. Header \o tail \in Seq(Byte)
    BY <2>3
  <2>5. sent.kind = "bytes" /\ sent.kind # "document" /\ sent.bytes = Header \o tail
    BY <2>1
  <2> QED
    BY <1>2, <2>4, <2>5 DEF Codec
<1>5. CASE SendHeader
  <2>1. PICK i \in 1..4, b \in Bytes : sent = [kind |-> "bytes", bytes |-> Append(SubSeq(Header, 1, i - 1), b), meant |-> <<>>]
    BY <1>5 DEF SendHeader
  <2>2. b \in Byte /\ Header \in Seq(Byte) /\ Len(Header) = 4 /\ i - 1 \in 0..4
    BY BytesAssumption, HeaderRead DEF Byte, Header
  <2>3. SubSeq(Header, 1, i - 1) \in Seq(Byte)
    BY <2>2, PrefixFacts
  <2>4. Append(SubSeq(Header, 1, i - 1), b) \in Seq(Byte)
    BY <2>2, <2>3
  <2>5. sent.kind = "bytes" /\ sent.kind # "document" /\ sent.bytes = Append(SubSeq(Header, 1, i - 1), b)
    BY <2>1
  <2> QED
    BY <1>2, <2>4, <2>5 DEF Codec
<1>6. CASE SendSync \/ SendMoves \/ SendFetch \/ SendSearch \/ SendMime
  <2>1. SendSync => sent.kind = "sync"
    BY DEF SendSync
  <2>2. SendMoves => sent.kind = "moves"
    BY DEF SendMoves
  <2>3. SendFetch => sent.kind = "fetch"
    BY DEF SendFetch
  <2>4. SendSearch => sent.kind = "search"
    BY DEF SendSearch
  <2>5. SendMime => sent.kind = "mime"
    BY DEF SendMime
  <2>6. sent.kind # "document" /\ sent.kind # "bytes"
    BY <1>6, <2>1, <2>2, <2>3, <2>4, <2>5
  <2> QED
    BY <1>2, <2>6 DEF Codec
<1> QED
  BY <1>1, <1>3, <1>4, <1>5, <1>6 DEF Init

\* Receiving it keeps Codec.
LEMMA NextCodec == Codec /\ [Receive]_vars => Codec'
<1>1. ASSUME Codec, Receive PROVE Codec'
  <2>1. sent' = sent /\ read' = decode_document(sent.bytes)
    BY <1>1 DEF Receive
  <2> QED
    BY <1>1, <2>1 DEF Codec
<1>2. ASSUME Codec, UNCHANGED vars PROVE Codec'
  <2>1. sent' = sent /\ read' = read
    BY <1>2 DEF vars
  <2> QED
    BY <1>2, <2>1 DEF Codec
<1> QED
  BY <1>1, <1>2

\* What is read is always what decode_document makes of the bytes that were
\* sent, and a document that was sent is of well-formed nodes and balanced.
THEOREM CodecTheorem == Spec => []Codec
BY InitCodec, NextCodec, PTL DEF Spec

\* RoundTrip is DocumentRead for what was sent.
LEMMA CodecRoundTrip == Codec => RoundTrip
<1>1. SUFFICES ASSUME Codec, Received("document") PROVE RoundTrip
  BY DEF RoundTrip
<1> DEFINE doc == sent.meant
<1>2. doc \in Seq(SentNodes) /\ Balanced(doc) /\ read = decode_document(encode_document(doc))
  BY <1>1 DEF Codec, Received
<1> HIDE DEF doc
<1>3. /\ WithinLimits(doc) => decode_document(encode_document(doc)) = Decoded(CleanDoc(doc))
      /\ ~WithinLimits(doc) => Refused(decode_document(encode_document(doc)))
  BY <1>2, SentWellFormed, DocumentRead
<1>4. CleanDoc(doc) = [i \in DOMAIN doc |-> LET n == doc[i] IN IF n.node = "text" THEN Text(WithoutNul(n.data)) ELSE n]
  BY DEF CleanDoc, Clean
<1>5. IF WithinLimits(doc)
        THEN read = Decoded([i \in DOMAIN doc |-> LET n == doc[i] IN IF n.node = "text" THEN Text(WithoutNul(n.data)) ELSE n])
        ELSE read.error \in {"NestingLimit", "TokenLimit"}
  BY <1>2, <1>3, <1>4 DEF Refused
<1> QED
  BY <1>5 DEF RoundTrip, doc

\* RoundTrip: a document that the encoder writes is read back node for node, or
\* is refused for a limit, for every size of documents and every limit.
THEOREM RoundTripTheorem == Spec => []RoundTrip
BY CodecTheorem, CodecRoundTrip, PTL

\* Reread is BytesReread for what was sent.
LEMMA CodecReread == Codec => Reread
<1>1. SUFFICES ASSUME Codec, Received("bytes"), read.error = "none" PROVE Reread
  BY DEF Reread
<1>2. sent.bytes \in Seq(Byte) /\ read = decode_document(sent.bytes)
  BY <1>1 DEF Codec, Received
<1>3. decode_document(encode_document(read.nodes)) = read
  BY <1>1, <1>2, BytesReread
<1> QED
  BY <1>3 DEF Reread

\* Reread: bytes that are decoded can be written again with the same meaning,
\* for every length of them.
THEOREM RereadTheorem == Spec => []Reread
BY CodecTheorem, CodecReread, PTL

=============================================================================
