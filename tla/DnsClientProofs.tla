-------------------------- MODULE DnsClientProofs ---------------------------
(***************************************************************************)
(* Proofs about DnsClient and the functions of DnsMessage, for hosts of    *)
(* any length, any records and any bytes malloc leaves.                    *)
(*                                                                         *)
(* The loops over messages are recursive functions with as many steps as   *)
(* the message has bytes or the name has labels. Loop shows that such a    *)
(* function exists, by induction on a set of numbers; Collected, that what *)
(* a loop has put into a sequence stays where it is. So a name, a request  *)
(* and an answer are known byte by byte: FullNameParts, RequestParts,      *)
(* MessageParts. NameRead and NameSkipped follow the loops of the parser   *)
(* over a name, from its last label to its first. RecordRead puts this     *)
(* together for a record, and InStep, the inductive invariant, says that   *)
(* the parser is behind record i of the answer the server wrote.           *)
(***************************************************************************)
EXTENDS DnsClient, SequenceTheorems, WellFoundedInduction, TLAPS

-----------------------------------------------------------------------------
(* Loops *)

\* A set of natural numbers has a least one.
LEMMA LeastNat ==
  ASSUME NEW S, S \subseteq Nat, S # {}
  PROVE  \E m \in S : \A n \in S : m <= n
<1>1. \E m \in S : \A n \in S : ~ (<<n, m>> \in OpToRel(<, Nat))
  BY NatLessThanWellFounded, WFMin
<1>2. PICK m \in S : \A n \in S : ~ (<<n, m>> \in OpToRel(<, Nat)) BY <1>1
<1>3. ASSUME NEW n \in S, n < m PROVE <<n, m>> \in OpToRel(<, Nat)
  <2>1. <<n, m>> \in Nat \X Nat OBVIOUS
  <2>2. <<n, m>>[1] < <<n, m>>[2] BY <1>3
  <2> QED BY <2>1, <2>2 DEF OpToRel
<1>4. \A n \in S : ~ (n < m) BY <1>2, <1>3, Zenon
<1> QED BY <1>4

\* What holds at the start and is kept by each turn holds after every turn.
LEMMA Induct ==
  ASSUME NEW N \in Nat, NEW P, 0 \in P,
         \A n \in 0 .. N : n + 1 <= N /\ n \in P => n + 1 \in P
  PROVE  \A n \in 0 .. N : n \in P
<1> DEFINE Out == {n \in 0 .. N : n \notin P}
<1>1. SUFFICES ASSUME Out # {} PROVE FALSE OBVIOUS
<1>0. Out \subseteq Nat OBVIOUS
<1>2. PICK m \in Out : \A n \in Out : m <= n
  <2> HIDE DEF Out
  <2> QED BY <1>0, <1>1, LeastNat
<1>3. m \in 1 .. N BY <1>2
<1>4. m - 1 \in 0 .. N /\ m - 1 \notin Out BY <1>2, <1>3
<1>5. m - 1 \in P BY <1>4
<1>6. (m - 1) + 1 \in P BY <1>3, <1>4, <1>5
<1> QED BY <1>2, <1>3, <1>6

\* The state after each of N turns.
Loops(f, N, first, step) ==
  f = [k \in 0 .. N |-> IF k = 0 THEN first ELSE step[k][f[k - 1]]]

\* A loop of N turns has a state after each of them: the functions by which
\* the loops of the program are written down exist.
LEMMA Loop ==
  ASSUME NEW N \in Nat, NEW S, NEW first \in S, NEW step \in [1 .. N -> [S -> S]]
  PROVE  \E f \in [0 .. N -> S] : Loops(f, N, first, step)
<1> DEFINE Goes(f, n) == f[0] = first /\ \A k \in 1 .. n : f[k] = step[k][f[k - 1]]
           P == {n \in 0 .. N : \E f \in [0 .. n -> S] : Goes(f, n)}
<1>1. 0 \in P
  <2>1. [k \in 0 .. 0 |-> first] \in [0 .. 0 -> S] OBVIOUS
  <2>2. Goes([k \in 0 .. 0 |-> first], 0) OBVIOUS
  <2>3. 0 \in 0 .. N OBVIOUS
  <2> HIDE DEF Goes
  <2> QED BY <2>1, <2>2, <2>3
<1>2. ASSUME NEW n \in 0 .. N, n + 1 <= N, n \in P PROVE n + 1 \in P
  <2>1. PICK f \in [0 .. n -> S] : Goes(f, n) BY <1>2
  <2> DEFINE g == [k \in 0 .. n + 1 |-> IF k <= n THEN f[k] ELSE step[n + 1][f[n]]]
  <2>2. step[n + 1][f[n]] \in S BY <1>2
  <2>3. g \in [0 .. n + 1 -> S] BY <2>2
  <2>4. g[0] = first BY <2>1
  <2>5. ASSUME NEW k \in 1 .. n + 1 PROVE g[k] = step[k][g[k - 1]]
    <3>1. CASE k <= n
      <4>1. g[k] = f[k] /\ g[k - 1] = f[k - 1] BY <3>1
      <4>2. k \in 1 .. n BY <3>1
      <4> QED BY <2>1, <4>1, <4>2
    <3>2. CASE k = n + 1
      <4>1. g[k] = step[n + 1][f[n]] BY <3>2
      <4>2. g[k - 1] = f[n] BY <3>2
      <4> QED BY <3>2, <4>1, <4>2
    <3> QED BY <3>1, <3>2
  <2>6. Goes(g, n + 1) BY <2>4, <2>5
  <2>7. n + 1 \in 0 .. N BY <1>2
  <2> HIDE DEF g, Goes
  <2> QED BY <2>3, <2>6, <2>7
<1>3. N \in P
  <2> HIDE DEF P
  <2>1. \A n \in 0 .. N : n \in P BY <1>1, <1>2, Induct
  <2> QED BY <2>1
<1>4. PICK f \in [0 .. N -> S] : Goes(f, N) BY <1>3
<1>5. f = [k \in 0 .. N |-> f[k]] OBVIOUS
<1>6. ASSUME NEW k \in 0 .. N
      PROVE  f[k] = IF k = 0 THEN first ELSE step[k][f[k - 1]]
  BY <1>4
<1>7. Loops(f, N, first, step) BY <1>5, <1>6 DEF Loops
<1> QED BY <1>7

-----------------------------------------------------------------------------
(* Loops that collect *)

\* A sequence to which each turn adds something.
Collects(f, N, first, add) ==
  f = [k \in 0 .. N |-> IF k = 0 THEN first ELSE f[k - 1] \o add[k]]

\* The sequence after each turn exists.
LEMMA CollectExists ==
  ASSUME NEW N \in Nat, NEW S, NEW first \in Seq(S), NEW add \in [1 .. N -> Seq(S)]
  PROVE  \E f : Collects(f, N, first, add)
<1> DEFINE step == [k \in 1 .. N |-> [s \in Seq(S) |-> s \o add[k]]]
<1>1. ASSUME NEW k \in 1 .. N, NEW s \in Seq(S) PROVE s \o add[k] \in Seq(S)
  BY ConcatProperties
<1>2. step \in [1 .. N -> [Seq(S) -> Seq(S)]] BY <1>1
<1>3. PICK f \in [0 .. N -> Seq(S)] : Loops(f, N, first, step)
  <2> HIDE DEF step
  <2> QED BY <1>2, Loop
<1>4. ASSUME NEW k \in 0 .. N, k # 0 PROVE step[k][f[k - 1]] = f[k - 1] \o add[k]
  <2>1. k \in 1 .. N /\ k - 1 \in 0 .. N BY <1>4
  <2>2. f[k - 1] \in Seq(S) BY <2>1
  <2> QED BY <2>1, <2>2
<1>5. Collects(f, N, first, add)
  <2> HIDE DEF step
  <2> QED BY <1>3, <1>4 DEF Collects, Loops
<1> QED BY <1>5

\* What is there after a turn stays where it is, and what the turn added is
\* behind it.
Grows(f, N, S, first, add) ==
  /\ f \in [0 .. N -> Seq(S)]
  /\ f[0] = first
  /\ \A k \in 1 .. N : f[k] = f[k - 1] \o add[k]
  /\ \A m \in 0 .. N : \A k \in 0 .. m :
       /\ Len(f[k]) <= Len(f[m])
       /\ \A j \in 1 .. Len(f[k]) : f[m][j] = f[k][j]
  /\ \A k \in 1 .. N :
       /\ Len(f[k]) = Len(f[k - 1]) + Len(add[k])
       /\ \A j \in 1 .. Len(add[k]) : f[N][Len(f[k - 1]) + j] = add[k][j]

\* Such a sequence grows so.
LEMMA Collected ==
  ASSUME NEW N \in Nat, NEW S, NEW first \in Seq(S), NEW add \in [1 .. N -> Seq(S)],
         NEW f, Collects(f, N, first, add)
  PROVE  Grows(f, N, S, first, add)
<1>1. \A k \in 0 .. N : f[k] = IF k = 0 THEN first ELSE f[k - 1] \o add[k]
  BY DEF Collects
<1>2. f[0] = first BY <1>1
<1>3. ASSUME NEW k \in 1 .. N PROVE f[k] = f[k - 1] \o add[k]
  <2>1. k \in 0 .. N /\ k # 0 OBVIOUS
  <2> QED BY <1>1, <2>1, Zenon
<1>4. \A k \in 0 .. N : f[k] \in Seq(S)
  <2> DEFINE P == {k \in 0 .. N : f[k] \in Seq(S)}
  <2>1. 0 \in P BY <1>2
  <2>2. ASSUME NEW n \in 0 .. N, n + 1 <= N, n \in P PROVE n + 1 \in P
    <3>1. n + 1 \in 1 .. N /\ (n + 1) - 1 = n BY <2>2
    <3>2. f[n + 1] = f[n] \o add[n + 1] BY <1>3, <3>1
    <3>3. f[n] \in Seq(S) /\ add[n + 1] \in Seq(S) BY <2>2, <3>1
    <3>4. f[n + 1] \in Seq(S) BY ONLY <3>2, <3>3, ConcatProperties
    <3> QED BY <3>1, <3>4
  <2>3. \A n \in 0 .. N : n \in P
    <3> HIDE DEF P
    <3> QED BY <2>1, <2>2, Induct
  <2> QED BY <2>3
<1>5. f \in [0 .. N -> Seq(S)]
  <2>1. f = [k \in 0 .. N |-> f[k]] BY DEF Collects
  <2> QED BY <1>4, <2>1
<1>6. ASSUME NEW k \in 1 .. N
      PROVE  /\ Len(f[k]) = Len(f[k - 1]) + Len(add[k])
             /\ \A j \in 1 .. Len(f[k - 1]) : f[k][j] = f[k - 1][j]
             /\ \A j \in 1 .. Len(add[k]) : f[k][Len(f[k - 1]) + j] = add[k][j]
             /\ Len(f[k - 1]) \in Nat /\ Len(add[k]) \in Nat
  <2> DEFINE s == f[k - 1]
             t == add[k]
  <2>1. s \in Seq(S) /\ t \in Seq(S) BY <1>4
  <2>2. f[k] = s \o t BY <1>3
  <2> HIDE DEF s, t
  <2>3. Len(s) \in Nat /\ Len(t) \in Nat BY <2>1, LenProperties
  <2>4. /\ Len(s \o t) = Len(s) + Len(t)
        /\ \A j \in 1 .. Len(s) + Len(t) :
             (s \o t)[j] = IF j <= Len(s) THEN s[j] ELSE t[j - Len(s)]
    BY ONLY <2>1, ConcatProperties
  <2>5. \A j \in 1 .. Len(s) : (s \o t)[j] = s[j] BY ONLY <2>3, <2>4
  <2>6. \A j \in 1 .. Len(t) : (s \o t)[Len(s) + j] = t[j] BY ONLY <2>3, <2>4
  <2>7. /\ Len(f[k]) = Len(s) + Len(t)
        /\ \A j \in 1 .. Len(s) : f[k][j] = s[j]
        /\ \A j \in 1 .. Len(t) : f[k][Len(s) + j] = t[j]
    BY ONLY <2>2, <2>4, <2>5, <2>6
  <2> QED BY <2>3, <2>7 DEF s, t
<1>7. ASSUME NEW k \in 0 .. N
      PROVE  \A m \in 0 .. N :
               k <= m => /\ Len(f[k]) <= Len(f[m])
                         /\ \A j \in 1 .. Len(f[k]) : f[m][j] = f[k][j]
  <2> DEFINE Keeps(m) == /\ Len(f[k]) <= Len(f[m])
                         /\ \A j \in 1 .. Len(f[k]) : f[m][j] = f[k][j]
             P == {m \in 0 .. N : k <= m => Keeps(m)}
  <2>0. Keeps(k) BY <1>4, LenProperties
  <2>1. 0 \in P
    <3>1. k <= 0 => k = 0 OBVIOUS
    <3> HIDE DEF Keeps
    <3> QED BY <2>0, <3>1
  <2>2. ASSUME NEW n \in 0 .. N, n + 1 <= N, n \in P PROVE n + 1 \in P
    <3>1. n + 1 \in 1 .. N /\ (n + 1) - 1 = n BY <2>2
    <3>2. /\ Len(f[n + 1]) = Len(f[n]) + Len(add[n + 1])
          /\ \A j \in 1 .. Len(f[n]) : f[n + 1][j] = f[n][j]
          /\ Len(f[n]) \in Nat /\ Len(add[n + 1]) \in Nat
      <4>1. n + 1 \in 1 .. N BY <3>1
      <4>2. /\ Len(f[n + 1]) = Len(f[(n + 1) - 1]) + Len(add[n + 1])
            /\ \A j \in 1 .. Len(f[(n + 1) - 1]) : f[n + 1][j] = f[(n + 1) - 1][j]
            /\ Len(f[(n + 1) - 1]) \in Nat /\ Len(add[n + 1]) \in Nat
        BY ONLY <1>6, <4>1, Zenon
      <4>3. (n + 1) - 1 = n OBVIOUS
      <4> QED BY ONLY <4>2, <4>3
    <3>3. Len(f[k]) \in Nat BY <1>4, LenProperties
    <3>4. CASE k <= n
      <4>1. Keeps(n) BY <2>2, <3>4
      <4>2. Len(f[k]) <= Len(f[n + 1])
        <5>1. Len(f[k]) <= Len(f[n]) BY <4>1
        <5>2. Len(f[n + 1]) = Len(f[n]) + Len(add[n + 1]) BY <3>2
        <5>3. Len(f[n]) \in Nat /\ Len(add[n + 1]) \in Nat BY <3>2
        <5>4. \A a, b, c \in Nat : a <= b => a <= b + c OBVIOUS
        <5>5. Len(f[k]) <= Len(f[n]) + Len(add[n + 1]) BY <3>3, <5>1, <5>3, <5>4
        <5> QED BY ONLY <5>2, <5>5, Zenon
      <4>3. ASSUME NEW j \in 1 .. Len(f[k]) PROVE f[n + 1][j] = f[k][j]
        <5>1. j \in 1 .. Len(f[n]) BY <3>2, <3>3, <4>1
        <5> QED BY <3>2, <4>1, <5>1
      <4>4. Keeps(n + 1) BY <4>2, <4>3
      <4> HIDE DEF Keeps
      <4> QED BY <3>1, <4>4
    <3>5. CASE k = n + 1
      <4> HIDE DEF Keeps
      <4> QED BY <2>0, <3>1, <3>5
    <3>6. CASE n + 1 < k
      <4> HIDE DEF Keeps
      <4> QED BY <3>1, <3>6
    <3> HIDE DEF P
    <3> QED BY <3>4, <3>5, <3>6
  <2>3. \A n \in 0 .. N : n \in P
    <3> HIDE DEF P
    <3> QED BY <2>1, <2>2, Induct
  <2> QED BY <2>3
<1>8. ASSUME NEW k \in 1 .. N, NEW j \in 1 .. Len(add[k])
      PROVE  f[N][Len(f[k - 1]) + j] = add[k][j]
  <2>1. Len(f[k - 1]) + j \in 1 .. Len(f[k]) BY <1>6
  <2>2. f[N][Len(f[k - 1]) + j] = f[k][Len(f[k - 1]) + j] BY <1>7, <2>1
  <2> QED BY <1>6, <2>2
<1>9. ASSUME NEW m \in 0 .. N, NEW k \in 0 .. m
      PROVE  /\ Len(f[k]) <= Len(f[m])
             /\ \A j \in 1 .. Len(f[k]) : f[m][j] = f[k][j]
  <2>1. k \in 0 .. N /\ k <= m OBVIOUS
  <2> QED BY <1>7, <2>1
<1> QED BY <1>2, <1>3, <1>5, <1>6, <1>8, <1>9, Zenon DEF Grows

-----------------------------------------------------------------------------
(* Names *)

Byte == 0 .. 255

TextParts(labels) ==
  [k \in 1 .. Len(labels) |-> IF k = 1 THEN labels[k] ELSE <<Dot>> \o labels[k]]
LabelParts(labels) ==
  [k \in 1 .. Len(labels) |->
     IF labels[k] = <<>> THEN <<>> ELSE <<Len(labels[k]) % 256>> \o labels[k]]

\* What the turns of the two loops add to a host's text and to its name.
LEMMA TextPartsType ==
  ASSUME NEW labels \in Seq(Seq(Letter))
  PROVE  /\ TextParts(labels) \in [1 .. Len(labels) -> Seq(Letter)]
         /\ \A k \in 1 .. Len(labels) :
              Len(TextParts(labels)[k]) = Len(labels[k]) + (IF k = 1 THEN 0 ELSE 1)
<1>1. ASSUME NEW k \in 1 .. Len(labels)
      PROVE  /\ labels[k] \in Seq(Letter) /\ Len(labels[k]) \in Nat
             /\ <<Dot>> \o labels[k] \in Seq(Letter)
             /\ Len(<<Dot>> \o labels[k]) = Len(labels[k]) + 1
  <2>1. labels[k] \in Seq(Letter) BY ElementOfSeq
  <2>2. <<Dot>> \in Seq(Letter) /\ Len(<<Dot>>) = 1 BY DEF Dot, Letter
  <2>3. Len(labels[k]) \in Nat BY <2>1, LenProperties
  <2>4. <<Dot>> \o labels[k] \in Seq(Letter) BY <2>1, <2>2, ConcatProperties
  <2>5. Len(<<Dot>> \o labels[k]) = 1 + Len(labels[k])
    BY <2>1, <2>2, ConcatProperties
  <2> QED BY <2>1, <2>3, <2>4, <2>5
<1>2. \A k \in 1 .. Len(labels) :
        (IF k = 1 THEN labels[k] ELSE <<Dot>> \o labels[k]) \in Seq(Letter)
  BY <1>1
<1>3. TextParts(labels) \in [1 .. Len(labels) -> Seq(Letter)]
  BY ONLY <1>2 DEF TextParts
<1>4. ASSUME NEW k \in 1 .. Len(labels)
      PROVE  Len(TextParts(labels)[k]) = Len(labels[k]) + (IF k = 1 THEN 0 ELSE 1)
  <2>1. TextParts(labels)[k] = IF k = 1 THEN labels[k] ELSE <<Dot>> \o labels[k]
    BY DEF TextParts
  <2>2. CASE k = 1 BY <1>1, <2>1, <2>2
  <2>3. CASE k # 1 BY <1>1, <2>1, <2>3
  <2> QED BY <2>2, <2>3
<1> QED BY <1>3, <1>4

\* Text is collected from these parts.
LEMMA TextsCollect ==
  ASSUME NEW labels \in Seq(Seq(Letter))
  PROVE  Collects(Texts(labels), Len(labels), <<>>, TextParts(labels))
<1>1. Len(labels) \in Nat /\ <<>> \in Seq(Letter) BY LenProperties
<1>2. \E f : Collects(f, Len(labels), <<>>, TextParts(labels))
  BY <1>1, TextPartsType, CollectExists
<1> DEFINE IsText(f) == f = [k \in 0 .. Len(labels) |->
             IF k = 0 THEN <<>>
             ELSE f[k - 1] \o (IF k = 1 THEN labels[k] ELSE <<Dot>> \o labels[k])]
<1>3. ASSUME NEW f PROVE Collects(f, Len(labels), <<>>, TextParts(labels)) <=> IsText(f)
  <2>1. ASSUME NEW k \in 0 .. Len(labels), k # 0
        PROVE  TextParts(labels)[k] = IF k = 1 THEN labels[k] ELSE <<Dot>> \o labels[k]
    BY <1>1, <2>1 DEF TextParts
  <2> QED BY <2>1 DEF Collects
<1>4. Texts(labels) = CHOOSE f : IsText(f) BY DEF Texts
<1> HIDE DEF IsText
<1> QED BY <1>2, <1>3, <1>4

\* They are bytes.
LEMMA LabelPartsType ==
  ASSUME NEW labels \in Seq(Seq(Letter))
  PROVE  LabelParts(labels) \in [1 .. Len(labels) -> Seq(Byte)]
<1>1. ASSUME NEW k \in 1 .. Len(labels)
      PROVE  <<Len(labels[k]) % 256>> \o labels[k] \in Seq(Byte)
  <2>1. labels[k] \in Seq(Letter) BY ElementOfSeq
  <2>2. labels[k] \in Seq(Byte) BY <2>1, SeqMonotonic DEF Letter, Byte
  <2>3. Len(labels[k]) \in Nat BY <2>1, LenProperties
  <2>4. \A n \in Nat : n % 256 \in Byte BY DEF Byte
  <2>5. \A b \in Byte : <<b>> \in Seq(Byte) OBVIOUS
  <2>6. <<Len(labels[k]) % 256>> \in Seq(Byte) BY ONLY <2>3, <2>4, <2>5
  <2> DEFINE len == <<Len(labels[k]) % 256>>
             label == labels[k]
  <2> HIDE DEF len, label
  <2>7. len \in Seq(Byte) /\ label \in Seq(Byte) BY <2>2, <2>6 DEF len, label
  <2>8. len \o label \in Seq(Byte) BY ONLY <2>7, ConcatProperties
  <2> QED BY <2>8 DEF len, label
<1>2. \A k \in 1 .. Len(labels) :
        (IF labels[k] = <<>> THEN <<>> ELSE <<Len(labels[k]) % 256>> \o labels[k])
          \in Seq(Byte)
  <2>1. <<>> \in Seq(Byte) OBVIOUS
  <2> QED BY <1>1, <2>1
<1> QED BY ONLY <1>2 DEF LabelParts

\* The name of a question is collected from these parts.
LEMMA LabelsCollect ==
  ASSUME NEW labels \in Seq(Seq(Letter))
  PROVE  Collects(Labels(labels), Len(labels), <<>>, LabelParts(labels))
<1>1. Len(labels) \in Nat /\ <<>> \in Seq(Byte) BY LenProperties
<1>2. \E f : Collects(f, Len(labels), <<>>, LabelParts(labels))
  BY <1>1, LabelPartsType, CollectExists
<1> DEFINE IsName(f) == f = [k \in 0 .. Len(labels) |->
             IF k = 0 THEN <<>>
             ELSE f[k - 1] \o (IF labels[k] = <<>> THEN <<>>
                               ELSE <<Len(labels[k]) % 256>> \o labels[k])]
<1>3. ASSUME NEW f PROVE Collects(f, Len(labels), <<>>, LabelParts(labels)) <=> IsName(f)
  <2>1. ASSUME NEW k \in 0 .. Len(labels), k # 0
        PROVE  LabelParts(labels)[k] = IF labels[k] = <<>> THEN <<>>
                                       ELSE <<Len(labels[k]) % 256>> \o labels[k]
    BY <1>1, <2>1 DEF LabelParts
  <2>2. [k \in 0 .. Len(labels) |->
          IF k = 0 THEN <<>> ELSE f[k - 1] \o LabelParts(labels)[k]]
        = [k \in 0 .. Len(labels) |->
             IF k = 0 THEN <<>>
             ELSE f[k - 1] \o (IF labels[k] = <<>> THEN <<>>
                               ELSE <<Len(labels[k]) % 256>> \o labels[k])]
    BY <2>1
  <2> QED BY ONLY <2>2 DEF Collects, IsName
<1>4. Labels(labels) = CHOOSE f : IsName(f) BY DEF Labels
<1> HIDE DEF IsName
<1> QED BY <1>2, <1>3, <1>4

\* A byte is its own remainder.
LEMMA ByteMod == ASSUME NEW n \in Byte PROVE n % 256 = n
BY DEF Byte

\* What stands where in a name whose labels have lengths that can be read.
LEMMA NameParts ==
  ASSUME NEW labels \in Seq(Seq(Letter)), Readable(labels), NEW k \in 1 .. Len(labels)
  PROVE  /\ LabelParts(labels)[k] = <<Len(labels[k])>> \o labels[k]
         /\ Len(LabelParts(labels)[k]) = Len(labels[k]) + 1
         /\ LabelParts(labels)[k][1] = Len(labels[k])
         /\ \A j \in 1 .. Len(labels[k]) : LabelParts(labels)[k][1 + j] = labels[k][j]
         /\ labels[k] \in Seq(Byte)
         /\ Len(labels[k]) \in 1 .. 191
<1>1. labels[k] \in Seq(Letter) BY ElementOfSeq
<1>2. labels[k] \in Seq(Byte) BY <1>1, SeqMonotonic DEF Letter, Byte
<1>3. Len(labels[k]) \in 1 .. 191 BY DEF Readable
<1>4. labels[k] # <<>>
  <2>1. Len(<<>>) = 0 /\ 0 \notin 1 .. 191 OBVIOUS
  <2> QED BY ONLY <1>3, <2>1, Zenon
<1>5. \A n \in 1 .. 191 : n \in Byte BY DEF Byte
<1>6. Len(labels[k]) % 256 = Len(labels[k]) BY ONLY <1>3, <1>5, ByteMod, Zenon
<1>7. LabelParts(labels)[k] = <<Len(labels[k])>> \o labels[k]
  BY <1>4, <1>6 DEF LabelParts
<1>8. \A b \in Byte : <<b>> \in Seq(Byte) /\ Len(<<b>>) = 1 /\ <<b>>[1] = b OBVIOUS
<1>9. Len(labels[k]) \in Byte BY <1>3 DEF Byte
<1> DEFINE n == Len(labels[k])
<1>10. <<n>> \in Seq(Byte) /\ Len(<<n>>) = 1 /\ <<n>>[1] = n BY <1>8, <1>9
<1>11. /\ Len(<<n>> \o labels[k]) = Len(<<n>>) + n
       /\ \A j \in 1 .. Len(<<n>>) + n :
            (<<n>> \o labels[k])[j] = IF j <= Len(<<n>>) THEN <<n>>[j]
                                      ELSE labels[k][j - Len(<<n>>)]
  BY ONLY <1>2, <1>10, ConcatProperties
<1>12. n \in Nat BY <1>3
<1>13. Len(<<n>> \o labels[k]) = n + 1 BY <1>10, <1>11, <1>12
<1>14. (<<n>> \o labels[k])[1] = n BY <1>10, <1>11, <1>12
<1>15. ASSUME NEW j \in 1 .. n PROVE (<<n>> \o labels[k])[1 + j] = labels[k][j]
  <2>1. 1 + j \in 1 .. 1 + n /\ ~ (1 + j <= 1) /\ (1 + j) - 1 = j BY <1>12
  <2> QED BY <1>10, <1>11, <2>1
<1> QED BY <1>2, <1>3, <1>7, <1>13, <1>14, <1>15

\* A name is longer than its text by one byte for the first length.
LEMMA NameLengths ==
  ASSUME NEW labels \in Seq(Seq(Letter)), Readable(labels)
  PROVE  \A k \in 0 .. Len(labels) :
           /\ Labels(labels)[k] \in Seq(Byte) /\ Len(Labels(labels)[k]) \in Nat
           /\ Texts(labels)[k] \in Seq(Letter) /\ Len(Texts(labels)[k]) \in Nat
           /\ k <= Len(Labels(labels)[k])
           /\ Len(Labels(labels)[k]) = Len(Texts(labels)[k]) + (IF k = 0 THEN 0 ELSE 1)
<1> DEFINE N == Len(labels)
           L == Labels(labels)
           T == Texts(labels)
<1>1. N \in Nat /\ <<>> \in Seq(Byte) /\ <<>> \in Seq(Letter) /\ Len(<<>>) = 0
  BY LenProperties
<1>2. /\ L \in [0 .. N -> Seq(Byte)] /\ L[0] = <<>>
      /\ \A k \in 1 .. N : Len(L[k]) = Len(L[k - 1]) + Len(LabelParts(labels)[k])
  <2>1. Grows(L, N, Byte, <<>>, LabelParts(labels))
    BY <1>1, LabelsCollect, LabelPartsType, Collected
  <2> QED BY <2>1 DEF Grows
<1>3. /\ T \in [0 .. N -> Seq(Letter)] /\ T[0] = <<>>
      /\ \A k \in 1 .. N : Len(T[k]) = Len(T[k - 1]) + Len(TextParts(labels)[k])
  <2>1. Grows(T, N, Letter, <<>>, TextParts(labels))
    BY <1>1, TextsCollect, TextPartsType, Collected
  <2> QED BY <2>1 DEF Grows
<1>4. \A k \in 0 .. N : /\ L[k] \in Seq(Byte) /\ Len(L[k]) \in Nat
                        /\ T[k] \in Seq(Letter) /\ Len(T[k]) \in Nat
  BY <1>2, <1>3, LenProperties
<1> DEFINE l(k) == Len(L[k])
           t(k) == Len(T[k])
           w(k) == Len(labels[k])
<1>5. ASSUME NEW k \in 0 .. N, k + 1 \in 1 .. N
      PROVE  /\ l(k + 1) = l(k) + w(k + 1) + 1
             /\ t(k + 1) = t(k) + w(k + 1) + (IF k = 0 THEN 0 ELSE 1)
             /\ w(k + 1) \in Nat
  <2>1. w(k + 1) \in 1 .. 191 /\ Len(LabelParts(labels)[k + 1]) = w(k + 1) + 1
    BY <1>5, NameParts
  <2>2. Len(TextParts(labels)[k + 1]) = w(k + 1) + (IF k + 1 = 1 THEN 0 ELSE 1)
    BY <1>5, TextPartsType
  <2>3. /\ l(k + 1) = l((k + 1) - 1) + Len(LabelParts(labels)[k + 1])
        /\ t(k + 1) = t((k + 1) - 1) + Len(TextParts(labels)[k + 1])
    BY ONLY <1>2, <1>3, <1>5, Zenon
  <2>4. (k + 1) - 1 = k /\ (k + 1 = 1 <=> k = 0) OBVIOUS
  <2>5. l(k) \in Nat /\ t(k) \in Nat BY <1>4
  <2> HIDE DEF l, t, w, N
  <2>6. l(k + 1) = l(k) + (w(k + 1) + 1) BY ONLY <2>1, <2>3, <2>4, Zenon
  <2>7. t(k + 1) = t(k) + (w(k + 1) + (IF k = 0 THEN 0 ELSE 1))
    BY ONLY <2>2, <2>3, <2>4, Zenon
  <2>8. w(k + 1) \in Nat
    <3>1. \A n \in 1 .. 191 : n \in Nat OBVIOUS
    <3> QED BY ONLY <2>1, <3>1, Zenon
  <2>9. l(k + 1) = l(k) + w(k + 1) + 1 BY ONLY <2>5, <2>6, <2>8
  <2>10. t(k + 1) = t(k) + w(k + 1) + (IF k = 0 THEN 0 ELSE 1)
    BY ONLY <2>5, <2>7, <2>8
  <2> QED BY <2>8, <2>9, <2>10
<1> DEFINE Fits(k) == k <= l(k) /\ l(k) = t(k) + (IF k = 0 THEN 0 ELSE 1)
           P == {k \in 0 .. N : Fits(k)}
<1>6. 0 \in P BY <1>1, <1>2, <1>3
<1>7. ASSUME NEW n \in 0 .. N, n + 1 <= N, n \in P PROVE n + 1 \in P
  <2>1. n + 1 \in 1 .. N /\ n + 1 \in 0 .. N BY <1>7
  <2>2. l(n) \in Nat /\ t(n) \in Nat /\ n <= l(n)
        /\ l(n) = t(n) + (IF n = 0 THEN 0 ELSE 1)
    BY <1>4, <1>7
  <2>3. /\ l(n + 1) = l(n) + w(n + 1) + 1
        /\ t(n + 1) = t(n) + w(n + 1) + (IF n = 0 THEN 0 ELSE 1)
        /\ w(n + 1) \in Nat
    BY ONLY <1>5, <2>1, Zenon
  <2>4. Fits(n + 1)
    <3> HIDE DEF l, t, w, N
    <3> QED BY <2>2, <2>3
  <2> HIDE DEF Fits
  <2> QED BY <2>1, <2>4
<1>8. \A n \in 0 .. N : n \in P
  <2> HIDE DEF P
  <2> QED BY <1>1, <1>6, <1>7, Induct
<1> QED BY <1>4, <1>8

\* Where the parts of a full name are in it: behind the labels before.
Layout(labels, N, L, full) ==
  /\ full \in Seq(Byte)
  /\ Len(full) = Len(L[N]) + 1
  /\ full[Len(L[N]) + 1] = 0
  /\ L[0] = <<>>
  /\ \A k \in 0 .. N : k + 1 <= N =>
       /\ Len(L[k + 1]) = Len(L[k]) + Len(labels[k + 1]) + 1
       /\ Len(L[k + 1]) <= Len(L[N])
       /\ full[Len(L[k]) + 1] = Len(labels[k + 1])
       /\ \A j \in 1 .. Len(labels[k + 1]) :
            full[Len(L[k]) + (1 + j)] = labels[k + 1][j]

\* A full name whose labels can be read has this layout.
LEMMA FullNameParts ==
  ASSUME NEW labels \in Seq(Seq(Letter)), Readable(labels)
  PROVE  Layout(labels, Len(labels), Labels(labels), FullName(labels))
<1> DEFINE N == Len(labels)
           L == Labels(labels)
<1>1. N \in Nat /\ <<>> \in Seq(Byte) BY LenProperties
<1>2. Grows(L, N, Byte, <<>>, LabelParts(labels))
  BY <1>1, LabelsCollect, LabelPartsType, Collected
<1>3. \A k \in 0 .. N : L[k] \in Seq(Byte) /\ Len(L[k]) \in Nat BY NameLengths
<1>4. L[N] \in Seq(Byte) /\ Len(L[N]) \in Nat BY <1>1, <1>3
<1>5. FullName(labels) = Append(L[N], 0) BY DEF FullName
<1>6. /\ FullName(labels) \in Seq(Byte)
      /\ Len(FullName(labels)) = Len(L[N]) + 1
      /\ FullName(labels)[Len(L[N]) + 1] = 0
      /\ \A j \in 1 .. Len(L[N]) : FullName(labels)[j] = L[N][j]
  <2>1. 0 \in Byte BY DEF Byte
  <2> QED BY <1>4, <1>5, <2>1, AppendProperties
<1>7. ASSUME NEW k \in 0 .. N, k + 1 <= N
      PROVE  /\ Len(L[k + 1]) = Len(L[k]) + Len(labels[k + 1]) + 1
             /\ Len(L[k + 1]) <= Len(L[N])
             /\ FullName(labels)[Len(L[k]) + 1] = Len(labels[k + 1])
             /\ \A j \in 1 .. Len(labels[k + 1]) :
                  FullName(labels)[Len(L[k]) + (1 + j)] = labels[k + 1][j]
  <2> DEFINE part == LabelParts(labels)[k + 1]
             a == Len(L[k])
             b == Len(labels[k + 1])
  <2>1. k + 1 \in 1 .. N /\ k + 1 \in 0 .. N /\ (k + 1) - 1 = k BY <1>1, <1>7
  <2>2. /\ Len(part) = b + 1 /\ part[1] = b
        /\ \A j \in 1 .. b : part[1 + j] = labels[k + 1][j]
        /\ b \in 1 .. 191
    BY <2>1, NameParts
  <2>3. b \in Nat /\ a \in Nat /\ Len(part) \in Nat /\ Len(part) = b + 1
    <3>1. \A n \in 1 .. 191 : n \in Nat /\ n + 1 \in Nat OBVIOUS
    <3>2. b \in Nat /\ b + 1 \in Nat BY ONLY <2>2, <3>1, Zenon
    <3>3. a \in Nat BY <1>3
    <3> QED BY ONLY <2>2, <3>2, <3>3, Zenon
  <2>4. /\ Len(L[k + 1]) = Len(L[(k + 1) - 1]) + Len(part)
        /\ \A j \in 1 .. Len(part) : L[N][Len(L[(k + 1) - 1]) + j] = part[j]
    BY <1>2, <2>1, Zenon DEF Grows
  <2>5. Len(L[k + 1]) = a + Len(part) /\ \A j \in 1 .. Len(part) : L[N][a + j] = part[j]
    BY ONLY <2>1, <2>4, Zenon
  <2>6. Len(L[k + 1]) <= Len(L[N])
    <3>1. N \in 0 .. N BY <1>1
    <3> QED BY <1>2, <2>1, <3>1 DEF Grows
  <2>7. ASSUME NEW j \in 1 .. Len(part) PROVE FullName(labels)[a + j] = part[j]
    <3> DEFINE c == Len(part)
               d == Len(L[k + 1])
               e == Len(L[N])
    <3>0. c \in Nat /\ d = a + c /\ d <= e /\ e \in Nat BY <1>4, <2>3, <2>5, <2>6
    <3>1. a + j \in 1 .. Len(L[N])
      <4>1. j \in 1 .. c OBVIOUS
      <4>2. a \in Nat BY <2>3
      <4> HIDE DEF a, c, d, e
      <4>3. a + j \in 1 .. e BY <3>0, <4>1, <4>2
      <4> QED BY <4>3 DEF e
    <3> QED BY <1>6, <2>5, <3>1
  <2>8. Len(L[k + 1]) = a + b + 1
    <3>1. Len(L[k + 1]) = a + (b + 1) BY ONLY <2>3, <2>5, Zenon
    <3>2. \A x, y \in Nat : x + (y + 1) = x + y + 1 OBVIOUS
    <3> QED BY ONLY <2>3, <3>1, <3>2, Zenon
  <2>9. FullName(labels)[a + 1] = b
    <3>1. \A n \in Nat : 1 \in 1 .. n + 1 OBVIOUS
    <3>2. 1 \in 1 .. Len(part) BY ONLY <2>3, <3>1, Zenon
    <3> QED BY ONLY <2>2, <2>7, <3>2, Zenon
  <2>10. ASSUME NEW j \in 1 .. b PROVE FullName(labels)[a + (1 + j)] = labels[k + 1][j]
    <3>1. \A n \in Nat : \A m \in 1 .. n : 1 + m \in 1 .. n + 1 OBVIOUS
    <3>2. 1 + j \in 1 .. Len(part) BY ONLY <2>3, <3>1, <2>10, Zenon
    <3> QED BY ONLY <2>2, <2>7, <2>10, <3>2, Zenon
  <2> QED BY <2>6, <2>8, <2>9, <2>10
<1>8. L[0] = <<>> BY <1>2 DEF Grows
<1> QED BY <1>6, <1>7, <1>8 DEF Layout

-----------------------------------------------------------------------------
(* Reading names *)

\* A message has the bytes of s from an offset on.
Stands(message, offset, s) ==
  /\ offset + Len(s) <= Len(message)
  /\ \A j \in 1 .. Len(s) : message[offset + j] = s[j]

LEMMA ByteIsNat == \A b \in Byte : b \in Nat
BY DEF Byte

\* What is read from a message are bytes.
LEMMA ByteAtType ==
  ASSUME NEW message \in Seq(Byte), NEW p \in Nat
  PROVE  ByteAt(message, p) \in Byte
<1>1. CASE p < Len(message)
  <2>1. p + 1 \in 1 .. Len(message) BY <1>1, LenProperties
  <2>2. message[p + 1] \in Byte BY <2>1, ElementOfSeq
  <2> QED BY <1>1, <2>2 DEF ByteAt
<1> DEFINE behind == p >= BufferSize /\ p < BufferSize + Len(Stack)
<1>2. CASE ~ (p < Len(message)) /\ behind
  <2>1. Stack \in Seq(Byte) /\ Len(Stack) \in Nat BY StackAssumption, LenProperties DEF Byte
  <2>2. p - BufferSize + 1 \in 1 .. Len(Stack) BY <1>2, <2>1 DEF BufferSize
  <2>3. Stack[p - BufferSize + 1] \in Byte BY <2>1, <2>2, ElementOfSeq
  <2>4. ByteAt(message, p) = Stack[p - BufferSize + 1] BY <1>2 DEF ByteAt
  <2> QED BY <2>3, <2>4
<1>3. CASE ~ (p < Len(message)) /\ ~ behind
  <2>1. ByteAt(message, p) = 0 BY <1>3 DEF ByteAt
  <2> QED BY <2>1 DEF Byte
<1> QED BY <1>1, <1>2, <1>3

\* There are turns for every byte of the message.
LEMMA TurnsType ==
  ASSUME NEW message \in Seq(Byte)
  PROVE  /\ Turns(message) \in Nat /\ Len(message) \in Nat
         /\ Len(message) <= Turns(message)
<1>1. Len(message) \in Nat /\ Len(Stack) \in Nat BY StackAssumption, LenProperties
<1> QED BY <1>1 DEF Turns

LEMMA BytesAtType ==
  ASSUME NEW message \in Seq(Byte), NEW p \in Nat, NEW n \in Nat
  PROVE  BytesAt(message, p, n) \in Seq(Byte) /\ Len(BytesAt(message, p, n)) = n
<1>1. ASSUME NEW j \in 1 .. n PROVE ByteAt(message, p + j - 1) \in Byte
  <2>1. p + j - 1 \in Nat OBVIOUS
  <2> QED BY <2>1, ByteAtType
<1>2. BytesAt(message, p, n) \in [1 .. n -> Byte] BY <1>1 DEF BytesAt
<1> QED BY <1>2, IsASeq, LenProperties

\* The byte, and the bytes, of what stands in a message.
LEMMA StandsAt ==
  ASSUME NEW message \in Seq(Byte), NEW offset \in Nat, NEW s \in Seq(Byte),
         Stands(message, offset, s), NEW n \in Nat, n + 1 <= Len(s)
  PROVE  ByteAt(message, offset + n) = s[n + 1]
<1>1. Len(s) \in Nat /\ Len(message) \in Nat BY LenProperties
<1>2. n + 1 \in 1 .. Len(s) /\ offset + n < Len(message) /\ (offset + n) + 1 = offset + (n + 1)
  <2>1. offset + Len(s) <= Len(message) BY DEF Stands
  <2> QED BY <1>1, <2>1
<1>3. message[offset + (n + 1)] = s[n + 1] BY <1>2 DEF Stands
<1> QED BY <1>2, <1>3 DEF ByteAt

LEMMA BytesRead ==
  ASSUME NEW message \in Seq(Byte), NEW p \in Nat, NEW s \in Seq(Byte), Stands(message, p, s)
  PROVE  BytesAt(message, p, Len(s)) = s
<1> DEFINE got == BytesAt(message, p, Len(s))
<1>1. Len(s) \in Nat BY LenProperties
<1>2. got \in Seq(Byte) /\ Len(got) = Len(s)
  BY ONLY <1>1, BytesAtType, p \in Nat
<1>3. ASSUME NEW j \in 1 .. Len(s) PROVE got[j] = s[j]
  <2>1. got[j] = ByteAt(message, p + j - 1) BY DEF BytesAt
  <2>2. j - 1 \in Nat /\ (j - 1) + 1 = j /\ j <= Len(s) /\ p + j - 1 = p + (j - 1)
    BY <1>1
  <2>3. ByteAt(message, p + (j - 1)) = s[(j - 1) + 1] BY <2>2, StandsAt
  <2> QED BY ONLY <2>1, <2>2, <2>3, Zenon
<1> HIDE DEF got
<1>4. got = s BY <1>2, <1>3, SeqEqual
<1> QED BY <1>4 DEF got

\* A piece of a piece.
LEMMA StandsWithin ==
  ASSUME NEW message \in Seq(Byte), NEW p \in Nat, NEW s \in Seq(Byte), Stands(message, p, s),
         NEW q \in Nat, NEW t \in Seq(Byte), Stands(s, q, t)
  PROVE  Stands(message, p + q, t)
<1> DEFINE m == Len(message)
           l == Len(s)
           k == Len(t)
<1>1. m \in Nat /\ l \in Nat /\ k \in Nat BY LenProperties
<1>2. p + l <= m /\ q + k <= l BY DEF Stands
<1>3. ASSUME NEW j \in 1 .. k PROVE message[(p + q) + j] = t[j]
  <2>1. q + j \in 1 .. l /\ (p + q) + j = p + (q + j)
    <3> HIDE DEF l, k
    <3> QED BY <1>1, <1>2
  <2>2. message[p + (q + j)] = s[q + j] BY <2>1 DEF Stands
  <2>3. s[q + j] = t[j] BY DEF Stands
  <2> QED BY ONLY <2>1, <2>2, <2>3, Zenon
<1>4. (p + q) + k <= m
  <2> HIDE DEF m, l, k
  <2> QED BY <1>1, <1>2
<1> QED BY <1>3, <1>4 DEF Stands

\* So is a name.
LEMMA NameTurnType ==
  ASSUME NEW message \in Seq(Byte), NEW p \in Nat, NEW name \in [Nat -> Seq(Byte)]
  PROVE  NameTurn(message, p, name) \in Seq(Byte)
<1> DEFINE flag == ByteAt(message, p)
           next == p + flag + 1
<1>1. flag \in Nat /\ next \in Nat
  <2>1. flag \in Byte BY ByteAtType
  <2>2. flag \in Nat BY ONLY <2>1, ByteIsNat, Zenon
  <2> HIDE DEF flag
  <2> QED BY <2>2
<1>2. name[ByteAt(message, p + 1)] \in Seq(Byte)
  <2>1. ByteAt(message, p + 1) \in Byte BY ByteAtType
  <2>2. ByteAt(message, p + 1) \in Nat BY ONLY <2>1, ByteIsNat, Zenon
  <2> QED BY <2>2
<1>3. BytesAt(message, p + 1, flag) \in Seq(Byte) BY <1>1, BytesAtType
<1>4. name[next] \in Seq(Byte) BY <1>1
<1>5. <<>> \in Seq(Byte) /\ <<Dot>> \in Seq(Byte) BY DEF Dot, Byte
<1> DEFINE dot == IF ByteAt(message, next) # 0 THEN <<Dot>> ELSE <<>>
<1>6. dot \in Seq(Byte) BY <1>5
<1>7. BytesAt(message, p + 1, flag) \o dot \in Seq(Byte) BY <1>3, <1>6, ConcatProperties
<1>8. (BytesAt(message, p + 1, flag) \o dot) \o name[next] \in Seq(Byte)
  BY <1>4, <1>7, ConcatProperties
<1> QED BY <1>2, <1>5, <1>8 DEF NameTurn

\* dns_parse_name reads as its loop says, one turn fewer from each next place.
LEMMA ReadingFacts ==
  ASSUME NEW message \in Seq(Byte)
  PROVE  /\ \A p \in Nat : Reading(message)[0][p] = <<>>
         /\ Reading(message) \in [0 .. Turns(message) -> [Nat -> Seq(Byte)]]
         /\ \A k \in 1 .. Turns(message) : \A p \in Nat :
              Reading(message)[k][p] = NameTurn(message, p, Reading(message)[k - 1])
<1> DEFINE N == Turns(message)
           S == [Nat -> Seq(Byte)]
           none == [p \in Nat |-> <<>>]
           turn(name) == [p \in Nat |-> NameTurn(message, p, name)]
           step == [k \in 1 .. N |-> [name \in S |-> turn(name)]]
           Reads(f) == f = [k \in 0 .. N |-> IF k = 0 THEN none ELSE turn(f[k - 1])]
<1>1. N \in Nat BY TurnsType
<1>2. none \in S OBVIOUS
<1>3. ASSUME NEW name \in S PROVE turn(name) \in S BY NameTurnType
<1>4. step \in [1 .. N -> [S -> S]] BY <1>3
<1>5. PICK f \in [0 .. N -> S] : Loops(f, N, none, step)
  <2> HIDE DEF step, none, S, N
  <2> QED BY <1>1, <1>2, <1>4, Loop
<1>6. Reads(f)
  <2>1. ASSUME NEW k \in 0 .. N, k # 0 PROVE step[k][f[k - 1]] = turn(f[k - 1])
    <3>1. k \in 1 .. N /\ k - 1 \in 0 .. N BY <1>1, <2>1
    <3>2. f[k - 1] \in S BY <3>1
    <3> HIDE DEF S, turn
    <3> QED BY <3>1, <3>2
  <2> HIDE DEF step, turn, none
  <2> QED BY <1>5, <2>1 DEF Loops
<1>7. Reads(Reading(message))
  <2>1. Reading(message) = CHOOSE g : Reads(g) BY DEF Reading
  <2> HIDE DEF Reads
  <2> QED BY <1>6, <2>1
<1> DEFINE R == Reading(message)
<1>8. \A k \in 0 .. N : R[k] = IF k = 0 THEN none ELSE turn(R[k - 1]) BY <1>7
<1>9. R \in [0 .. N -> S]
  <2> DEFINE P == {k \in 0 .. N : R[k] \in S}
  <2> HIDE DEF none, turn, R, S, N
  <2>1. 0 \in P BY <1>1, <1>2, <1>8
  <2>2. ASSUME NEW n \in 0 .. N, n + 1 <= N, n \in P PROVE n + 1 \in P
    <3>1. n + 1 \in 0 .. N /\ n + 1 # 0 /\ (n + 1) - 1 = n BY <1>1, <2>2
    <3>2. R[n + 1] = turn(R[n]) BY <1>8, <3>1
    <3> QED BY <1>3, <2>2, <3>1, <3>2
  <2>3. \A n \in 0 .. N : n \in P
    <3> HIDE DEF P
    <3> QED BY <1>1, <2>1, <2>2, Induct
  <2>4. R = [k \in 0 .. N |-> R[k]] BY <1>7 DEF R
  <2> QED BY <2>3, <2>4
<1>10. ASSUME NEW k \in 1 .. N, NEW p \in Nat
       PROVE  R[k][p] = NameTurn(message, p, R[k - 1])
  <2>1. k \in 0 .. N /\ k # 0 BY <1>1
  <2>2. R[k] = turn(R[k - 1]) BY <1>8, <2>1
  <2> QED BY <2>2
<1>11. \A p \in Nat : R[0][p] = none[p]
  <2>1. 0 \in 0 .. N BY <1>1
  <2>2. R[0] = none
    <3> HIDE DEF none, turn, R, N
    <3> QED BY <1>8, <2>1
  <2> QED BY ONLY <2>2
<1> QED BY <1>9, <1>10, <1>11

\* So does the loop over the name of a question.
LEMMA SkipTurnType ==
  ASSUME NEW message \in Seq(Byte), NEW p \in Nat, NEW end \in [Nat -> Nat]
  PROVE  SkipTurn(message, p, end) \in Nat
<1>1. ByteAt(message, p) \in Nat BY ByteAtType, ByteIsNat
<1>2. \A n \in Nat : p + n + 1 \in Nat OBVIOUS
<1>3. p + ByteAt(message, p) + 1 \in Nat BY ONLY <1>1, <1>2, Zenon
<1> QED BY <1>3 DEF SkipTurn

\* So does the loop over a question's name.
LEMMA SkippingFacts ==
  ASSUME NEW message \in Seq(Byte)
  PROVE  /\ \A p \in Nat : Skipping(message)[0][p] = p
         /\ Skipping(message) \in [0 .. Turns(message) -> [Nat -> Nat]]
         /\ \A k \in 1 .. Turns(message) : \A p \in Nat :
              Skipping(message)[k][p] = SkipTurn(message, p, Skipping(message)[k - 1])
<1> DEFINE N == Turns(message)
           S == [Nat -> Nat]
           none == [p \in Nat |-> p]
           turn(end) == [p \in Nat |-> SkipTurn(message, p, end)]
           step == [k \in 1 .. N |-> [end \in S |-> turn(end)]]
           Skips(f) == f = [k \in 0 .. N |-> IF k = 0 THEN none ELSE turn(f[k - 1])]
<1>1. N \in Nat BY TurnsType
<1>2. none \in S OBVIOUS
<1>3. ASSUME NEW end \in S PROVE turn(end) \in S BY SkipTurnType
<1>4. step \in [1 .. N -> [S -> S]] BY <1>3
<1>5. PICK f \in [0 .. N -> S] : Loops(f, N, none, step)
  <2> HIDE DEF step, none, S, N
  <2> QED BY <1>1, <1>2, <1>4, Loop
<1>6. Skips(f)
  <2>1. ASSUME NEW k \in 0 .. N, k # 0 PROVE step[k][f[k - 1]] = turn(f[k - 1])
    <3>1. k \in 1 .. N /\ k - 1 \in 0 .. N BY <1>1, <2>1
    <3>2. f[k - 1] \in S BY <3>1
    <3> HIDE DEF S, turn
    <3> QED BY <3>1, <3>2
  <2> HIDE DEF step, turn, none
  <2> QED BY <1>5, <2>1 DEF Loops
<1>7. Skips(Skipping(message))
  <2>1. Skipping(message) = CHOOSE g : Skips(g) BY DEF Skipping
  <2> HIDE DEF Skips
  <2> QED BY <1>6, <2>1
<1> DEFINE R == Skipping(message)
<1>8. \A k \in 0 .. N : R[k] = IF k = 0 THEN none ELSE turn(R[k - 1]) BY <1>7
<1>9. R \in [0 .. N -> S]
  <2> DEFINE P == {k \in 0 .. N : R[k] \in S}
  <2> HIDE DEF none, turn, R, S, N
  <2>1. 0 \in P BY <1>1, <1>2, <1>8
  <2>2. ASSUME NEW n \in 0 .. N, n + 1 <= N, n \in P PROVE n + 1 \in P
    <3>1. n + 1 \in 0 .. N /\ n + 1 # 0 /\ (n + 1) - 1 = n BY <1>1, <2>2
    <3>2. R[n + 1] = turn(R[n]) BY <1>8, <3>1
    <3> QED BY <1>3, <2>2, <3>1, <3>2
  <2>3. \A n \in 0 .. N : n \in P
    <3> HIDE DEF P
    <3> QED BY <1>1, <2>1, <2>2, Induct
  <2>4. R = [k \in 0 .. N |-> R[k]] BY <1>7 DEF R
  <2> QED BY <2>3, <2>4
<1>10. ASSUME NEW k \in 1 .. N, NEW p \in Nat
       PROVE  R[k][p] = SkipTurn(message, p, R[k - 1])
  <2>1. k \in 0 .. N /\ k # 0 BY <1>1
  <2>2. R[k] = turn(R[k - 1]) BY <1>8, <2>1
  <2> QED BY <2>2
<1>11. \A p \in Nat : R[0][p] = none[p]
  <2>1. 0 \in 0 .. N BY <1>1
  <2>2. R[0] = none
    <3> HIDE DEF none, turn, R, N
    <3> QED BY <1>8, <2>1
  <2> QED BY ONLY <2>2
<1> QED BY <1>9, <1>10, <1>11


\* What a turn finds behind the first k labels of a name that stands in a
\* message: the next label, between its length and the turn after it.
FindsLabel(message, offset, labels, L, k) ==
  /\ ByteAt(message, offset + Len(L[k])) = Len(labels[k + 1])
  /\ Len(labels[k + 1]) \in 1 .. 191
  /\ BytesAt(message, offset + Len(L[k]) + 1, Len(labels[k + 1])) = labels[k + 1]
  /\ labels[k + 1] \in Seq(Byte)
  /\ offset + Len(L[k]) + Len(labels[k + 1]) + 1 = offset + Len(L[k + 1])
  /\ Len(L[k]) \in Nat /\ Len(L[k + 1]) \in Nat

\* A turn of either loop at label k finds it.
LEMMA TurnFinds ==
  ASSUME NEW message \in Seq(Byte), NEW offset \in Nat,
         NEW labels \in Seq(Seq(Letter)), Readable(labels),
         Stands(message, offset, FullName(labels)),
         NEW k \in 0 .. Len(labels), k + 1 <= Len(labels)
  PROVE  FindsLabel(message, offset, labels, Labels(labels), k)
<1> DEFINE N == Len(labels)
           L == Labels(labels)
           a == Len(L[k])
           b == Len(labels[k + 1])
           c == Len(L[k + 1])
           e == Len(L[N])
           full == FullName(labels)
<1>0. Layout(labels, N, L, full) BY FullNameParts
<1>1. N \in Nat BY LenProperties
<1>2. k + 1 \in 1 .. N /\ k + 1 \in 0 .. N BY <1>1
<1>3. labels[k + 1] \in Seq(Byte) /\ b \in 1 .. 191 BY <1>2, NameParts
<1>4. a \in Nat /\ c \in Nat /\ e \in Nat BY <1>1, <1>2, NameLengths
<1>5. /\ full \in Seq(Byte) /\ Len(full) = e + 1
      /\ c = a + b + 1 /\ c <= e
      /\ full[a + 1] = b
      /\ \A j \in 1 .. b : full[a + (1 + j)] = labels[k + 1][j]
  BY <1>0 DEF Layout
<1>6. b \in Nat
  <2>1. \A n \in 1 .. 191 : n \in Nat OBVIOUS
  <2> QED BY ONLY <1>3, <2>1, Zenon
<1>7. ByteAt(message, offset + a) = b
  <2>1. a + 1 <= Len(full)
    <3> HIDE DEF a, b, c, e, full
    <3> QED BY <1>4, <1>5, <1>6
  <2>2. Stands(message, offset, full) OBVIOUS
  <2>3. ByteAt(message, offset + a) = full[a + 1]
    <3> HIDE DEF a, b, c, e, full
    <3> QED BY ONLY <1>4, <1>5, <2>1, <2>2, StandsAt, offset \in Nat, message \in Seq(Byte)
  <2> QED BY <1>5, <2>3
<1>8. BytesAt(message, offset + (a + 1), b) = labels[k + 1]
  <2>1. a + 1 \in Nat BY <1>4
  <2>2. (a + 1) + b <= Len(full)
    <3> HIDE DEF a, b, c, e, full
    <3> QED BY <1>4, <1>5, <1>6
  <2>3. ASSUME NEW j \in 1 .. b PROVE full[(a + 1) + j] = labels[k + 1][j]
    <3>1. \A x \in Nat : \A y \in 1 .. b : (x + 1) + y = x + (1 + y) OBVIOUS
    <3>2. (a + 1) + j = a + (1 + j) BY ONLY <1>4, <2>3, <3>1, Zenon
    <3> QED BY <1>5, <3>2
  <2> HIDE DEF a, full
  <2>4. Stands(full, a + 1, labels[k + 1]) BY <2>2, <2>3 DEF Stands
  <2>5. Stands(message, offset, full) BY DEF full
  <2>6. Stands(message, offset + (a + 1), labels[k + 1])
    BY <1>3, <1>5, <2>1, <2>4, <2>5, StandsWithin
  <2>7. offset + (a + 1) \in Nat BY <2>1
  <2> QED BY <1>3, <2>6, <2>7, BytesRead
<1>9. offset + (a + 1) = offset + a + 1 /\ offset + a + b + 1 = offset + c
  <2>1. c = a + b + 1 BY <1>5
  <2> HIDE DEF a, b, c
  <2> QED BY <1>4, <1>6, <2>1
<1>10. BytesAt(message, offset + a + 1, b) = labels[k + 1]
  BY ONLY <1>8, <1>9, Zenon
<1> QED BY <1>3, <1>4, <1>7, <1>9, <1>10, Zenon DEF FindsLabel

\* Behind the last label is the end.
LEMMA TurnEnds ==
  ASSUME NEW message \in Seq(Byte), NEW offset \in Nat,
         NEW labels \in Seq(Seq(Letter)), Readable(labels),
         Stands(message, offset, FullName(labels)),
         NEW N, N = Len(labels), NEW L, L = Labels(labels)
  PROVE  /\ ByteAt(message, offset + Len(L[N])) = 0
         /\ Len(L[N]) \in Nat /\ N + 1 <= Len(message)
<1> DEFINE e == Len(L[N])
           full == FullName(labels)
<1>1. N \in Nat /\ Len(message) \in Nat BY LenProperties
<1>2. N \in 0 .. N BY <1>1
<1>3. e \in Nat /\ N <= e BY <1>2, NameLengths
<1>4. full \in Seq(Byte) /\ Len(full) = e + 1 /\ full[e + 1] = 0
  <2>1. Layout(labels, N, L, full) BY FullNameParts
  <2> QED BY <2>1 DEF Layout
<1>5. e + 1 <= Len(full) BY <1>3, <1>4
<1>6. Stands(message, offset, full) OBVIOUS
<1>7. ByteAt(message, offset + e) = full[e + 1]
  <2> HIDE DEF e, full
  <2> QED BY <1>3, <1>4, <1>5, <1>6, StandsAt
<1>8. offset + Len(full) <= Len(message) BY <1>6 DEF Stands
<1>9. N + 1 <= Len(message)
  <2> HIDE DEF e, full
  <2> QED BY <1>1, <1>3, <1>4, <1>8
<1> QED BY <1>3, <1>4, <1>7, <1>9

\* Facts on sequences of bytes in the form the provers use them.
LEMMA BytesAssociate ==
  \A a, b, c \in Seq(Byte) : (a \o b) \o c = a \o (b \o c)
BY ConcatAssociative

\* Four sequences of bytes can be put together in either order. The two sides
\* have names so that the provers compare them as wholes.
LeftGroup(x, a, b, c) == x \o ((a \o b) \o c)
RightGroup(x, a, b, c) == ((x \o a) \o b) \o c

LEMMA Regrouped ==
  ASSUME NEW x \in Seq(Byte), NEW a \in Seq(Byte), NEW b \in Seq(Byte), NEW c \in Seq(Byte)
  PROVE  LeftGroup(x, a, b, c) = RightGroup(x, a, b, c)
<1> DEFINE xa == x \o a
           bc == b \o c
<1>1. xa \in Seq(Byte) /\ bc \in Seq(Byte) BY ConcatProperties
<1>2. (a \o b) \o c = a \o bc OBVIOUS
<1>3. xa \o bc = (xa \o b) \o c
  <2> HIDE DEF xa
  <2> QED BY <1>1
<1> HIDE DEF bc
<1>4. x \o (a \o bc) = xa \o bc BY <1>1
<1> HIDE DEF xa
<1>5. x \o ((a \o b) \o c) = (xa \o b) \o c BY <1>2, <1>3, <1>4
<1> QED BY <1>5 DEF xa, LeftGroup, RightGroup

LEMMA LettersAreBytes == \A s \in Seq(Letter) : s \in Seq(Byte)
BY SeqMonotonic DEF Letter, Byte

\* The dot behind the first k labels of n.
Sep(k, n) == IF k = 0 \/ k = n THEN <<>> ELSE <<Dot>>

LEMMA SepType == \A k, n : Sep(k, n) \in Seq(Byte)
<1>1. <<>> \in Seq(Byte) /\ <<Dot>> \in Seq(Byte) BY DEF Dot, Byte
<1> QED BY <1>1 DEF Sep

\* The text of one label more: a dot, if it is not the first, and the label.
LEMMA NextText ==
  ASSUME NEW labels \in Seq(Seq(Letter)),
         NEW N, N = Len(labels), NEW T, T = Texts(labels), NEW k \in 0 .. N, k + 1 <= N
  PROVE  T[k + 1] = (T[k] \o Sep(k, N)) \o labels[k + 1]
<1>1. N \in Nat /\ <<>> \in Seq(Letter) BY LenProperties
<1>2. Grows(T, N, Letter, <<>>, TextParts(labels))
  BY <1>1, TextsCollect, TextPartsType, Collected
<1>3. k + 1 \in 1 .. N /\ (k + 1) - 1 = k /\ k # N /\ (k + 1 = 1 <=> k = 0) BY <1>1
<1>4. T[k + 1] = T[k] \o TextParts(labels)[k + 1]
  <2>1. T[k + 1] = T[(k + 1) - 1] \o TextParts(labels)[k + 1]
    BY <1>2, <1>3, Zenon DEF Grows
  <2> QED BY ONLY <1>3, <2>1, Zenon
<1>5. TextParts(labels)[k + 1] = IF k = 0 THEN labels[k + 1] ELSE <<Dot>> \o labels[k + 1]
  BY <1>3 DEF TextParts
<1>6. labels[k + 1] \in Seq(Letter) BY <1>3, ElementOfSeq
<1>7. T[k] \in Seq(Letter) /\ T[0] = <<>> BY <1>2 DEF Grows
<1>8. CASE k = 0
  <2>1. T[k + 1] = T[k] \o labels[k + 1] BY <1>4, <1>5, <1>8
  <2>2. T[k] \o <<>> = T[k] BY <1>7, ConcatEmptySeq
  <2> QED BY <1>8, <2>1, <2>2 DEF Sep
<1>9. CASE k # 0
  <2>1. T[k + 1] = T[k] \o (<<Dot>> \o labels[k + 1]) BY <1>4, <1>5, <1>9
  <2>2. <<Dot>> \in Seq(Letter) BY DEF Dot, Letter
  <2>3. T[k] \o (<<Dot>> \o labels[k + 1]) = (T[k] \o <<Dot>>) \o labels[k + 1]
    BY ONLY <1>6, <1>7, <2>2, LettersAreBytes, BytesAssociate, Zenon
  <2> QED BY <1>3, <1>9, <2>1, <2>3 DEF Sep
<1> QED BY <1>8, <1>9

\* dns_parse_name reads a name that stands in a message as its text.
LEMMA NameRead ==
  ASSUME NEW message \in Seq(Byte), NEW offset \in Nat,
         NEW labels \in Seq(Seq(Letter)), Readable(labels),
         Stands(message, offset, FullName(labels)),
         NEW turns \in Len(labels) .. Turns(message)
  PROVE  Reading(message)[turns][offset] = Text(labels)
<1> DEFINE N == Len(labels)
           L == Labels(labels)
           T == Texts(labels)
           R == Reading(message)
           M == Turns(message)
           l(k) == Len(L[k])
           Reads(k, n) == (T[k] \o Sep(k, N)) \o R[n][offset + l(k)] = T[N]
           P == {d \in 0 .. N : \A n \in d .. M : Reads(N - d, n)}
<1>1. N \in Nat /\ M \in Nat BY LenProperties, TurnsType
<1>2. \A k \in 0 .. N : /\ T[k] \in Seq(Byte) /\ l(k) \in Nat
  <2>1. \A k \in 0 .. N : T[k] \in Seq(Letter) /\ l(k) \in Nat BY NameLengths
  <2> HIDE DEF l
  <2> QED BY <2>1, LettersAreBytes
<1>3. R \in [0 .. M -> [Nat -> Seq(Byte)]] BY ReadingFacts
<1>4. 0 \in P
  <2>1. ByteAt(message, offset + l(N)) = 0 /\ l(N) \in Nat BY TurnEnds
  <2>2. ASSUME NEW n \in 0 .. M PROVE Reads(N, n)
    <3>1. R[n][offset + l(N)] = <<>>
      <4>1. offset + l(N) \in Nat BY <2>1
      <4>2. CASE n = 0 BY <4>1, <4>2, ReadingFacts
      <4>3. CASE n # 0
        <5>1. n \in 1 .. M BY <1>1, <4>3
        <5>2. R[n][offset + l(N)] = NameTurn(message, offset + l(N), R[n - 1])
          BY <4>1, <5>1, ReadingFacts
        <5> QED BY <2>1, <5>2 DEF NameTurn
      <4> QED BY <4>2, <4>3
    <3>2. T[N] \in Seq(Byte) /\ Sep(N, N) = <<>> BY <1>1, <1>2 DEF Sep
    <3>3. (T[N] \o <<>>) \o <<>> = T[N] BY <3>2, ConcatEmptySeq
    <3> QED BY <3>1, <3>2, <3>3
  <2>3. N - 0 = N /\ 0 \in 0 .. N BY <1>1
  <2> HIDE DEF Reads, N
  <2> QED BY <2>2, <2>3
<1>5. ASSUME NEW d \in 0 .. N, d + 1 <= N, d \in P PROVE d + 1 \in P
  <2> DEFINE k == N - (d + 1)
             w == Len(labels[k + 1])
             next == offset + l(k + 1)
  <2>1. k \in 0 .. N /\ k + 1 <= N /\ k + 1 \in 0 .. N /\ k + 1 = N - d /\ k + 1 # 0
    BY <1>1, <1>5
  <2> HIDE DEF k
  <2>2. /\ ByteAt(message, offset + l(k)) = w
        /\ w \in 1 .. 191
        /\ BytesAt(message, offset + l(k) + 1, w) = labels[k + 1]
        /\ labels[k + 1] \in Seq(Byte)
        /\ offset + l(k) + w + 1 = next
        /\ l(k) \in Nat /\ l(k + 1) \in Nat
    <3>1. FindsLabel(message, offset, labels, L, k) BY <2>1, TurnFinds
    <3> QED BY <3>1 DEF FindsLabel
  <2>3. (IF ByteAt(message, next) # 0 THEN <<Dot>> ELSE <<>>) = Sep(k + 1, N)
    <3>1. CASE k + 1 = N
      <4>1. ByteAt(message, offset + l(N)) = 0 BY TurnEnds
      <4> QED BY <3>1, <4>1 DEF Sep
    <3>2. CASE k + 1 # N
      <4>1. (k + 1) + 1 <= N BY <1>1, <2>1, <3>2
      <4>2. /\ ByteAt(message, next) = Len(labels[(k + 1) + 1])
            /\ Len(labels[(k + 1) + 1]) \in 1 .. 191
        <5>1. FindsLabel(message, offset, labels, L, k + 1) BY <2>1, <4>1, TurnFinds
        <5> QED BY <5>1 DEF FindsLabel
      <4>3. \A n \in 1 .. 191 : n # 0 OBVIOUS
      <4>4. ByteAt(message, next) # 0 BY ONLY <4>2, <4>3, Zenon
      <4> QED BY <2>1, <3>2, <4>4 DEF Sep
    <3> QED BY <3>1, <3>2
  <2>4. ASSUME NEW n \in d + 1 .. M PROVE Reads(k, n)
    <3>1. n \in 1 .. M /\ n - 1 \in 0 .. M /\ n - 1 \in d .. M BY <1>1
    <3>2. offset + l(k) \in Nat /\ next \in Nat
      <4>1. l(k) \in Nat /\ l(k + 1) \in Nat BY <2>2
      <4> HIDE DEF l
      <4>2. \A m \in Nat : offset + m \in Nat OBVIOUS
      <4> QED BY ONLY <4>1, <4>2, Zenon DEF next
    <3>3. R[n][offset + l(k)] = NameTurn(message, offset + l(k), R[n - 1])
      BY <3>1, <3>2, ReadingFacts
    <3> DEFINE rest == R[n - 1][next]
    <3>4. R[n][offset + l(k)] = (labels[k + 1] \o Sep(k + 1, N)) \o rest
      <4>1. w # 0 /\ ~ IsPointer(w)
        <5>1. \A m \in 1 .. 191 : m # 0 /\ ~ (m >= 192) OBVIOUS
        <5> QED BY ONLY <2>2, <5>1, Zenon DEF IsPointer
      <4> HIDE DEF l, w, next, N, R
      <4>2. NameTurn(message, offset + l(k), R[n - 1])
            = BytesAt(message, offset + l(k) + 1, w)
              \o (IF ByteAt(message, next) # 0 THEN <<Dot>> ELSE <<>>) \o R[n - 1][next]
        BY ONLY <2>2, <4>1, Zenon DEF NameTurn
      <4> QED BY ONLY <2>2, <2>3, <3>3, <4>2, Zenon DEF rest
    <3>5. /\ T[k] \in Seq(Byte) /\ Sep(k, N) \in Seq(Byte) /\ Sep(k + 1, N) \in Seq(Byte)
          /\ labels[k + 1] \in Seq(Byte) /\ rest \in Seq(Byte)
      BY <1>2, <1>3, <2>1, <2>2, <3>1, <3>2, SepType
    <3>6. (T[k] \o Sep(k, N)) \o ((labels[k + 1] \o Sep(k + 1, N)) \o rest)
          = (((T[k] \o Sep(k, N)) \o labels[k + 1]) \o Sep(k + 1, N)) \o rest
      <4> DEFINE x == T[k] \o Sep(k, N)
                 a == labels[k + 1]
                 b == Sep(k + 1, N)
      <4>1. x \in Seq(Byte) /\ a \in Seq(Byte) /\ b \in Seq(Byte) /\ rest \in Seq(Byte)
        BY <3>5, ConcatProperties
      <4> HIDE DEF x, a, b, rest
      <4>2. LeftGroup(x, a, b, rest) = RightGroup(x, a, b, rest)
        BY ONLY <4>1, Regrouped, SMT
      <4> QED BY <4>2 DEF LeftGroup, RightGroup, x, a, b
    <3>7. T[k + 1] = (T[k] \o Sep(k, N)) \o labels[k + 1] BY <2>1, NextText
    <3>8. Reads(k + 1, n - 1) BY <1>5, <2>1, <3>1
    <3>9. (T[k + 1] \o Sep(k + 1, N)) \o rest = T[N] BY <3>8
    <3> HIDE DEF rest, R, T, N
    <3> QED BY ONLY <3>4, <3>6, <3>7, <3>9, Zenon
  <2>5. d + 1 \in 0 .. N BY <1>1, <1>5
  <2> HIDE DEF Reads, N, M
  <2> QED BY <2>4, <2>5 DEF k
<1>6. \A d \in 0 .. N : d \in P
  <2> HIDE DEF P, N
  <2> QED BY <1>1, <1>4, <1>5, Induct
<1>7. Reads(0, turns)
  <2>1. N \in P /\ N - N = 0
    <3> HIDE DEF P, N
    <3>1. N \in 0 .. N /\ N - N = 0 BY <1>1
    <3> QED BY <1>6, <3>1
  <2>2. \A n \in N .. M : Reads(N - N, n)
    <3> HIDE DEF Reads
    <3> QED BY <2>1
  <2> HIDE DEF Reads
  <2> QED BY <2>1, <2>2
<1>8. T[0] = <<>> /\ l(0) = 0
  <2>1. <<>> \in Seq(Letter) /\ Len(<<>>) = 0 OBVIOUS
  <2>2. Grows(T, N, Letter, <<>>, TextParts(labels))
    BY <1>1, <2>1, TextsCollect, TextPartsType, Collected
  <2>3. Layout(labels, N, L, FullName(labels)) BY FullNameParts
  <2>4. T[0] = <<>> /\ L[0] = <<>> BY <2>2, <2>3 DEF Grows, Layout
  <2> QED BY <2>1, <2>4
<1>9. R[turns][offset] = T[N]
  <2>1. R[turns][offset] \in Seq(Byte)
    <3>1. turns \in 0 .. M BY <1>1
    <3> QED BY <1>3, <3>1
  <2>2. offset + l(0) = offset BY <1>8
  <2>3. (<<>> \o <<>>) \o R[turns][offset] = R[turns][offset]
    <3>1. <<>> \in Seq(Byte) /\ <<>> \o <<>> = <<>> OBVIOUS
    <3> QED BY <2>1, <3>1, ConcatEmptySeq
  <2>4. Sep(0, N) = <<>> BY DEF Sep
  <2> HIDE DEF T, R, l, N
  <2> QED BY <1>7, <1>8, <2>2, <2>3, <2>4
<1> QED BY <1>9 DEF Text

\* The loop over the name of a question ends behind such a name.
LEMMA NameSkipped ==
  ASSUME NEW message \in Seq(Byte), NEW offset \in Nat,
         NEW labels \in Seq(Seq(Letter)), Readable(labels),
         Stands(message, offset, FullName(labels))
  PROVE  NameEnd(message, offset) = offset + Len(FullName(labels))
<1> DEFINE N == Len(labels)
           L == Labels(labels)
           R == Skipping(message)
           M == Turns(message)
           l(k) == Len(L[k])
           Ends1(k, n) == R[n][offset + l(k)] = offset + l(N) + 1
           P == {d \in 0 .. N : \A n \in d + 1 .. M : Ends1(N - d, n)}
<1>1. N \in Nat /\ M \in Nat BY LenProperties, TurnsType
<1>2. ByteAt(message, offset + l(N)) = 0 /\ l(N) \in Nat /\ N + 1 <= M
  <2>1. ByteAt(message, offset + l(N)) = 0 /\ l(N) \in Nat /\ N + 1 <= Len(message)
    BY TurnEnds
  <2>2. M \in Nat /\ Len(message) \in Nat /\ Len(message) <= M BY TurnsType
  <2>3. N + 1 <= M
    <3> HIDE DEF N, M
    <3> QED BY <1>1, <2>1, <2>2
  <2> QED BY <2>1, <2>3
<1>3. 0 \in P
  <2>1. ASSUME NEW n \in 1 .. M PROVE Ends1(N, n)
    <3>1. offset + l(N) \in Nat BY <1>2
    <3>2. R[n][offset + l(N)] = SkipTurn(message, offset + l(N), R[n - 1])
      BY <3>1, SkippingFacts
    <3> QED BY <1>2, <3>2 DEF SkipTurn
  <2>2. N - 0 = N /\ 0 \in 0 .. N /\ 0 + 1 = 1 BY <1>1
  <2> HIDE DEF Ends1, N, M
  <2> QED BY <2>1, <2>2
<1>4. ASSUME NEW d \in 0 .. N, d + 1 <= N, d \in P PROVE d + 1 \in P
  <2> DEFINE k == N - (d + 1)
             w == Len(labels[k + 1])
             next == offset + l(k + 1)
  <2>1. k \in 0 .. N /\ k + 1 <= N /\ k + 1 = N - d BY <1>1, <1>4
  <2> HIDE DEF k
  <2>2. /\ ByteAt(message, offset + l(k)) = w
        /\ w \in 1 .. 191
        /\ offset + l(k) + w + 1 = next
        /\ l(k) \in Nat /\ l(k + 1) \in Nat
    <3>1. FindsLabel(message, offset, labels, L, k) BY <2>1, TurnFinds
    <3> QED BY <3>1 DEF FindsLabel
  <2>3. ASSUME NEW n \in (d + 1) + 1 .. M PROVE Ends1(k, n)
    <3>1. n \in 1 .. M /\ n - 1 \in d + 1 .. M BY <1>1
    <3>2. offset + l(k) \in Nat BY <2>2
    <3>3. R[n][offset + l(k)] = SkipTurn(message, offset + l(k), R[n - 1])
      BY <3>1, <3>2, SkippingFacts
    <3>4. w # 0
      <4>1. \A m \in 1 .. 191 : m # 0 OBVIOUS
      <4> QED BY ONLY <2>2, <4>1, Zenon
    <3>5. Ends1(k + 1, n - 1) BY <1>4, <2>1, <3>1
    <3> HIDE DEF l, w, R, N, M
    <3>6. SkipTurn(message, offset + l(k), R[n - 1]) = R[n - 1][next]
      BY ONLY <2>2, <3>4, Zenon DEF SkipTurn
    <3>7. R[n][offset + l(k)] = R[n - 1][next] BY ONLY <3>3, <3>6, Zenon
    <3> QED BY ONLY <3>5, <3>7, Zenon DEF next
  <2>4. d + 1 \in 0 .. N BY <1>1, <1>4
  <2> HIDE DEF Ends1, N, M
  <2> QED BY <2>3, <2>4 DEF k
<1>5. \A d \in 0 .. N : d \in P
  <2> HIDE DEF P, N
  <2> QED BY <1>1, <1>3, <1>4, Induct
<1>6. Ends1(0, M)
  <2>1. N \in P /\ N - N = 0
    <3> HIDE DEF P, N
    <3>1. N \in 0 .. N /\ N - N = 0 BY <1>1
    <3> QED BY <1>5, <3>1
  <2>2. M \in N + 1 .. M
    <3> HIDE DEF N, M
    <3> QED BY <1>1, <1>2
  <2>3. Ends1(N - N, M)
    <3> HIDE DEF Ends1
    <3> QED BY <2>1, <2>2
  <2> HIDE DEF Ends1
  <2> QED BY <2>1, <2>3
<1>7. l(0) = 0 /\ Len(FullName(labels)) = l(N) + 1
  <2>1. Layout(labels, N, L, FullName(labels)) BY FullNameParts
  <2>2. Len(<<>>) = 0 OBVIOUS
  <2> QED BY <2>1, <2>2 DEF Layout
<1>8. offset + l(0) = offset /\ offset + l(N) + 1 = offset + (l(N) + 1)
  <2> HIDE DEF N
  <2>1. \A x \in Nat : offset + 0 = offset /\ offset + x + 1 = offset + (x + 1) OBVIOUS
  <2> HIDE DEF l
  <2> QED BY ONLY <1>2, <1>7, <2>1, Zenon
<1>9. R[M][offset] = offset + Len(FullName(labels))
  <2> HIDE DEF l, R, M, N
  <2> QED BY ONLY <1>6, <1>7, <1>8, Zenon DEF Ends1
<1> QED BY <1>9 DEF NameEnd

-----------------------------------------------------------------------------
(* The request *)

\* The name of a host with such labels fills what is allocated for it.
LEMMA QuestionFull ==
  ASSUME NEW labels \in Seq(Seq(Letter)), labels # <<>>, Readable(labels), NEW rest
  PROVE  QuestionName(labels, rest) = FullName(labels)
<1> DEFINE N == Len(labels)
           name == Labels(labels)[N]
           full == FullName(labels)
<1>1. N \in Nat /\ N # 0 BY LenProperties, EmptySeq
<1>2. /\ Len(name) = Len(Text(labels)) + 1 /\ Len(name) \in Nat
      /\ Len(Text(labels)) \in Nat
  <2>1. N \in 0 .. N BY <1>1
  <2> QED BY <1>1, <2>1, NameLengths DEF Text
<1>3. full \in Seq(Byte) /\ Len(full) = Len(name) + 1
  <2>1. Layout(labels, N, Labels(labels), full) BY FullNameParts
  <2> QED BY <2>1 DEF Layout
<1>4. name # <<>>
  <2>1. Len(<<>>) = 0 OBVIOUS
  <2>2. Len(name) # 0
    <3> HIDE DEF name
    <3> QED BY <1>2
  <2> QED BY ONLY <2>1, <2>2, Zenon
<1>5. Len(full) = Len(Text(labels)) + 2
  <2> HIDE DEF name, full
  <2> QED BY <1>2, <1>3
<1>6. full = Append(name, 0) BY DEF FullName
<1> HIDE DEF name, full
<1>7. QuestionName(labels, rest) = [j \in 1 .. Len(full) |-> IF j <= Len(full) THEN full[j] ELSE rest]
  BY <1>4, <1>5, <1>6 DEF QuestionName, name
<1>8. Len(full) \in Nat BY <1>3, LenProperties
<1>9. [j \in 1 .. Len(full) |-> IF j <= Len(full) THEN full[j] ELSE rest]
      = [j \in 1 .. Len(full) |-> full[j]]
  BY <1>8
<1>10. full = [j \in 1 .. Len(full) |-> full[j]] BY <1>3, LenProperties
<1> QED BY <1>7, <1>9, <1>10 DEF full

\* Both halves of such a number are bytes.
LEMMA QuotientBelow == \A n \in Word : n \div 256 <= 255
BY SMTT(30) DEF Word

LEMMA QuotientAbove == \A n \in Word : n \div 256 >= 0
BY SMTT(30) DEF Word

LEMMA QuotientType == \A n \in Word : n \div 256 \in Int
BY SMTT(30) DEF Word

LEMMA Remainder == \A n \in Word : n % 256 \in Byte
BY SMTT(30) DEF Byte, Word

\* The greatest number two bytes hold.
Limit == 65535

\* The provers are told of the interval by the name of its end.
LEMMA WordIs == Word = 0 .. Limit
BY DEF Word, Limit

LEMMA LimitIs == Limit \in Nat /\ 255 <= Limit
BY DEF Limit

LEMMA SmallWords == {0, 1, 256, 300, 33152} \subseteq Word
BY DEF Word

LEMMA PairType == \A a, b \in Byte : <<a, b>> \in Seq(Byte) /\ Len(<<a, b>>) = 2
OBVIOUS

\* A number of two bytes is written as two bytes.
LEMMA ShortType == \A n \in Word : Short(n) \in Seq(Byte) /\ Len(Short(n)) = 2
<1> SUFFICES ASSUME NEW n \in Word PROVE Short(n) \in Seq(Byte) /\ Len(Short(n)) = 2
  OBVIOUS
<1> DEFINE a == n \div 256
           b == n % 256
<1>1. a <= 255 /\ a >= 0 /\ a \in Int BY QuotientBelow, QuotientAbove, QuotientType
<1>2. b \in Byte BY Remainder
<1> HIDE DEF a, b
<1>3. a \in Byte BY <1>1 DEF Byte
<1> QED BY <1>2, <1>3, PairType DEF Short, a, b

\* Two pieces one behind the other.
LEMMA Joined ==
  \A a, b \in Seq(Byte) : a \o b \in Seq(Byte) /\ Len(a \o b) = Len(a) + Len(b)
BY ConcatProperties

\* Their length, by the lengths that are known.
LEMMA JoinedLen ==
  \A a, b \in Seq(Byte) : \A m, n \in Nat :
    Len(a) = m /\ Len(b) = n => a \o b \in Seq(Byte) /\ Len(a \o b) = m + n
BY Joined, Zenon

\* A number of two bytes behind a piece.
LEMMA ShortBehind ==
  \A s \in Seq(Byte) : \A n \in {0, 1, 256} :
    s \o Short(n) \in Seq(Byte) /\ Len(s \o Short(n)) = Len(s) + 2
<1>1. \A n \in {0, 1, 256} : Short(n) \in Seq(Byte) /\ Len(Short(n)) = 2
  BY SmallWords, ShortType
<1>2. ASSUME NEW s \in Seq(Byte), NEW n \in {0, 1, 256}
      PROVE  s \o Short(n) \in Seq(Byte) /\ Len(s \o Short(n)) = Len(s) + 2
  <2> DEFINE t == Short(n)
             m == Len(s \o t)
             l == Len(t)
  <2>1. t \in Seq(Byte) BY <1>1
  <2>2. l = 2 BY <1>1
  <2> HIDE DEF t
  <2>3. s \o t \in Seq(Byte) /\ m = Len(s) + l BY ONLY <1>2, <2>1, ConcatProperties
  <2> HIDE DEF m, l
  <2>4. m = Len(s) + 2 BY ONLY <2>2, <2>3, Zenon
  <2> QED BY <2>3, <2>4 DEF t, m
<1> QED BY <1>2

\* A header has twelve bytes.
LEMMA HeaderType ==
  ASSUME NEW id \in [1 .. 2 -> 0 .. 255]
  PROVE  Header(id) \in Seq(Byte) /\ Len(Header(id)) = 12
<1>1. id \in Seq(Byte) /\ Len(id) = 2
  <2>1. id \in [1 .. 2 -> Byte] BY DEF Byte
  <2>2. 2 \in Nat OBVIOUS
  <2>3. id = [j \in 1 .. 2 |-> id[j]] /\ \A j \in 1 .. 2 : id[j] \in Byte BY <2>1
  <2>4. id \in Seq(Byte)
    <3> HIDE DEF Byte
    <3>1. [j \in 1 .. 2 |-> id[j]] \in Seq(Byte) BY ONLY <2>2, <2>3, IsASeq
    <3> QED BY ONLY <2>3, <3>1, Zenon
  <2>5. DOMAIN id = 1 .. 2 OBVIOUS
  <2> QED BY <2>4, <2>5, LenProperties
<1> DEFINE a == id \o Short(256)
           b == a \o Short(1)
           c == b \o Short(0)
           d == c \o Short(0)
           e == d \o Short(0)
<1>2. a \in Seq(Byte) /\ Len(a) = Len(id) + 2 BY <1>1, ShortBehind
<1> HIDE DEF a
<1>3. b \in Seq(Byte) /\ Len(b) = Len(a) + 2 BY <1>2, ShortBehind
<1> HIDE DEF b
<1>4. c \in Seq(Byte) /\ Len(c) = Len(b) + 2 BY <1>3, ShortBehind
<1> HIDE DEF c
<1>5. d \in Seq(Byte) /\ Len(d) = Len(c) + 2 BY <1>4, ShortBehind
<1> HIDE DEF d
<1>6. e \in Seq(Byte) /\ Len(e) = Len(d) + 2 BY <1>5, ShortBehind
<1> HIDE DEF e
<1>7. Len(e) = 12 BY <1>1, <1>2, <1>3, <1>4, <1>5, <1>6
<1> QED BY <1>6, <1>7 DEF Header, a, b, c, d, e

\* A piece stands in what it is put into.
LEMMA StandsBetween ==
  ASSUME NEW a \in Seq(Byte), NEW b \in Seq(Byte), NEW c \in Seq(Byte)
  PROVE  Stands((a \o b) \o c, Len(a), b)
<1>1. /\ Len(a) \in Nat /\ Len(b) \in Nat /\ Len(c) \in Nat
      /\ a \o b \in Seq(Byte) /\ Len(a \o b) = Len(a) + Len(b)
      /\ Len((a \o b) \o c) = Len(a \o b) + Len(c)
  BY LenProperties, ConcatProperties
<1>2. ASSUME NEW j \in 1 .. Len(b) PROVE ((a \o b) \o c)[Len(a) + j] = b[j]
  <2>1. Len(a) + j \in 1 .. Len(a \o b) /\ Len(a) + j > Len(a)
        /\ Len(a) + j \in 1 .. Len(a) + Len(b) /\ (Len(a) + j) - Len(a) = j
    BY <1>1
  <2>2. ((a \o b) \o c)[Len(a) + j] = (a \o b)[Len(a) + j] BY <1>1, <2>1, ConcatProperties
  <2>3. (a \o b)[Len(a) + j] = b[(Len(a) + j) - Len(a)] BY <2>1, ConcatProperties
  <2> QED BY <2>1, <2>2, <2>3
<1>3. Len(a) + Len(b) <= Len((a \o b) \o c)
  <2> DEFINE x == Len(a)
             y == Len(b)
             z == Len(c)
             u == Len(a \o b)
             v == Len((a \o b) \o c)
  <2> HIDE DEF x, y, z, u, v
  <2>1. x \in Nat /\ y \in Nat /\ z \in Nat /\ u = x + y /\ v = u + z
    BY <1>1 DEF x, y, z, u, v
  <2>2. x + y <= v BY <2>1
  <2> QED BY <2>2 DEF x, y, v
<1> QED BY <1>2, <1>3 DEF Stands

\* The full name is a sequence of bytes, two longer than the text.
LEMMA FullNameType ==
  ASSUME NEW labels \in Seq(Seq(Letter)), Readable(labels)
  PROVE  FullName(labels) \in Seq(Byte)
BY FullNameParts DEF Layout

\* A request for a host with readable labels is its header, the full name and
\* the type and class.
LEMMA RequestParts ==
  ASSUME NEW labels \in Seq(Seq(Letter)), labels # <<>>, Readable(labels),
         NEW id \in [1 .. 2 -> 0 .. 255], NEW rest
  PROVE  LET message == BuildRequest(id, labels, rest)
         IN  /\ message \in Seq(Byte)
             /\ Len(message) = 12 + Len(FullName(labels)) + 4
             /\ Stands(message, 12, FullName(labels))
<1> DEFINE full == FullName(labels)
           head == Header(id)
           one == Short(1)
           end == one \o one
<1>1. full \in Seq(Byte) /\ Len(full) \in Nat BY FullNameType, LenProperties
<1>2. head \in Seq(Byte) /\ Len(head) = 12 BY HeaderType
<1>3. one \in Seq(Byte) /\ Len(one) = 2 BY SmallWords, ShortType
<1>4. end \in Seq(Byte) /\ Len(end) = 4
  <2>1. 2 \in Nat /\ 2 + 2 = 4 OBVIOUS
  <2> HIDE DEF one
  <2> QED BY ONLY <1>3, <2>1, JoinedLen, Zenon DEF end
<1>5. BuildRequest(id, labels, rest) = ((head \o full) \o one) \o one
  BY QuestionFull DEF BuildRequest
<1>6. head \o full \in Seq(Byte) /\ Len(head \o full) = 12 + Len(full)
  <2>1. head \o full \in Seq(Byte) /\ Len(head \o full) = Len(head) + Len(full)
    BY <1>1, <1>2, Joined
  <2> HIDE DEF head, full
  <2> QED BY <1>2, <2>1
<1>7. ((head \o full) \o one) \o one = (head \o full) \o end
  <2> DEFINE both == head \o full
  <2>1. both \in Seq(Byte) BY <1>6
  <2> HIDE DEF both, one, head, full
  <2>2. (both \o one) \o one = both \o (one \o one)
    BY ONLY <1>3, <2>1, BytesAssociate, Zenon
  <2> QED BY <2>2 DEF both
<1>8. /\ (head \o full) \o end \in Seq(Byte)
      /\ Len((head \o full) \o end) = 12 + Len(full) + 4
  <2> DEFINE both == head \o full
  <2> HIDE DEF both, end, head, full
  <2>1. both \in Seq(Byte) /\ Len(both) = 12 + Len(full) BY <1>6 DEF both
  <2>2. both \o end \in Seq(Byte) /\ Len(both \o end) = Len(both) + Len(end)
    BY <1>4, <2>1, Joined
  <2>3. Len(both \o end) = 12 + Len(full) + 4 BY ONLY <1>4, <2>1, <2>2
  <2> QED BY <2>2, <2>3 DEF both
<1>9. Stands((head \o full) \o end, Len(head), full) BY <1>1, <1>2, <1>4, StandsBetween
<1> HIDE DEF head, full, end, one
<1>10. BuildRequest(id, labels, rest) = (head \o full) \o end BY <1>5, <1>7
<1>11. Stands((head \o full) \o end, 12, full) BY <1>2, <1>9
<1> QED BY <1>8, <1>10, <1>11 DEF full

\* A request without a name has sixteen bytes, and the question of it is too
\* short by one.
LEMMA NamelessUnread ==
  ASSUME NEW id \in [1 .. 2 -> 0 .. 255]
  PROVE  /\ Len(BuildNameless(id)) = 16
         /\ NameEnd(BuildNameless(id), 12) = 13
<1> DEFINE head == Header(id)
           none == Short(0)
           m == (head \o none) \o none
<1>1. head \in Seq(Byte) /\ Len(head) = 12 BY HeaderType
<1>2. none \in Seq(Byte) /\ Len(none) = 2 BY SmallWords, ShortType
<1>3. none[1] = 0
  <2>1. 0 \div 256 = 0 OBVIOUS
  <2> QED BY <2>1 DEF Short
<1>4. m = BuildNameless(id) BY DEF BuildNameless
<1> HIDE DEF head, none
<1>5. head \o none \in Seq(Byte) /\ Len(head \o none) = 14
  <2>1. 12 \in Nat /\ 2 \in Nat /\ 12 + 2 = 14 OBVIOUS
  <2> QED BY ONLY <1>1, <1>2, <2>1, JoinedLen, Zenon
<1>6. m \in Seq(Byte) /\ Len(m) = 16
  <2>1. 14 \in Nat /\ 2 \in Nat /\ 14 + 2 = 16 OBVIOUS
  <2> QED BY ONLY <1>2, <1>5, <2>1, JoinedLen, Zenon
<1>7. Stands(m, 12, none)
  <2>1. Stands(m, Len(head), none) BY <1>1, <1>2, StandsBetween
  <2> HIDE DEF m
  <2> QED BY ONLY <1>1, <2>1, Zenon
<1> HIDE DEF m
<1>8. ByteAt(m, 12) = 0
  <2>1. 12 \in Nat /\ 0 \in Nat /\ 0 + 1 <= Len(none) BY <1>2
  <2>2. ByteAt(m, 12 + 0) = none[0 + 1] BY <1>2, <1>6, <1>7, <2>1, StandsAt
  <2>3. 12 + 0 = 12 /\ 0 + 1 = 1 OBVIOUS
  <2> QED BY ONLY <1>3, <2>2, <2>3, Zenon
<1>9. Turns(m) \in 1 .. Turns(m)
  <2>1. Turns(m) \in Nat /\ Len(m) <= Turns(m) BY <1>6, TurnsType
  <2> QED BY <1>6, <2>1
<1>10. Skipping(m)[Turns(m)][12] = SkipTurn(m, 12, Skipping(m)[Turns(m) - 1])
  <2>1. 12 \in Nat OBVIOUS
  <2> QED BY <1>6, <1>9, <2>1, SkippingFacts
<1>11. NameEnd(m, 12) = 12 + 1 BY ONLY <1>8, <1>10, Zenon DEF NameEnd, SkipTurn
<1> QED BY <1>4, <1>6, <1>11

\* What was sent is a request for the host, which is one of the hosts, or one
\* without a name.
Asked ==
  /\ host \in Hosts
  /\ request # <<>> => request \in Requests \/ request \in NamelessRequests

\* A request without a name is not understood.
LEMMA NamelessNotUnderstood ==
  ASSUME request \in NamelessRequests
  PROVE  ~ Understood
<1>1. PICK id \in Ids : request = BuildNameless(id) BY DEF NamelessRequests
<1>2. id \in [1 .. 2 -> 0 .. 255] BY IdsAssumption
<1>3. Len(request) = 16 /\ NameEnd(request, 12) = 13 BY <1>1, <1>2, NamelessUnread
<1> QED BY <1>3 DEF Understood

\* Only the steps that send change what was sent, and nothing the host.
LEMMA AskedHolds == Spec => []Asked
<1>1. Init => Asked BY DEF Init, Asked
<1>2. Asked /\ [Next]_vars => Asked'
  <2> SUFFICES ASSUME Asked, [Next]_vars PROVE Asked' OBVIOUS
  <2>1. CASE Send BY <2>1 DEF Asked, Send, SendTo, Requests
  <2>2. CASE SendNameless BY <2>2 DEF Asked, SendNameless, SendTo, NamelessRequests
  <2>3. CASE UNCHANGED <<host, request>> BY <2>3 DEF Asked, Requests, NamelessRequests
  <2>4. CASE UNCHANGED vars BY <2>3, <2>4 DEF vars
  <2>5. CASE Next /\ ~ Send /\ ~ SendNameless
    <3>1. UNCHANGED <<host, request>>
      BY <2>5 DEF Next, ClientStep, Open, OpenFails, SendOverrun, CopyFails, Crash,
                  ReceiveAnswer, ReceiveError, Receive, ReadRecord, ReadOverrun,
                  ListFails, ItemFails, Return, NetworkFails, Answer
    <3> QED BY <2>3, <3>1
  <2> QED BY <2>1, <2>2, <2>4, <2>5
<1> QED BY <1>1, <1>2, PTL DEF Spec

\* RequestReadBack: for every host whose labels have lengths that are read as
\* lengths, what the client asks can be read, by its own parser and by the
\* server; and without memory for the name no server takes what it sends for a
\* question.
THEOREM RequestReadBackHolds == Spec => []RequestReadBack
<1>1. Asked => RequestReadBack
  <2> SUFFICES ASSUME Asked, request # <<>>, Readable(host), request \notin NamelessRequests
               PROVE  NameAt(request, 12) = Text(host) /\ Understood
    BY NamelessNotUnderstood DEF RequestReadBack
  <2>1. host \in Seq(Seq(Letter)) /\ host # <<>> BY HostsAssumption DEF Asked
  <2>2. PICK id \in Ids, rest \in Rests : request = BuildRequest(id, host, rest)
    BY DEF Asked, Requests
  <2>3. id \in [1 .. 2 -> 0 .. 255] BY IdsAssumption
  <2>4. /\ request \in Seq(Byte)
        /\ Len(request) = 12 + Len(FullName(host)) + 4
        /\ Stands(request, 12, FullName(host))
    BY <2>1, <2>2, <2>3, RequestParts
  <2>5. NameAt(request, 12) = Text(host)
    <3>1. Len(host) + 1 <= Len(request) BY <2>1, <2>4, TurnEnds
    <3>2. /\ Len(host) \in Nat /\ Len(request) \in Nat
          /\ Turns(request) \in Nat /\ Len(request) <= Turns(request)
      BY <2>1, <2>4, LenProperties, TurnsType
    <3>3. Turns(request) \in Len(host) .. Turns(request) BY <3>1, <3>2
    <3> QED BY <2>1, <2>4, <3>3, NameRead DEF NameAt
  <2>6. Understood
    <3>1. NameEnd(request, 12) = 12 + Len(FullName(host)) BY <2>1, <2>4, NameSkipped
    <3> QED BY <2>4, <3>1 DEF Understood
  <2> QED BY <2>5, <2>6
<1> QED BY <1>1, AskedHolds, PTL

-----------------------------------------------------------------------------
(* The answer *)

\* What stands in a message still stands in a longer one.
LEMMA StandsLonger ==
  ASSUME NEW message \in Seq(Byte), NEW p \in Nat, NEW s \in Seq(Byte),
         Stands(message, p, s), NEW more \in Seq(Byte)
  PROVE  Stands(message \o more, p, s)
<1> DEFINE m == Len(message)
           n == Len(message \o more)
           l == Len(s)
<1>1. m \in Nat /\ l \in Nat /\ Len(more) \in Nat /\ n = m + Len(more)
  BY LenProperties, ConcatProperties
<1>2. p + l <= m BY DEF Stands
<1>3. ASSUME NEW j \in 1 .. l PROVE (message \o more)[p + j] = s[j]
  <2>1. p + j \in 1 .. m
    <3> HIDE DEF m, l
    <3> QED BY <1>1, <1>2
  <2>2. (message \o more)[p + j] = message[p + j] BY <1>1, <2>1, ConcatProperties
  <2> QED BY <2>2 DEF Stands
<1>4. p + l <= n
  <2> HIDE DEF m, n, l
  <2> QED BY <1>1, <1>2
<1> QED BY <1>3, <1>4 DEF Stands

\* What is put behind a message stands there.
LEMMA StandsLast ==
  ASSUME NEW message \in Seq(Byte), NEW s \in Seq(Byte)
  PROVE  Stands(message \o s, Len(message), s)
<1>1. (message \o s) \o <<>> = message \o s /\ <<>> \in Seq(Byte)
  <2>1. message \o s \in Seq(Byte) BY ConcatProperties
  <2> QED BY <2>1, ConcatEmptySeq
<1>2. Stands((message \o s) \o <<>>, Len(message), s) BY <1>1, StandsBetween
<1> QED BY <1>1, <1>2

\* The halves of a number make it up.
LEMMA ShortValue == \A n \in Word : 256 * (n \div 256) + (n % 256) = n
BY SMTT(30) DEF Word

\* Two bytes are read where they stand.
LEMMA PairRead ==
  ASSUME NEW message \in Seq(Byte), NEW p \in Nat, NEW s \in Seq(Byte), Len(s) = 2,
         Stands(message, p, s)
  PROVE  ByteAt(message, p) = s[1] /\ ByteAt(message, p + 1) = s[2]
<1>1. p + 0 = p /\ 0 + 1 = 1 /\ 1 + 1 = 2 /\ 0 \in Nat /\ 1 \in Nat /\ 1 <= 2 /\ 2 <= 2
  OBVIOUS
<1>2. ByteAt(message, p + 0) = s[0 + 1] BY <1>1, StandsAt
<1>3. ByteAt(message, p + 1) = s[1 + 1] BY <1>1, StandsAt
<1> QED BY ONLY <1>1, <1>2, <1>3, Zenon

\* Two bytes are read as the number they were written for.
LEMMA ShortRead ==
  ASSUME NEW message \in Seq(Byte), NEW p \in Nat, NEW n \in Word, Stands(message, p, Short(n))
  PROVE  ShortAt(message, p) = n
<1> DEFINE s == Short(n)
<1>1. s \in Seq(Byte) /\ Len(s) = 2 BY ShortType
<1>2. Stands(message, p, s) OBVIOUS
<1> HIDE DEF s
<1>3. ByteAt(message, p) = s[1] /\ ByteAt(message, p + 1) = s[2] BY <1>1, <1>2, PairRead
<1>4. s[1] = n \div 256 /\ s[2] = n % 256 BY DEF Short, s
<1>5. ShortAt(message, p) = 256 * (n \div 256) + (n % 256) BY <1>3, <1>4 DEF ShortAt
<1> QED BY <1>5, ShortValue

\* Names that a question and an answer may hold.
Good(labels) == labels \in Seq(Seq(Letter)) /\ labels # <<>> /\ Readable(labels)

\* A server's name in full, with its lengths and its end, has at most 255 bytes.
LEMMA NamesGood ==
  ASSUME NEW name \in Names
  PROVE  /\ Good(name)
         /\ Len(FullName(name)) \in Nat /\ Len(FullName(name)) <= 255
<1> DEFINE S == {label \in Seq(Letter) : Len(label) \in 1 .. 63}
           N == Len(name)
<1>1. name \in Seq(S) /\ name # <<>> /\ Len(Text(name)) <= 253 BY DEF Names
<1>2. name \in Seq(Seq(Letter))
  <2>1. S \subseteq Seq(Letter) OBVIOUS
  <2> HIDE DEF S
  <2> QED BY <1>1, <2>1, SeqMonotonic
<1>3. Readable(name)
  <2>1. ASSUME NEW k \in DOMAIN name PROVE Len(name[k]) \in 1 .. 191
    <3>1. name[k] \in S
      <4>1. k \in 1 .. Len(name) BY <1>1, LenProperties
      <4> HIDE DEF S
      <4> QED BY <1>1, <4>1, ElementOfSeq
    <3> DEFINE length == Len(name[k])
    <3>2. length \in 1 .. 63 BY <3>1
    <3> HIDE DEF length
    <3>3. length \in 1 .. 191 BY ONLY <3>2
    <3> QED BY <3>3 DEF length
  <2> QED BY <2>1 DEF Readable
<1>4. N \in Nat /\ N # 0 BY <1>1, <1>2, LenProperties, EmptySeq
<1>5. /\ Len(Labels(name)[N]) = Len(Text(name)) + 1
      /\ Len(Labels(name)[N]) \in Nat /\ Len(Text(name)) \in Nat
  <2>1. N \in 0 .. N BY <1>4
  <2> QED BY <1>2, <1>3, <1>4, <2>1, NameLengths DEF Text
<1>6. Len(FullName(name)) = Len(Labels(name)[N]) + 1
  BY <1>2, <1>3, FullNameParts DEF Layout
<1>7. Len(FullName(name)) \in Nat /\ Len(FullName(name)) <= 255
  <2> DEFINE x == Len(Labels(name)[N])
             y == Len(Text(name))
             z == Len(FullName(name))
  <2>1. x = y + 1 /\ x \in Nat /\ y \in Nat /\ z = x + 1 /\ y <= 253 BY <1>1, <1>5, <1>6
  <2> HIDE DEF x, y, z
  <2>2. z \in Nat /\ z <= 255 BY <2>1
  <2> QED BY <2>2 DEF z
<1> QED BY <1>1, <1>2, <1>3, <1>7 DEF Good

\* The greatest of some numbers.
LEMMA MostExists ==
  ASSUME NEW n \in Nat, NEW S, S \subseteq 1 .. n, S # {}
  PROVE  Max(S) \in S /\ \A m \in S : Max(S) >= m
<1> DEFINE T == {n - m : m \in S}
<1>1. T \subseteq Nat /\ T # {} OBVIOUS
<1>2. PICK t \in T : \A u \in T : t <= u
  <2> HIDE DEF T
  <2> QED BY <1>1, LeastNat
<1>3. PICK m \in S : t = n - m OBVIOUS
<1>4. \A k \in S : m >= k
  <2> SUFFICES ASSUME NEW k \in S PROVE m >= k OBVIOUS
  <2>1. t <= n - k BY <1>2
  <2> QED BY <1>3, <2>1
<1> QED BY <1>3, <1>4 DEF Max

\* A length of at most 255 is written in two bytes.
LEMMA ByteWords == \A n \in Nat : n <= 255 => n \in Word
BY WordIs, LimitIs

LEMMA FourBytes == \A n \in Nat : 1 .. n = 1 .. 4 => n = 4
<1> SUFFICES ASSUME NEW n \in Nat, 1 .. n = 1 .. 4 PROVE n = 4 OBVIOUS
<1>1. 4 \in 1 .. n /\ 5 \notin 1 .. n OBVIOUS
<1> QED BY <1>1

LEMMA AliasFacts ==
  ASSUME NEW r \in Aliases
  PROVE  r.type \in Word /\ r.type # HostType /\ r.data \in Names
BY DEF Aliases

Records == Addresses \cup Aliases

\* A record's data are bytes: the four of an address, or a name in full.
LEMMA DataFacts ==
  ASSUME NEW r \in Records
  PROVE  /\ Data(r) \in Seq(Byte) /\ Len(Data(r)) \in Nat
         /\ Len(Data(r)) \in Word /\ r.type \in Word
         /\ r.type = HostType => /\ r.data \in [1 .. 4 -> 0 .. 255]
                                 /\ Data(r) = r.data /\ Len(Data(r)) = 4
         /\ r.type # HostType => r.data \in Names /\ Data(r) = FullName(r.data)
<1>1. CASE r \in Addresses
  <2>1. r.type = HostType /\ r.data \in [1 .. 4 -> 0 .. 255] BY <1>1 DEF Addresses
  <2>2. Data(r) = r.data BY <2>1 DEF Data
  <2>3. r.data \in Seq(Byte)
    <3>1. 4 \in Nat /\ \A j \in 1 .. 4 : r.data[j] \in Byte BY <2>1 DEF Byte
    <3>2. r.data = [j \in 1 .. 4 |-> r.data[j]] BY <2>1
    <3> HIDE DEF Byte
    <3>3. [j \in 1 .. 4 |-> r.data[j]] \in Seq(Byte) BY ONLY <3>1, IsASeq
    <3> QED BY ONLY <3>2, <3>3, Zenon
  <2>4. Len(r.data) = 4
    <3>1. DOMAIN r.data = 1 .. 4 BY <2>1
    <3>2. Len(r.data) \in Nat /\ DOMAIN r.data = 1 .. Len(r.data) BY <2>3, LenProperties
    <3> QED BY ONLY <3>1, <3>2, FourBytes, Zenon
  <2>5. 4 \in Nat /\ 4 \in Word /\ HostType \in Word BY DEF Word, HostType
  <2> QED BY ONLY <2>1, <2>2, <2>3, <2>4, <2>5, Zenon
<1>2. CASE r \in Aliases
  <2>1. r.type \in Word /\ r.type # HostType /\ r.data \in Names BY <1>2, AliasFacts
  <2>2. Data(r) = FullName(r.data) BY <2>1 DEF Data
  <2>3. FullName(r.data) \in Seq(Byte)
    <3>1. Good(r.data) BY <2>1, NamesGood
    <3> QED BY <3>1, FullNameType DEF Good
  <2>4. Len(FullName(r.data)) \in Nat /\ Len(FullName(r.data)) <= 255 BY <2>1, NamesGood
  <2> QED BY <2>1, <2>2, <2>3, <2>4, ByteWords, Zenon
<1> QED BY <1>1, <1>2 DEF Records

\* What is put behind something and what it is put behind stand in the whole.
Adds(s, piece) ==
  /\ s \o piece \in Seq(Byte) /\ Len(s \o piece) = Len(s) + Len(piece)
  /\ Stands(s \o piece, Len(s), piece)
  /\ \A q \in Nat, t \in Seq(Byte) : Stands(s, q, t) => Stands(s \o piece, q, t)

LEMMA Added ==
  ASSUME NEW s \in Seq(Byte), NEW piece \in Seq(Byte)
  PROVE  Adds(s, piece)
<1>1. s \o piece \in Seq(Byte) /\ Len(s \o piece) = Len(s) + Len(piece) BY Joined, Zenon
<1>2. Stands(s \o piece, Len(s), piece) BY StandsLast
<1>3. \A q \in Nat, t \in Seq(Byte) : Stands(s, q, t) => Stands(s \o piece, q, t)
  BY StandsLonger
<1> QED BY <1>1, <1>2, <1>3 DEF Adds

Pair(s) == s \in Seq(Byte) /\ Len(s) = 2

\* Six numbers of two bytes with a piece behind them: the shape of a record, and
\* of an answer's header with what follows it.
Assembled(p, t, c, u, v, l, d) == p \o t \o c \o u \o v \o l \o d


\* Where the parser looks for them.
Fields(m, p, t, c, u, l, d) ==
  /\ m \in Seq(Byte) /\ Len(m) = 12 + Len(d)
  /\ Stands(m, 0, p) /\ Stands(m, 2, t) /\ Stands(m, 4, c) /\ Stands(m, 6, u)
  /\ Stands(m, 10, l) /\ Stands(m, 12, d)

\* Such a sequence has its fields there.
LEMMA AssembledFields ==
  ASSUME NEW p, Pair(p), NEW t, Pair(t), NEW c, Pair(c), NEW u, Pair(u),
         NEW v, Pair(v), NEW l, Pair(l), NEW d \in Seq(Byte)
  PROVE  Fields(Assembled(p, t, c, u, v, l, d), p, t, c, u, l, d)
<1> DEFINE a == p \o t
           b == a \o c
           e == b \o u
           f == e \o v
           g == f \o l
           h == g \o d
<1>0. /\ 0 \in Nat /\ 2 \in Nat /\ 4 \in Nat /\ 6 \in Nat /\ 10 \in Nat
      /\ 2 + 2 = 4 /\ 4 + 2 = 6 /\ 6 + 2 = 8 /\ 8 + 2 = 10 /\ 10 + 2 = 12
  OBVIOUS
<1>1. /\ p \in Seq(Byte) /\ t \in Seq(Byte) /\ c \in Seq(Byte) /\ u \in Seq(Byte)
      /\ v \in Seq(Byte) /\ l \in Seq(Byte) /\ d \in Seq(Byte)
      /\ Len(p) = 2 /\ Len(t) = 2 /\ Len(c) = 2 /\ Len(u) = 2 /\ Len(v) = 2 /\ Len(l) = 2
  BY DEF Pair
<1>2. Stands(p, 0, p)
  <2>1. <<>> \in Seq(Byte) /\ <<>> \o p = p /\ Len(<<>>) = 0 BY <1>1, ConcatEmptySeq
  <2> QED BY <1>1, <2>1, StandsLast
<1>3. /\ a \in Seq(Byte) /\ Len(a) = 4
      /\ Stands(a, 0, p) /\ Stands(a, 2, t)
  <2>1. Adds(p, t) BY <1>1, <1>2, Added
  <2> QED BY ONLY <1>0, <1>1, <1>2, <2>1, Zenon DEF a, Adds
<1> HIDE DEF a
<1>4. /\ b \in Seq(Byte) /\ Len(b) = 6
      /\ Stands(b, 0, p) /\ Stands(b, 2, t) /\ Stands(b, 4, c)
  <2>1. Adds(a, c) BY <1>1, <1>3, Added
  <2> QED BY ONLY <1>0, <1>1, <1>3, <2>1, Zenon DEF b, Adds
<1> HIDE DEF b
<1>5. /\ e \in Seq(Byte) /\ Len(e) = 8
      /\ Stands(e, 0, p) /\ Stands(e, 2, t) /\ Stands(e, 4, c) /\ Stands(e, 6, u)
  <2>1. Adds(b, u) BY <1>1, <1>4, Added
  <2> QED BY ONLY <1>0, <1>1, <1>4, <2>1, Zenon DEF e, Adds
<1> HIDE DEF e
<1>6. /\ f \in Seq(Byte) /\ Len(f) = 10
      /\ Stands(f, 0, p) /\ Stands(f, 2, t) /\ Stands(f, 4, c) /\ Stands(f, 6, u)
  <2>1. Adds(e, v) BY <1>1, <1>5, Added
  <2> QED BY ONLY <1>0, <1>1, <1>5, <2>1, Zenon DEF f, Adds
<1> HIDE DEF f
<1>7. /\ g \in Seq(Byte) /\ Len(g) = 12
      /\ Stands(g, 0, p) /\ Stands(g, 2, t) /\ Stands(g, 4, c) /\ Stands(g, 6, u) /\ Stands(g, 10, l)
  <2>1. Adds(f, l) BY <1>1, <1>6, Added
  <2> QED BY ONLY <1>0, <1>1, <1>6, <2>1, Zenon DEF g, Adds
<1> HIDE DEF g
<1>8. Fields(h, p, t, c, u, l, d)
  <2>1. Adds(g, d) BY <1>1, <1>7, Added
  <2> QED BY ONLY <1>0, <1>1, <1>7, <2>1, Zenon DEF h, Adds, Fields
<1> QED BY <1>8 DEF Assembled, a, b, e, f, g

\* An answer to a request for a host with readable labels, one the parser is
\* made for.
Served(answered) ==
  /\ Good(answered.host)
  /\ answered.request \in Seq(Byte)
  /\ Len(answered.request) = 12 + Len(FullName(answered.host)) + 4
  /\ Stands(answered.request, 12, FullName(answered.host))
  /\ answered.records \in Seq(Records) /\ Len(answered.records) \in Word
  /\ Plain(answered)

\* The answer's records are records.
LEMMA RecordTypes ==
  ASSUME NEW answered, Served(answered)
  PROVE  /\ Len(answered.records) \in Nat
         /\ \A k \in 1 .. Len(answered.records) : answered.records[k] \in Records
BY LenProperties, ElementOfSeq DEF Served

\* The aliases before a record are records; the last of them is one.
LEMMA LastAlias ==
  ASSUME NEW answered, Served(answered), NEW k \in 1 .. Len(answered.records),
         AliasesBefore(answered, k) # {}
  PROVE  LET alias == Max(AliasesBefore(answered, k))
         IN  /\ alias \in 1 .. Len(answered.records) /\ alias < k
             /\ answered.records[alias].type = CnameType
             /\ answered.records[alias].data \in Names
             /\ Data(answered.records[alias]) = FullName(answered.records[alias].data)
<1> DEFINE before == AliasesBefore(answered, k)
           N == Len(answered.records)
<1>1. N \in Nat /\ \A j \in 1 .. N : answered.records[j] \in Records BY RecordTypes
<1>2. before \subseteq 1 .. N /\ \A j \in before : j < k /\ answered.records[j].type = CnameType
  BY <1>1 DEF AliasesBefore
<1>3. Max(before) \in before
  <2> HIDE DEF before, N
  <2>1. before # {} BY DEF before
  <2> QED BY <1>1, <1>2, <2>1, MostExists
<1> DEFINE alias == Max(before)
<1> HIDE DEF alias, before, N
<1>4. alias \in 1 .. N /\ alias < k /\ answered.records[alias].type = CnameType
  BY <1>2, <1>3 DEF alias
<1>5. answered.records[alias] \in Records BY <1>1, <1>4
<1>6. CnameType # HostType BY DEF CnameType, HostType
<1>7. answered.records[alias].data \in Names
      /\ Data(answered.records[alias]) = FullName(answered.records[alias].data)
  BY <1>4, <1>5, <1>6, DataFacts
<1> QED BY <1>4, <1>7 DEF alias, before, N

\* Owners are the host or names of the server's.
LEMMA OwnerGood ==
  ASSUME NEW answered, Served(answered), NEW k \in 1 .. Len(answered.records)
  PROVE  Good(OwnerOf(answered, k))
<1>1. CASE AliasesBefore(answered, k) = {} BY <1>1 DEF OwnerOf, Served
<1>2. CASE AliasesBefore(answered, k) # {}
  <2>1. answered.records[Max(AliasesBefore(answered, k))].data \in Names
    BY <1>2, LastAlias, Zenon
  <2> QED BY <1>2, <2>1, NamesGood DEF OwnerOf
<1> QED BY <1>1, <1>2

\* The offsets are those of the loop in Ends.
LEMMA EndsFacts ==
  ASSUME NEW answered, Served(answered)
  PROVE  LET N == Len(answered.records)
             E == Ends(answered)
         IN  /\ E \in [0 .. N -> Nat] /\ E[0] = Len(answered.request)
             /\ \A k \in 1 .. N : E[k] = E[k - 1] + (12 + Len(Data(answered.records[k])))
<1> DEFINE N == Len(answered.records)
           E == Ends(answered)
           size(k) == Len(Data(answered.records[k]))
           tail(k) == IF answered.pointers THEN 2 ELSE Len(FullName(OwnerOf(answered, k)))
           turn(k, e) == e + 10 + size(k) + tail(k)
           step == [k \in 1 .. N |-> [e \in Nat |-> turn(k, e)]]
           first == Len(answered.request)
           Follows(f) == f = [k \in 0 .. N |-> IF k = 0 THEN first ELSE turn(k, f[k - 1])]
<1>1. N \in Nat /\ first \in Nat BY LenProperties, RecordTypes DEF Served
<1>2. \A k \in 1 .. N : size(k) \in Nat
  <2>1. \A k \in 1 .. N : answered.records[k] \in Records BY RecordTypes
  <2> QED BY <2>1, DataFacts
<1>3. \A k : tail(k) = 2 BY DEF Served, Plain
<1>4. \A k \in 1 .. N : \A e \in Nat : turn(k, e) \in Nat /\ turn(k, e) = e + (12 + size(k))
  <2> HIDE DEF size, tail, N
  <2> QED BY <1>2, <1>3
<1>5. PICK f \in [0 .. N -> Nat] : Loops(f, N, first, step)
  <2>1. step \in [1 .. N -> [Nat -> Nat]]
    <3> HIDE DEF turn, N
    <3> QED BY <1>4
  <2> HIDE DEF step, N, first
  <2> QED BY <1>1, <2>1, Loop
<1>6. Follows(f)
  <2>1. ASSUME NEW k \in 0 .. N, k # 0 PROVE step[k][f[k - 1]] = turn(k, f[k - 1])
    <3>1. k \in 1 .. N /\ k - 1 \in 0 .. N BY <1>1, <2>1
    <3>2. f[k - 1] \in Nat BY <3>1
    <3> HIDE DEF turn
    <3> QED BY <3>1, <3>2
  <2> HIDE DEF step, turn, first
  <2> QED BY <1>5, <2>1 DEF Loops
<1>7. Follows(E)
  <2>1. Ends(answered) = CHOOSE g : Follows(g) BY DEF Ends
  <2> HIDE DEF Follows
  <2> QED BY <1>6, <2>1
<1>8. \A k \in 0 .. N : E[k] = IF k = 0 THEN first ELSE turn(k, E[k - 1]) BY <1>7
<1>9. E \in [0 .. N -> Nat]
  <2> DEFINE P == {k \in 0 .. N : E[k] \in Nat}
  <2> HIDE DEF turn, E, N, first
  <2>1. 0 \in P BY <1>1, <1>8
  <2>2. ASSUME NEW n \in 0 .. N, n + 1 <= N, n \in P PROVE n + 1 \in P
    <3>1. n + 1 \in 0 .. N /\ n + 1 \in 1 .. N /\ n + 1 # 0 /\ (n + 1) - 1 = n BY <1>1, <2>2
    <3>2. E[n + 1] = turn(n + 1, E[n]) BY <1>8, <3>1
    <3> QED BY <1>4, <2>2, <3>1, <3>2
  <2>3. \A n \in 0 .. N : n \in P
    <3> HIDE DEF P
    <3> QED BY <1>1, <2>1, <2>2, Induct
  <2>4. E = [k \in 0 .. N |-> E[k]] BY <1>7 DEF E
  <2> QED BY <2>3, <2>4
<1>10. ASSUME NEW k \in 1 .. N PROVE E[k] = E[k - 1] + (12 + size(k))
  <2>1. k \in 0 .. N /\ k # 0 /\ k - 1 \in 0 .. N BY <1>1
  <2> HIDE DEF turn, E, N, first, size
  <2>2. E[k] = turn(k, E[k - 1]) /\ E[k - 1] \in Nat BY <1>8, <1>9, <2>1
  <2> QED BY <1>4, <2>2
<1>11. E[0] = first
  <2>1. 0 \in 0 .. N BY <1>1
  <2> HIDE DEF turn, E, N, first
  <2> QED BY <1>8, <2>1
<1> QED BY <1>9, <1>10, <1>11

\* An owner stands in full where its pointer says, in the first 256 bytes.
LEMMA OffsetType ==
  ASSUME NEW answered, Served(answered), NEW k \in 1 .. Len(answered.records)
  PROVE  OwnerOffset(answered, k) \in Byte
<1> DEFINE N == Len(answered.records)
           E == Ends(answered)
           off == OwnerOffset(answered, k)
<1>1. off < 256
  <2>1. k \in DOMAIN answered.records BY LenProperties DEF Served
  <2> QED BY <2>1 DEF Served, Plain
<1>2. off \in Nat
  <2>1. CASE AliasesBefore(answered, k) = {} BY <2>1 DEF OwnerOffset
  <2>2. CASE AliasesBefore(answered, k) # {}
    <3> DEFINE alias == Max(AliasesBefore(answered, k))
               size == Len(Data(answered.records[alias]))
    <3>1. alias \in 1 .. N BY <2>2, LastAlias
    <3>2. off = E[alias] - size BY <2>2 DEF OwnerOffset
    <3> HIDE DEF alias, E, off, size, N
    <3>3. E[alias] = E[alias - 1] + (12 + size) BY <3>1, EndsFacts DEF E, N, size
    <3>4. alias - 1 \in 0 .. N /\ N \in Nat BY <3>1, RecordTypes DEF N
    <3>5. E[alias - 1] \in Nat BY <3>4, EndsFacts DEF E, N
    <3>6. size \in Nat
      <4>1. answered.records[alias] \in Records BY <3>1, RecordTypes DEF N
      <4> QED BY <4>1, DataFacts DEF size
    <3>7. off = E[alias - 1] + 12
      <4> DEFINE e == E[alias - 1]
      <4>1. E[alias] = e + (12 + size) /\ e \in Nat BY <3>3, <3>5
      <4> HIDE DEF e
      <4>2. off = e + 12 BY <3>2, <3>6, <4>1
      <4> QED BY <4>2 DEF e
    <3> QED BY <3>5, <3>7
  <2> QED BY <2>1, <2>2
<1> HIDE DEF off
<1>3. off \in Byte BY <1>1, <1>2 DEF Byte
<1> QED BY <1>3 DEF off

LEMMA PointerQuotient == \A o \in Byte : (49152 + o) \div 256 = 192
BY DEF Byte

LEMMA PointerRemainder == \A o \in Byte : (49152 + o) % 256 = o
BY DEF Byte

\* A pointer to the first 256 bytes has its offset in its second byte.
LEMMA PointerBytes ==
  ASSUME NEW o \in Byte
  PROVE  Pointer(o) = <<192, o>> /\ Pair(Pointer(o))
<1>1. Pointer(o) = <<192, o>> BY PointerQuotient, PointerRemainder DEF Pointer, Short
<1>2. 192 \in Byte BY DEF Byte
<1> QED BY <1>1, <1>2, PairType DEF Pair

LEMMA ShortPair == \A n \in Word : Pair(Short(n))
BY ShortType DEF Pair

\* The fields of a record.
LEMMA RecordFields ==
  ASSUME NEW answered, Served(answered), NEW k \in 1 .. Len(answered.records)
  PROVE  LET r == answered.records[k]
         IN  Fields(Record(answered, k), Pointer(OwnerOffset(answered, k)), Short(r.type),
                    Short(1), Short(0), Short(Len(Data(r))), Data(r))
<1> DEFINE r == answered.records[k]
           p == Pointer(OwnerOffset(answered, k))
<1>1. r \in Records BY RecordTypes
<1>2. r.type \in Word /\ Len(Data(r)) \in Word /\ Data(r) \in Seq(Byte) BY <1>1, DataFacts
<1>3. Pair(Short(r.type)) /\ Pair(Short(Len(Data(r)))) BY <1>2, ShortPair
<1>4. Pair(Short(1)) /\ Pair(Short(0)) /\ Pair(Short(300)) BY SmallWords, ShortPair
<1>5. Pair(p) BY OffsetType, PointerBytes
<1>6. Record(answered, k) = Assembled(p, Short(r.type), Short(1), Short(0), Short(300),
                                      Short(Len(Data(r))), Data(r))
  <2>1. answered.pointers BY DEF Served, Plain
  <2> QED BY ONLY <2>1, Zenon DEF Record, Assembled
<1> HIDE DEF r, p
<1>7. Fields(Assembled(p, Short(r.type), Short(1), Short(0), Short(300),
                       Short(Len(Data(r))), Data(r)),
             p, Short(r.type), Short(1), Short(0), Short(Len(Data(r))), Data(r))
  BY <1>2, <1>3, <1>4, <1>5, AssembledFields
<1> QED BY <1>6, <1>7 DEF r, p

\* The header of an answer with the question behind it.
FirstPart(answered) ==
  Assembled(SubSeq(answered.request, 1, 2), Short(33152), Short(1),
            Short(Len(answered.records)), Short(0), Short(0),
            SubSeq(answered.request, 13, Len(answered.request)))

Parts(answered) == [k \in 1 .. Len(answered.records) |-> Record(answered, k)]

\* The first part is as long as the request, with the host's name at 12.
LEMMA FirstPartFields ==
  ASSUME NEW answered, Served(answered)
  PROVE  LET asked == answered.request
         IN  /\ Fields(FirstPart(answered), SubSeq(asked, 1, 2), Short(33152), Short(1),
                       Short(Len(answered.records)), Short(0),
                       SubSeq(asked, 13, Len(asked)))
             /\ Stands(SubSeq(asked, 13, Len(asked)), 0, FullName(answered.host))
             /\ SubSeq(asked, 13, Len(asked)) \in Seq(Byte)
             /\ Len(FirstPart(answered)) = Len(asked)
<1> DEFINE asked == answered.request
           n == Len(asked)
           name == FullName(answered.host)
           behind == SubSeq(asked, 13, n)
           id == SubSeq(asked, 1, 2)
<1>1. asked \in Seq(Byte) /\ n \in Nat BY LenProperties DEF Served
<1>2. name \in Seq(Byte) /\ Len(name) \in Nat
  <2>1. name \in Seq(Byte) BY FullNameType DEF Served, Good
  <2> QED BY <2>1, LenProperties
<1>3. n = 12 + Len(name) + 4 BY DEF Served
<1>4. Stands(asked, 12, name) BY DEF Served
<1> HIDE DEF asked, name, n
<1>5. 1 \in 1 .. n /\ 2 \in 1 .. n /\ 13 \in 1 .. n /\ n \in 1 .. n
  <2> DEFINE l == Len(name)
  <2>1. n = 12 + l + 4 /\ l \in Nat BY <1>2, <1>3
  <2> HIDE DEF l
  <2> QED BY <2>1
<1>6. Pair(id)
  <2>1. id \in Seq(Byte) BY <1>1, <1>5, SubSeqProperties DEF n
  <2>2. Len(id) = 2 BY <1>1, <1>5, SubSeqProperties DEF n
  <2> QED BY <2>1, <2>2 DEF Pair
<1>7. /\ behind \in Seq(Byte) /\ Len(behind) = n - 12
      /\ \A j \in 1 .. n - 12 : behind[j] = asked[12 + j]
  <2>1. behind \in Seq(Byte) BY <1>1, <1>5, SubSeqProperties DEF n
  <2>2. Len(behind) = n - 12 BY <1>1, <1>5, SubSeqProperties DEF n
  <2>3. ASSUME NEW j \in 1 .. n - 12 PROVE behind[j] = asked[12 + j]
    <3>1. j \in 1 .. n - 13 + 1 /\ 13 + j - 1 = 12 + j BY <1>1
    <3>2. behind[j] = asked[13 + j - 1] BY <1>1, <1>5, <3>1, SubSeqProperties DEF n
    <3> QED BY <3>1, <3>2
  <2> QED BY <2>1, <2>2, <2>3
<1> HIDE DEF behind, id
<1>8. Stands(behind, 0, name)
  <2> DEFINE l == Len(name)
  <2>1. n = 12 + l + 4 /\ l \in Nat BY <1>2, <1>3
  <2>2. \A j \in 1 .. l : asked[12 + j] = name[j] BY <1>4 DEF Stands
  <2>3. Len(behind) = n - 12 BY <1>7
  <2> HIDE DEF l
  <2>4. \A j \in 1 .. l : j \in 1 .. n - 12 /\ 0 + j = j BY <2>1
  <2>5. 0 + l <= Len(behind) BY <2>1, <2>3
  <2>6. \A j \in 1 .. l : behind[0 + j] = name[j] BY <1>7, <2>2, <2>4
  <2> QED BY <2>5, <2>6 DEF Stands, l
<1>9. Pair(Short(33152)) /\ Pair(Short(1)) /\ Pair(Short(0)) BY SmallWords, ShortPair
<1>10. Pair(Short(Len(answered.records))) BY ShortPair DEF Served
<1>11. Fields(Assembled(id, Short(33152), Short(1), Short(Len(answered.records)),
                        Short(0), Short(0), behind),
              id, Short(33152), Short(1), Short(Len(answered.records)), Short(0), behind)
  BY <1>6, <1>7, <1>9, <1>10, AssembledFields
<1>12. FirstPart(answered) = Assembled(id, Short(33152), Short(1),
                               Short(Len(answered.records)), Short(0), Short(0), behind)
  BY DEF FirstPart, id, behind, n, asked
<1>13. Len(FirstPart(answered)) = n
  <2>1. Len(FirstPart(answered)) = 12 + Len(behind) BY <1>11, <1>12 DEF Fields
  <2> QED BY <1>1, <1>7, <2>1
<1>14. Fields(FirstPart(answered), id, Short(33152), Short(1),
              Short(Len(answered.records)), Short(0), behind)
  BY <1>11, <1>12
<1> QED BY <1>7, <1>8, <1>13, <1>14 DEF id, behind, n, asked, name

\* What the message is put together from are bytes.
LEMMA PartsType ==
  ASSUME NEW answered, Served(answered)
  PROVE  /\ Parts(answered) \in [1 .. Len(answered.records) -> Seq(Byte)]
         /\ FirstPart(answered) \in Seq(Byte)
<1>1. \A k \in 1 .. Len(answered.records) : Record(answered, k) \in Seq(Byte)
  BY RecordFields DEF Fields
<1>2. FirstPart(answered) \in Seq(Byte) BY FirstPartFields DEF Fields
<1> QED BY <1>1, <1>2 DEF Parts

\* The message grows record by record.
LEMMA WrittenGrows ==
  ASSUME NEW answered, Served(answered)
  PROVE  Grows(Written(answered), Len(answered.records), Byte,
               FirstPart(answered), Parts(answered))
<1> DEFINE N == Len(answered.records)
           first == FirstPart(answered)
           add == Parts(answered)
           Follows(f) == f = [k \in 0 .. N |->
             IF k = 0
             THEN SubSeq(answered.request, 1, 2) \o Short(33152) \o Short(1) \o Short(N)
                  \o Short(0) \o Short(0)
                  \o SubSeq(answered.request, 13, Len(answered.request))
             ELSE f[k - 1] \o Record(answered, k)]
<1>1. N \in Nat BY RecordTypes
<1>2. first \in Seq(Byte) /\ add \in [1 .. N -> Seq(Byte)] BY PartsType
<1>3. \E f : Collects(f, N, first, add)
  <2> HIDE DEF N, first, add
  <2> QED BY <1>1, <1>2, CollectExists
<1>4. ASSUME NEW f PROVE Collects(f, N, first, add) <=> Follows(f)
  <2>1. \A k \in 0 .. N : k # 0 => add[k] = Record(answered, k) BY <1>1 DEF Parts
  <2>2. first = SubSeq(answered.request, 1, 2) \o Short(33152) \o Short(1) \o Short(N)
                \o Short(0) \o Short(0)
                \o SubSeq(answered.request, 13, Len(answered.request))
    BY DEF FirstPart, Assembled
  <2> DEFINE head == SubSeq(answered.request, 1, 2) \o Short(33152) \o Short(1) \o Short(N)
                     \o Short(0) \o Short(0)
                     \o SubSeq(answered.request, 13, Len(answered.request))
  <2>3. first = head BY <2>2
  <2>4. Follows(f) <=>
          f = [k \in 0 .. N |-> IF k = 0 THEN head ELSE f[k - 1] \o Record(answered, k)]
    OBVIOUS
  <2> HIDE DEF head, first, add, Follows, N
  <2> QED BY <2>1, <2>3, <2>4 DEF Collects
<1>5. Written(answered) = CHOOSE f : Follows(f) BY DEF Written
<1>6. Collects(Written(answered), N, first, add)
  <2> HIDE DEF Follows, N, first, add
  <2> QED BY <1>3, <1>4, <1>5
<1> HIDE DEF N, first, add
<1>7. Grows(Written(answered), N, Byte, first, add) BY <1>1, <1>2, <1>6, Collected
<1> QED BY <1>7 DEF N, first, add

\* Each record ends where Ends says.
LEMMA WrittenEnds ==
  ASSUME NEW answered, Served(answered)
  PROVE  \A k \in 0 .. Len(answered.records) :
           Len(Written(answered)[k]) = Ends(answered)[k]
<1> DEFINE N == Len(answered.records)
           W == Written(answered)
           E == Ends(answered)
           P == {k \in 0 .. N : Len(W[k]) = E[k]}
           size(k) == Len(Data(answered.records[k]))
<1>1. N \in Nat BY RecordTypes
<1>2. 0 \in P
  <2>1. Len(W[0]) = Len(answered.request)
    <3>1. W[0] = FirstPart(answered)
      <4> HIDE DEF W
      <4> QED BY WrittenGrows DEF W, Grows
    <3>2. Len(FirstPart(answered)) = Len(answered.request) BY FirstPartFields
    <3> HIDE DEF W
    <3> QED BY ONLY <3>1, <3>2, Zenon
  <2>2. E[0] = Len(answered.request) BY EndsFacts
  <2>3. 0 \in 0 .. N BY <1>1
  <2> QED BY <2>1, <2>2, <2>3
<1>3. ASSUME NEW n \in 0 .. N, n + 1 <= N, n \in P PROVE n + 1 \in P
  <2>1. n + 1 \in 1 .. N /\ n + 1 \in 0 .. N /\ (n + 1) - 1 = n BY <1>1, <1>3
  <2>2. Len(W[n + 1]) = Len(W[n]) + Len(Parts(answered)[n + 1])
    <3>1. Len(W[n + 1]) = Len(W[(n + 1) - 1]) + Len(Parts(answered)[n + 1])
      <4> HIDE DEF N, W
      <4>1. Grows(W, N, Byte, FirstPart(answered), Parts(answered))
        BY WrittenGrows DEF N, W
      <4> QED BY <2>1, <4>1, Zenon DEF Grows
    <3> HIDE DEF W
    <3> QED BY ONLY <2>1, <3>1, Zenon
  <2>3. Len(Parts(answered)[n + 1]) = 12 + size(n + 1)
    <3>1. Len(Record(answered, n + 1)) = 12 + size(n + 1) BY <2>1, RecordFields DEF Fields
    <3> QED BY <2>1, <3>1 DEF Parts
  <2>4. E[n + 1] = E[n] + (12 + size(n + 1))
    <3>1. E[n + 1] = E[(n + 1) - 1] + (12 + size(n + 1)) BY <2>1, EndsFacts
    <3> HIDE DEF E, size
    <3> QED BY ONLY <2>1, <3>1, Zenon
  <2>5. Len(W[n]) = E[n] BY <1>3
  <2> HIDE DEF W, E, size, N
  <2>6. Len(W[n + 1]) = E[n + 1] BY ONLY <2>2, <2>3, <2>4, <2>5, Zenon
  <2> QED BY <2>1, <2>6
<1>4. \A k \in 0 .. N : k \in P
  <2> HIDE DEF P, N
  <2> QED BY <1>1, <1>2, <1>3, Induct
<1> QED BY <1>4

\* The message has the header with the question at its beginning and each record
\* where the one before ends.
LEMMA MessageParts ==
  ASSUME NEW answered, Served(answered)
  PROVE  /\ Message(answered) \in Seq(Byte)
         /\ Stands(Message(answered), 0, FirstPart(answered))
         /\ \A k \in 1 .. Len(answered.records) :
              Stands(Message(answered), Ends(answered)[k - 1], Record(answered, k))
<1> DEFINE N == Len(answered.records)
           W == Written(answered)
           E == Ends(answered)
           M == Message(answered)
           add == Parts(answered)
           first == FirstPart(answered)
<1>1. N \in Nat BY RecordTypes
<1>2. Grows(W, N, Byte, first, add) BY WrittenGrows
<1>3. M = W[N] BY DEF Message
<1>4. \A k \in 0 .. N : Len(W[k]) = E[k] BY WrittenEnds
<1>5. \A k \in 1 .. N : add[k] = Record(answered, k) BY DEF Parts
<1>6. E \in [0 .. N -> Nat] BY EndsFacts
<1> HIDE DEF N, W, E, M, add, first
<1>7. M \in Seq(Byte)
  <2>1. N \in 0 .. N BY <1>1
  <2> QED BY <1>2, <1>3, <2>1 DEF Grows
<1>8. Stands(M, 0, first)
  <2>1. 0 \in 0 .. N /\ N \in 0 .. N BY <1>1
  <2>2. W[0] = first BY <1>2 DEF Grows
  <2>3. Len(W[0]) <= Len(W[N]) /\ \A j \in 1 .. Len(W[0]) : W[N][j] = W[0][j]
    BY <1>2, <2>1 DEF Grows
  <2>4. Len(first) \in Nat
    <3>1. W[0] \in Seq(Byte) BY <1>2, <2>1 DEF Grows
    <3> QED BY <2>2, <3>1, LenProperties
  <2>5. \A j \in 1 .. Len(first) : M[0 + j] = first[j]
    <3>1. \A j \in 1 .. Len(first) : 0 + j = j BY <2>4
    <3> QED BY <1>3, <2>2, <2>3, <3>1
  <2>6. 0 + Len(first) <= Len(M) BY <1>3, <2>2, <2>3, <2>4
  <2> QED BY <2>5, <2>6 DEF Stands
<1>9. ASSUME NEW k \in 1 .. N PROVE Stands(M, E[k - 1], Record(answered, k))
  <2> DEFINE r == Record(answered, k)
             e == E[k - 1]
  <2>1. k - 1 \in 0 .. N /\ k \in 0 .. N /\ N \in 0 .. N BY <1>1
  <2>2. add[k] = r BY <1>5
  <2>3. Len(W[k - 1]) = e BY <1>4, <2>1
  <2>4. /\ Len(W[k]) = Len(W[k - 1]) + Len(add[k])
        /\ \A j \in 1 .. Len(add[k]) : W[N][Len(W[k - 1]) + j] = add[k][j]
    BY <1>2, Zenon DEF Grows
  <2>5. Len(W[k]) <= Len(W[N]) BY <1>2, <2>1 DEF Grows
  <2> HIDE DEF r, e
  <2>6. e + Len(r) <= Len(M) BY <1>3, <2>2, <2>3, <2>4, <2>5
  <2>7. \A j \in 1 .. Len(r) : M[e + j] = r[j] BY <1>3, <2>2, <2>3, <2>4
  <2>8. Stands(M, e, r) BY <2>6, <2>7 DEF Stands
  <2> QED BY <2>8 DEF r, e
<1> QED BY <1>7, <1>8, <1>9 DEF N, M, E, first

-----------------------------------------------------------------------------
(* Parsing the answer *)

\* The end of a name is an offset.
LEMMA NameEndType ==
  ASSUME NEW message \in Seq(Byte), NEW p \in Nat
  PROVE  NameEnd(message, p) \in Nat
<1>1. Turns(message) \in 0 .. Turns(message) BY TurnsType
<1>2. Skipping(message) \in [0 .. Turns(message) -> [Nat -> Nat]] BY SkippingFacts
<1>3. Skipping(message)[Turns(message)] \in [Nat -> Nat] BY <1>1, <1>2
<1> QED BY <1>3 DEF NameEnd

\* The counts of the header are read, and one question is passed.
LEMMA QuestionPassed ==
  ASSUME NEW answered, Served(answered)
  PROVE  /\ FirstRecord(Message(answered)) = Ends(answered)[0]
         /\ Answers(Message(answered)) = Len(answered.records)
<1> DEFINE M == Message(answered)
           first == FirstPart(answered)
           behindHead == SubSeq(answered.request, 13, Len(answered.request))
           name == FullName(answered.host)
           n == Len(answered.records)
<1>0. 1 \in Word /\ n \in Word BY SmallWords DEF Served
<1>1. M \in Seq(Byte) /\ first \in Seq(Byte) /\ Stands(M, 0, first)
  BY MessageParts, PartsType
<1>2. /\ Stands(first, 4, Short(1)) /\ Stands(first, 6, Short(n))
      /\ Stands(first, 12, behindHead) /\ behindHead \in Seq(Byte)
      /\ Stands(behindHead, 0, name)
  BY FirstPartFields DEF Fields
<1>3. name \in Seq(Byte) BY FullNameType DEF Served, Good
<1>4. Short(1) \in Seq(Byte) /\ Short(n) \in Seq(Byte) BY <1>0, ShortType
<1> HIDE DEF M, first, behindHead, name, n
<1>5. /\ 0 \in Nat /\ 4 \in Nat /\ 6 \in Nat /\ 12 \in Nat
      /\ 0 + 4 = 4 /\ 0 + 6 = 6 /\ 0 + 12 = 12 /\ 12 + 0 = 12
  OBVIOUS
<1>6. Stands(M, 4, Short(1))
  <2>1. Stands(M, 0 + 4, Short(1)) BY <1>1, <1>2, <1>4, <1>5, StandsWithin
  <2> QED BY ONLY <1>5, <2>1, Zenon
<1>7. Stands(M, 6, Short(n))
  <2>1. Stands(M, 0 + 6, Short(n)) BY <1>1, <1>2, <1>4, <1>5, StandsWithin
  <2> QED BY ONLY <1>5, <2>1, Zenon
<1>8. Stands(M, 12, name)
  <2>1. Stands(M, 0 + 12, behindHead) BY <1>1, <1>2, <1>5, StandsWithin
  <2>2. Stands(M, 12, behindHead) BY ONLY <1>5, <2>1, Zenon
  <2>3. Stands(M, 12 + 0, name) BY <1>1, <1>2, <1>3, <1>5, <2>2, StandsWithin
  <2> QED BY ONLY <1>5, <2>3, Zenon
<1>9. ShortAt(M, 4) = 1 BY <1>0, <1>1, <1>5, <1>6, ShortRead
<1>10. ShortAt(M, 6) = n BY <1>0, <1>1, <1>5, <1>7, ShortRead
<1>11. NameEnd(M, 12) = 12 + Len(name)
  BY <1>1, <1>5, <1>8, NameSkipped DEF Served, Good, name
<1>12. FirstRecord(M) = NameEnd(M, 12) + 4
  <2> DEFINE turn(e) == NameEnd(M, e) + 4
             step == [k \in 1 .. 1 |-> [e \in Nat |-> turn(e)]]
             Follows(f, q) == f = [k \in 0 .. q |-> IF k = 0 THEN 12 ELSE turn(f[k - 1])]
  <2>1. \A e \in Nat : turn(e) \in Nat
    <3> SUFFICES ASSUME NEW e \in Nat PROVE turn(e) \in Nat OBVIOUS
    <3>1. NameEnd(M, e) \in Nat BY <1>1, NameEndType
    <3> QED BY <3>1
  <2>2. PICK f \in [0 .. 1 -> Nat] : Loops(f, 1, 12, step)
    <3>1. 12 \in Nat /\ 1 \in Nat OBVIOUS
    <3>2. step \in [1 .. 1 -> [Nat -> Nat]]
      <4> HIDE DEF turn
      <4> QED BY <2>1
    <3> HIDE DEF step
    <3> QED BY <3>1, <3>2, Loop
  <2>3. Follows(f, 1)
    <3>1. ASSUME NEW k \in 0 .. 1, k # 0 PROVE step[k][f[k - 1]] = turn(f[k - 1])
      <4>1. k \in 1 .. 1 /\ k - 1 \in 0 .. 1 BY <3>1
      <4>2. f[k - 1] \in Nat BY <4>1
      <4> HIDE DEF turn
      <4> QED BY <4>1, <4>2
    <3> HIDE DEF step, turn
    <3> QED BY <2>2, <3>1 DEF Loops
  <2> DEFINE g == CHOOSE h : Follows(h, ShortAt(M, 4))
  <2>4. FirstRecord(M) = g[ShortAt(M, 4)] BY DEF FirstRecord
  <2>5. Follows(g, 1)
    <3> HIDE DEF Follows
    <3> QED BY <1>9, <2>3 DEF g
  <2> HIDE DEF g
  <2>6. g[0] = 12 /\ g[1] = turn(g[0])
    <3>1. 0 \in 0 .. 1 /\ 1 \in 0 .. 1 /\ 1 # 0 /\ 1 - 1 = 0 OBVIOUS
    <3> HIDE DEF turn
    <3>2. \A k \in 0 .. 1 : g[k] = IF k = 0 THEN 12 ELSE turn(g[k - 1]) BY <2>5
    <3> QED BY <3>1, <3>2
  <2> QED BY <1>9, <2>4, <2>6
<1>13. Ends(answered)[0] = 12 + Len(name) + 4 BY EndsFacts DEF Served, name
<1> QED BY <1>10, <1>11, <1>12, <1>13 DEF M, n, Answers

\* The fields of a record where the parser looks for them.
LEMMA FieldsStand ==
  ASSUME NEW answered, Served(answered), NEW k \in 1 .. Len(answered.records),
         NEW M, M = Message(answered), NEW e, e = Ends(answered)[k - 1],
         NEW r, r = answered.records[k]
  PROVE  /\ M \in Seq(Byte) /\ e \in Nat /\ r \in Records
         /\ Stands(M, e, Pointer(OwnerOffset(answered, k)))
         /\ Stands(M, e + 2, Short(r.type))
         /\ Stands(M, e + 10, Short(Len(Data(r))))
         /\ Stands(M, e + 12, Data(r))
<1> DEFINE s == Record(answered, k)
           p == Pointer(OwnerOffset(answered, k))
<1>1. r \in Records BY RecordTypes
<1>2. e \in Nat
  <2>1. k - 1 \in 0 .. Len(answered.records) BY RecordTypes
  <2> QED BY <2>1, EndsFacts
<1>3. M \in Seq(Byte) /\ Stands(M, e, s) BY MessageParts
<1>4. /\ s \in Seq(Byte) /\ Stands(s, 0, p) /\ Stands(s, 2, Short(r.type))
      /\ Stands(s, 10, Short(Len(Data(r)))) /\ Stands(s, 12, Data(r))
  BY RecordFields DEF Fields
<1>5. /\ p \in Seq(Byte) /\ Short(r.type) \in Seq(Byte)
      /\ Short(Len(Data(r))) \in Seq(Byte) /\ Data(r) \in Seq(Byte)
  <2>1. p \in Seq(Byte) BY OffsetType, PointerBytes DEF Pair
  <2>2. r.type \in Word /\ Len(Data(r)) \in Word /\ Data(r) \in Seq(Byte) BY <1>1, DataFacts
  <2> QED BY <2>1, <2>2, ShortType
<1> HIDE DEF s, p
<1>6. 0 \in Nat /\ 2 \in Nat /\ 10 \in Nat /\ 12 \in Nat /\ e + 0 = e BY <1>2
<1>7. Stands(M, e + 0, p) BY <1>2, <1>3, <1>4, <1>5, <1>6, StandsWithin
<1>8. Stands(M, e + 2, Short(r.type)) BY <1>2, <1>3, <1>4, <1>5, <1>6, StandsWithin
<1>9. Stands(M, e + 10, Short(Len(Data(r))))
  BY <1>2, <1>3, <1>4, <1>5, <1>6, StandsWithin
<1>10. Stands(M, e + 12, Data(r)) BY <1>2, <1>3, <1>4, <1>5, <1>6, StandsWithin
<1>11. Stands(M, e, p) BY ONLY <1>6, <1>7, Zenon
<1> QED BY <1>1, <1>2, <1>3, <1>8, <1>9, <1>10, <1>11 DEF p

\* The owner stands in full where the pointer says.
LEMMA OwnerStands ==
  ASSUME NEW answered, Served(answered), NEW k \in 1 .. Len(answered.records)
  PROVE  Stands(Message(answered), OwnerOffset(answered, k), FullName(OwnerOf(answered, k)))
<1> DEFINE M == Message(answered)
<1>1. CASE AliasesBefore(answered, k) = {}
  <2> DEFINE first == FirstPart(answered)
             behindHead == SubSeq(answered.request, 13, Len(answered.request))
             name == FullName(answered.host)
  <2>1. M \in Seq(Byte) /\ first \in Seq(Byte) /\ Stands(M, 0, first)
    BY MessageParts, PartsType
  <2>2. Stands(first, 12, behindHead) /\ behindHead \in Seq(Byte) /\ Stands(behindHead, 0, name)
    BY FirstPartFields DEF Fields
  <2>3. name \in Seq(Byte) BY FullNameType DEF Served, Good
  <2>4. OwnerOffset(answered, k) = 12 /\ OwnerOf(answered, k) = answered.host
    BY <1>1 DEF OwnerOffset, OwnerOf
  <2> HIDE DEF M, first, behindHead, name
  <2>5. 0 \in Nat /\ 12 \in Nat /\ 0 + 12 = 12 /\ 12 + 0 = 12 OBVIOUS
  <2>6. Stands(first, 12 + 0, name) BY <2>1, <2>2, <2>3, <2>5, StandsWithin
  <2>7. Stands(first, 12, name) BY ONLY <2>5, <2>6, Zenon
  <2>8. Stands(M, 0 + 12, name) BY <2>1, <2>3, <2>5, <2>7, StandsWithin
  <2>9. Stands(M, 12, name) BY ONLY <2>5, <2>8, Zenon
  <2> QED BY <2>4, <2>9 DEF M, name
<1>2. CASE AliasesBefore(answered, k) # {}
  <2> DEFINE alias == Max(AliasesBefore(answered, k))
             r == answered.records[alias]
             E == Ends(answered)
             e == E[alias - 1]
             size == Len(Data(r))
  <2>1. /\ alias \in 1 .. Len(answered.records)
        /\ Data(r) = FullName(r.data)
    BY <1>2, LastAlias
  <2>2. OwnerOffset(answered, k) = E[alias] - size BY <1>2 DEF OwnerOffset
  <2>3. OwnerOf(answered, k) = r.data BY <1>2 DEF OwnerOf
  <2> HIDE DEF alias
  <2>4. E[alias] = e + (12 + size) BY <2>1, EndsFacts
  <2>5. Stands(M, e + 12, Data(r)) /\ e \in Nat BY <2>1, FieldsStand
  <2>6. size \in Nat
    <3>1. r \in Records BY <2>1, RecordTypes
    <3> QED BY <3>1, DataFacts
  <2>7. E[alias] - size = e + 12
    <3> HIDE DEF e, size, E
    <3> QED BY <2>4, <2>5, <2>6
  <2> HIDE DEF E, e, r, size
  <2> QED BY <2>1, <2>2, <2>3, <2>5, <2>7
<1> QED BY <1>1, <1>2

\* The parser reads the owner's name as its text, over the pointer.
LEMMA OwnerRead ==
  ASSUME NEW answered, Served(answered), NEW k \in 1 .. Len(answered.records)
  PROVE  NameAt(Message(answered), Ends(answered)[k - 1]) = Text(OwnerOf(answered, k))
<1> DEFINE M == Message(answered)
           e == Ends(answered)[k - 1]
           o == OwnerOffset(answered, k)
           name == OwnerOf(answered, k)
           turns == Turns(M) - 1
<1>1. M \in Seq(Byte) /\ e \in Nat /\ Stands(M, e, Pointer(o)) BY FieldsStand
<1>2. o \in Byte BY OffsetType
<1>3. Good(name) BY OwnerGood
<1>4. Stands(M, o, FullName(name)) BY OwnerStands
<1>5. Pointer(o) = <<192, o>> /\ Pointer(o) \in Seq(Byte) /\ Len(Pointer(o)) = 2
  BY <1>2, PointerBytes DEF Pair
<1> HIDE DEF M, e, o, name
<1>6. ByteAt(M, e) = 192 /\ ByteAt(M, e + 1) = o
  <2> DEFINE s == Pointer(o)
  <2>1. s \in Seq(Byte) /\ Len(s) = 2 /\ Stands(M, e, s) /\ s[1] = 192 /\ s[2] = o
    BY <1>1, <1>5
  <2> HIDE DEF s
  <2>2. ByteAt(M, e) = s[1] /\ ByteAt(M, e + 1) = s[2] BY <1>1, <2>1, PairRead
  <2> QED BY ONLY <2>1, <2>2, Zenon
<1>7. Len(name) + 1 <= Len(M) /\ Len(name) \in Nat /\ Len(M) \in Nat
  <2>1. o \in Nat BY <1>2, ByteIsNat
  <2> QED BY <1>1, <1>3, <1>4, <2>1, TurnEnds, LenProperties DEF Good
<1>8. turns \in Len(name) .. Turns(M) /\ Turns(M) \in 1 .. Turns(M)
  <2>1. Turns(M) \in Nat /\ Len(M) <= Turns(M) BY <1>1, TurnsType
  <2> QED BY <1>7, <2>1
<1>9. Reading(M)[Turns(M)][e] = NameTurn(M, e, Reading(M)[turns]) BY <1>1, <1>8, ReadingFacts
<1>10. Reading(M)[turns][o] = Text(name)
  <2>1. o \in Nat BY <1>2, ByteIsNat
  <2> HIDE DEF turns
  <2> QED BY <1>1, <1>3, <1>4, <1>8, <2>1, NameRead DEF Good
<1>11. 192 # 0 /\ IsPointer(192) BY DEF IsPointer
<1> HIDE DEF turns
<1>12. NameTurn(M, e, Reading(M)[turns]) = Reading(M)[turns][o]
  BY ONLY <1>6, <1>11, Zenon DEF NameTurn
<1> QED BY <1>9, <1>10, <1>12 DEF NameAt, M, e, name

\* The parser finds the record's address and the place of the next one.
LEMMA RecordRead ==
  ASSUME NEW answered, Served(answered), NEW k \in 1 .. Len(answered.records),
         NEW got, got = RecordAt(Message(answered), Ends(answered)[k - 1]),
         NEW r, r = answered.records[k]
  PROVE  /\ got.next = Ends(answered)[k]
         /\ got.found <=> r.type = HostType
         /\ r.type = HostType => got.ip = r.data
<1> DEFINE M == Message(answered)
           e == Ends(answered)[k - 1]
           size == Len(Data(r))
<1>1. /\ M \in Seq(Byte) /\ e \in Nat /\ r \in Records
      /\ Stands(M, e + 2, Short(r.type)) /\ Stands(M, e + 10, Short(size))
      /\ Stands(M, e + 12, Data(r))
  BY FieldsStand
<1>2. /\ Data(r) \in Seq(Byte) /\ size \in Nat /\ size \in Word /\ r.type \in Word
      /\ r.type = HostType => Data(r) = r.data /\ size = 4
  BY <1>1, DataFacts
<1>3. Ends(answered)[k] = e + (12 + size) BY EndsFacts
<1>4. r.type \in {HostType, CnameType}
  <2>1. k \in DOMAIN answered.records BY LenProperties DEF Served
  <2> QED BY <2>1 DEF Served, Plain
<1>5. /\ got.found <=> (ShortAt(M, e + 2) = HostType /\ ShortAt(M, e + 10) = 4)
      /\ got.ip = BytesAt(M, e + 12, 4)
      /\ got.next = e + 12 + (IF ShortAt(M, e + 2) \in {HostType, CnameType}
                              THEN ShortAt(M, e + 10) ELSE 0)
  BY DEF RecordAt
<1> HIDE DEF M, e
<1>6. e + 2 \in Nat /\ e + 10 \in Nat /\ e + 12 \in Nat BY <1>1
<1>7. ShortAt(M, e + 2) = r.type BY <1>1, <1>2, <1>6, ShortRead
<1>8. ShortAt(M, e + 10) = size BY <1>1, <1>2, <1>6, ShortRead
<1>9. BytesAt(M, e + 12, size) = Data(r) BY <1>1, <1>2, <1>6, BytesRead
<1> HIDE DEF size
<1>10. got.next = e + 12 + size BY <1>4, <1>5, <1>7, <1>8
<1>11. got.next = Ends(answered)[k] BY <1>1, <1>2, <1>3, <1>10
<1>12. got.found <=> r.type = HostType
  <2>1. got.found <=> (r.type = HostType /\ size = 4) BY ONLY <1>5, <1>7, <1>8, Zenon
  <2> QED BY ONLY <1>2, <2>1, Zenon
<1>13. r.type = HostType => got.ip = r.data BY <1>2, <1>5, <1>9
<1> QED BY <1>11, <1>12, <1>13

\* The list holds the addresses of the first k records of an answer, in order,
\* each under its owner's name.
Items == [domain : Seq(Letter), ip : [1 .. 4 -> 0 .. 255]]

Found(answered, k) == {j \in 1 .. k : answered.records[j].type = HostType}

Item(answered, j) ==
  [domain |-> Text(OwnerOf(answered, j)), ip |-> answered.records[j].data]

InOrder(answered, k, l, of) ==
  /\ of \in [DOMAIN l -> Found(answered, k)]
  /\ \A m, n \in DOMAIN l : m < n => of[m] < of[n]
  /\ \A j \in Found(answered, k) : \E n \in DOMAIN l : of[n] = j
  /\ \A n \in DOMAIN l : l[n] = Item(answered, of[n])

Listed(answered, k, l) ==
  /\ l \in Seq(Items)
  /\ \E of : InOrder(answered, k, l, of)

\* An item has a text and four bytes.
LEMMA ItemType ==
  ASSUME NEW answered, Served(answered), NEW j \in 1 .. Len(answered.records),
         answered.records[j].type = HostType
  PROVE  Item(answered, j) \in Items
<1>1. answered.records[j].data \in [1 .. 4 -> 0 .. 255]
  <2>1. answered.records[j] \in Records BY RecordTypes
  <2> QED BY <2>1, DataFacts
<1>2. Text(OwnerOf(answered, j)) \in Seq(Letter)
  <2> DEFINE name == OwnerOf(answered, j)
  <2>1. Good(name) BY OwnerGood
  <2> HIDE DEF name
  <2>2. Len(name) \in 0 .. Len(name) BY <2>1, LenProperties DEF Good
  <2>3. Text(name) \in Seq(Letter) BY <2>1, <2>2, NameLengths DEF Text, Good
  <2> QED BY <2>3 DEF name
<1> DEFINE text == Text(OwnerOf(answered, j))
           address == answered.records[j].data
<1>3. text \in Seq(Letter) /\ address \in [1 .. 4 -> 0 .. 255] BY <1>1, <1>2
<1> HIDE DEF text, address
<1>4. [domain |-> text, ip |-> address] \in Items BY ONLY <1>3, Zenon DEF Items
<1> QED BY ONLY <1>4, Zenon DEF Item, text, address

\* Before the first record the list is empty.
LEMMA ListedFirst ==
  ASSUME NEW answered
  PROVE  Listed(answered, 0, <<>>)
<1> DEFINE of == [n \in {} |-> 0]
<1>1. DOMAIN <<>> = {} /\ <<>> \in Seq(Items) OBVIOUS
<1>2. Found(answered, 0) = {} BY DEF Found
<1>3. of \in [DOMAIN <<>> -> Found(answered, 0)] BY <1>1
<1>4. InOrder(answered, 0, <<>>, of) BY <1>1, <1>2, <1>3 DEF InOrder
<1> QED BY <1>1, <1>4 DEF Listed

\* An address makes the list longer by its item, another record does not.
LEMMA ListedNext ==
  ASSUME NEW answered, Served(answered), NEW k \in Nat, k + 1 \in 1 .. Len(answered.records),
         NEW l, Listed(answered, k, l)
  PROVE  Listed(answered, k + 1, IF answered.records[k + 1].type = HostType
                                 THEN Append(l, Item(answered, k + 1)) ELSE l)
<1>1. l \in Seq(Items) BY DEF Listed
<1>2. PICK of : InOrder(answered, k, l, of) BY DEF Listed
<1>3. CASE answered.records[k + 1].type # HostType
  <2>1. Found(answered, k + 1) = Found(answered, k)
    <3>1. \A j : j \in 1 .. k + 1 <=> j \in 1 .. k \/ j = k + 1 OBVIOUS
    <3> QED BY <1>3, <3>1 DEF Found
  <2>2. InOrder(answered, k + 1, l, of) BY <1>2, <2>1 DEF InOrder
  <2> QED BY <1>1, <1>3, <2>2 DEF Listed
<1>4. CASE answered.records[k + 1].type = HostType
  <2> DEFINE item == Item(answered, k + 1)
             longer == Append(l, item)
             N == Len(l)
             then == [n \in 1 .. N + 1 |-> IF n = N + 1 THEN k + 1 ELSE of[n]]
             F == Found(answered, k)
             G == Found(answered, k + 1)
  <2>1. item \in Items BY <1>4, ItemType
  <2>2. N \in Nat /\ DOMAIN l = 1 .. N BY <1>1, LenProperties
  <2>3. longer \in Seq(Items) /\ DOMAIN longer = 1 .. N + 1 /\ longer[N + 1] = item
        /\ \A n \in 1 .. N : longer[n] = l[n]
    <3> HIDE DEF item
    <3>1. longer \in Seq(Items) /\ Len(longer) = N + 1 BY <1>1, <2>1, AppendProperties
    <3>2. longer[N + 1] = item /\ \A n \in 1 .. N : longer[n] = l[n]
      BY <1>1, <2>1, AppendProperties
    <3>3. DOMAIN longer = 1 .. Len(longer) BY <3>1, LenProperties
    <3> HIDE DEF longer, N
    <3> QED BY <3>1, <3>2, <3>3
  <2>4. /\ G = F \cup {k + 1} /\ \A j \in F : j < k + 1
    <3>1. \A j : j \in 1 .. k + 1 <=> j \in 1 .. k \/ j = k + 1 OBVIOUS
    <3>2. \A j \in 1 .. k : j < k + 1 OBVIOUS
    <3> QED BY <1>4, <3>1, <3>2 DEF Found
  <2>5. /\ of \in [1 .. N -> F]
        /\ \A m, n \in 1 .. N : m < n => of[m] < of[n]
        /\ \A j \in F : \E n \in 1 .. N : of[n] = j
        /\ \A n \in 1 .. N : l[n] = Item(answered, of[n])
    BY <1>2, <2>2 DEF InOrder
  <2> HIDE DEF longer, N, F, G, item
  <2>6. \A n \in 1 .. N + 1 : n \in 1 .. N \/ n = N + 1 BY <2>2
  <2>7. \A n \in 1 .. N : n \in 1 .. N + 1 /\ n # N + 1 /\ n < N + 1 BY <2>2
  <2>8. N + 1 \in 1 .. N + 1 BY <2>2
  <2>9. then[N + 1] = k + 1 /\ \A n \in 1 .. N : then[n] = of[n] BY <2>7, <2>8
  <2>10. then \in [1 .. N + 1 -> G]
    <3>1. ASSUME NEW n \in 1 .. N + 1 PROVE (IF n = N + 1 THEN k + 1 ELSE of[n]) \in G
      <4>1. CASE n = N + 1 BY <2>4, <4>1
      <4>2. CASE n # N + 1
        <5>1. n \in 1 .. N BY <2>6, <4>2
        <5> QED BY <2>4, <2>5, <4>2, <5>1
      <4> QED BY <4>1, <4>2
    <3> QED BY <3>1
  <2> HIDE DEF then
  <2>11. ASSUME NEW m \in 1 .. N + 1, NEW n \in 1 .. N + 1, m < n PROVE then[m] < then[n]
    <3>1. m \in 1 .. N BY <2>2, <2>11
    <3>2. CASE n = N + 1
      <4>1. of[m] \in F BY <2>5, <3>1
      <4> QED BY <2>4, <2>9, <3>1, <3>2, <4>1
    <3>3. CASE n # N + 1
      <4>1. n \in 1 .. N BY <2>6, <3>3
      <4> QED BY <2>5, <2>9, <2>11, <3>1, <4>1
    <3> QED BY <3>2, <3>3
  <2>12. ASSUME NEW j \in G PROVE \E n \in 1 .. N + 1 : then[n] = j
    <3>1. CASE j \in F
      <4>1. PICK n \in 1 .. N : of[n] = j BY <2>5, <3>1
      <4> QED BY <2>7, <2>9, <4>1
    <3>2. CASE j = k + 1 BY <2>8, <2>9, <3>2
    <3> QED BY <2>4, <3>1, <3>2
  <2>13. ASSUME NEW n \in 1 .. N + 1 PROVE longer[n] = Item(answered, then[n])
    <3>1. CASE n = N + 1 BY <2>3, <2>9, <3>1 DEF item
    <3>2. CASE n # N + 1
      <4>1. n \in 1 .. N BY <2>6, <3>2
      <4> QED BY <2>3, <2>5, <2>9, <4>1
    <3> QED BY <3>1, <3>2
  <2>14. InOrder(answered, k + 1, longer, then)
    BY <2>3, <2>10, <2>11, <2>12, <2>13 DEF InOrder, G
  <2>15. Listed(answered, k + 1, longer) BY <2>3, <2>14 DEF Listed
  <2> QED BY <1>4, <2>15 DEF longer, item
<1> QED BY <1>3, <1>4

\* While an answer the parser is made for is parsed: it is in the buffer as the
\* server wrote it, and pointer, counter and list agree with it.
Parsed ==
  /\ Served(answer) /\ response = Message(answer)
  /\ i \in 0 .. Len(answer.records)
  /\ ptr = Ends(answer)[i]
  /\ Listed(answer, i, list)

InStep ==
  /\ pc \in {"socket", "send"} => wire = "nothing"
  /\ pc \in {"socket", "send", "receive"} => i = 0 /\ list = <<>>
  /\ wire # "nothing" => pc = "receive"
  /\ (wire # "nothing" /\ Readable(host)) => request # <<>>
  /\ (wire = "answer" /\ Readable(host)) => request \in Requests
  /\ wire = "answer" => /\ answer.records \in Zones
                        /\ answer.host = host /\ answer.request = request
  /\ (pc = "records" /\ response # <<>> /\ Readable(host) /\ Plain(answer)) => Parsed

\* What is known of a request holds of an answer to it.
LEMMA AnswerServed ==
  ASSUME Asked, Readable(host), request \in Requests, Plain(answer),
         answer.records \in Zones, answer.host = host, answer.request = request
  PROVE  Served(answer)
<1>1. host \in Seq(Seq(Letter)) /\ host # <<>> BY HostsAssumption DEF Asked
<1>2. PICK id \in Ids, rest \in Rests : request = BuildRequest(id, host, rest)
  BY DEF Requests
<1>3. id \in [1 .. 2 -> 0 .. 255] BY IdsAssumption
<1>4. /\ request \in Seq(Byte)
      /\ Len(request) = 12 + Len(FullName(host)) + 4
      /\ Stands(request, 12, FullName(host))
  BY <1>1, <1>2, <1>3, RequestParts
<1>5. answer.records \in Seq(Records) /\ Len(answer.records) \in Word
  BY ZonesAssumption DEF Records
<1> QED BY <1>1, <1>4, <1>5 DEF Served, Good

\* A request for such a host has bytes.
LEMMA RequestSent ==
  ASSUME host \in Hosts, Readable(host), NEW message \in Requests
  PROVE  message # <<>>
<1>1. host \in Seq(Seq(Letter)) /\ host # <<>> BY HostsAssumption
<1>2. PICK id \in Ids, rest \in Rests : message = BuildRequest(id, host, rest)
  BY DEF Requests
<1>3. id \in [1 .. 2 -> 0 .. 255] BY IdsAssumption
<1>4. Len(message) = 12 + Len(FullName(host)) + 4 BY <1>1, <1>2, <1>3, RequestParts
<1>5. Len(FullName(host)) \in Nat BY <1>1, FullNameType, LenProperties
<1>6. Len(message) # 0
  <2> DEFINE l == Len(FullName(host))
  <2>1. Len(message) = 12 + l + 4 /\ l \in Nat BY <1>4, <1>5
  <2> HIDE DEF l
  <2> QED BY <2>1
<1>7. Len(<<>>) = 0 OBVIOUS
<1> QED BY ONLY <1>6, <1>7, Zenon

\* So has a request without a name.
LEMMA NamelessSent ==
  ASSUME NEW message \in NamelessRequests
  PROVE  message # <<>>
<1>1. PICK id \in Ids : message = BuildNameless(id) BY DEF NamelessRequests
<1>2. id \in [1 .. 2 -> 0 .. 255] BY IdsAssumption
<1>3. Len(message) = 16 BY <1>1, <1>2, NamelessUnread
<1>4. Len(<<>>) = 0 /\ 0 # 16 OBVIOUS
<1> QED BY ONLY <1>3, <1>4, Zenon

\* The whole of a message that fits into the buffer is received.
LEMMA Untruncated ==
  ASSUME NEW message \in Seq(Byte), Len(message) <= BufferSize
  PROVE  SubSeq(message, 1, Min({Len(message), BufferSize})) = message
<1> USE DEF BufferSize
<1> DEFINE n == Len(message)
           S == {n, BufferSize}
<1>1. n \in Nat BY LenProperties
<1>2. Min(S) = n
  <2>1. n \in S /\ \A m \in S : n <= m BY <1>1
  <2>2. \A x \in S : (\A m \in S : x <= m) => x = n BY <1>1
  <2> HIDE DEF S, n
  <2> QED BY <2>1, <2>2 DEF Min
<1>3. SubSeq(message, 1, n) = message
  <2> DEFINE got == SubSeq(message, 1, n)
  <2>1. got = [j \in 1 .. n |-> message[j]]
    <3>1. \A j \in 1 .. (1 + n - 1) : 1 + j - 1 = j BY <1>1
    <3>2. 1 .. (1 + n - 1) = 1 .. n BY <1>1
    <3> QED BY <1>1, <3>1, <3>2
  <2>2. message = [j \in 1 .. n |-> message[j]] BY LenProperties
  <2> QED BY <2>1, <2>2
<1> QED BY <1>2, <1>3

\* A turn of the loop passes one record more.
LEMMA ReadRecordStep ==
  ASSUME InStep, ReadRecord, response # <<>>, Readable(host), Plain(answer)
  PROVE  Parsed'
<1>1. pc = "records" /\ Parsed BY DEF ReadRecord, InStep
<1> DEFINE N == Len(answer.records)
           k == i + 1
           record == RecordAt(response, ptr)
           r == answer.records[k]
<1>2. Served(answer) /\ response = Message(answer) /\ ptr = Ends(answer)[i]
      /\ Listed(answer, i, list) /\ i \in 0 .. N
  BY <1>1 DEF Parsed
<1>3. N \in Nat /\ Answers(response) = N BY <1>2, RecordTypes, QuestionPassed
<1>4. i < N BY <1>3 DEF ReadRecord
<1>5. i \in Nat /\ k \in 1 .. N /\ k \in 0 .. N /\ k - 1 = i BY <1>2, <1>3, <1>4
<1>6. ptr = Ends(answer)[k - 1] BY <1>2, <1>5
<1>7. /\ record.next = Ends(answer)[k]
      /\ record.found <=> r.type = HostType
      /\ r.type = HostType => record.ip = r.data
  <2> HIDE DEF k
  <2> QED BY <1>2, <1>5, <1>6, RecordRead
<1>8. Owner = Text(OwnerOf(answer, k))
  <2> HIDE DEF k
  <2> QED BY <1>2, <1>5, <1>6, OwnerRead DEF Owner
<1>9. /\ ptr' = record.next /\ i' = k
      /\ list' = IF record.found THEN Append(list, [domain |-> Owner, ip |-> record.ip])
                 ELSE list
      /\ UNCHANGED <<answer, response>>
  BY DEF ReadRecord
<1>10. list' = IF r.type = HostType THEN Append(list, Item(answer, k)) ELSE list
  <2> HIDE DEF k, record, r
  <2>1. CASE r.type = HostType
    <3>1. record.found /\ record.ip = r.data BY <1>7, <2>1
    <3>2. [domain |-> Owner, ip |-> record.ip] = Item(answer, k) BY <1>8, <3>1 DEF Item, r
    <3> QED BY <1>9, <2>1, <3>1, <3>2
  <2>2. CASE r.type # HostType BY <1>7, <1>9, <2>2
  <2> QED BY <2>1, <2>2
<1>11. Listed(answer, k, list') BY <1>2, <1>5, <1>10, ListedNext
<1> HIDE DEF record, r, N, k
<1>12. Served(answer') /\ response' = Message(answer') BY <1>2, <1>9
<1>13. i' \in 0 .. Len(answer'.records) /\ ptr' = Ends(answer')[i']
  BY <1>5, <1>7, <1>9 DEF N
<1>14. Listed(answer', i', list') BY <1>9, <1>11
<1> QED BY <1>12, <1>13, <1>14 DEF Parsed

\* The parser starts at the first record of the message.
LEMMA ReceiveAnswerStep ==
  ASSUME Asked, InStep, ReceiveAnswer, Readable(host), Plain(answer)
  PROVE  Parsed'
<1>1. /\ wire = "answer" /\ pc = "receive" /\ i' = i /\ list' = list /\ answer' = answer
      /\ response' = SubSeq(Message(answer), 1, Min({Len(Message(answer)), BufferSize}))
      /\ ptr' = FirstRecord(response')
  BY DEF ReceiveAnswer, Receive
<1>2. /\ answer.records \in Zones /\ answer.host = host /\ answer.request = request
      /\ request \in Requests /\ i = 0 /\ list = <<>>
  BY <1>1 DEF InStep
<1>3. Served(answer) BY <1>2, AnswerServed
<1>4. Message(answer) \in Seq(Byte) /\ Len(Message(answer)) <= BufferSize
  BY <1>3, MessageParts DEF Plain
<1>5. response' = Message(answer) BY <1>1, <1>4, Untruncated
<1>6. ptr' = Ends(answer)[0] BY ONLY <1>1, <1>3, <1>5, QuestionPassed, Zenon
<1>7. 0 \in 0 .. Len(answer.records) BY <1>3, RecordTypes
<1>8. Listed(answer, 0, <<>>) BY ListedFirst
<1> QED BY <1>1, <1>2, <1>3, <1>5, <1>6, <1>7, <1>8 DEF Parsed

\* Every step of the program, the network and the server keeps InStep.
LEMMA InStepHolds == Spec => []InStep
<1>1. Init => InStep BY DEF Init, InStep
<1>2. Asked /\ InStep /\ [Next]_vars => InStep'
  <2> SUFFICES ASSUME Asked, InStep, [Next]_vars PROVE InStep' OBVIOUS
  <2>1. CASE Open BY <2>1 DEF Open, parserVars, InStep
  <2>2. CASE OpenFails BY <2>2 DEF OpenFails, parserVars, InStep
  <2>3. CASE Send
    <3>1. Readable(host') => request' # <<>>
      <4>1. host' = host /\ request' \in Requests /\ host \in Hosts
        BY <2>3 DEF Send, SendTo, Asked
      <4> QED BY <4>1, RequestSent
    <3> QED BY <2>3, <3>1 DEF Send, SendTo, parserVars, InStep
  <2>4. CASE ReceiveAnswer
    <3>1. pc = "receive" /\ pc' = "records" /\ wire' = "nothing"
          /\ host' = host /\ answer' = answer
      BY <2>4 DEF ReceiveAnswer, Receive
    <3>2. Readable(host') /\ Plain(answer') => Parsed' BY <2>4, <3>1, ReceiveAnswerStep
    <3> QED BY <3>1, <3>2 DEF InStep
  <2>5. CASE ReceiveError BY <2>5 DEF ReceiveError, Receive, InStep
  <2>6. CASE ReadRecord
    <3>1. pc = "records" /\ pc' = pc /\ wire' = wire /\ host' = host /\ answer' = answer
          /\ response' = response
      BY <2>6 DEF ReadRecord
    <3>2. response' # <<>> /\ Readable(host') /\ Plain(answer') => Parsed'
      BY <2>6, <3>1, ReadRecordStep
    <3> QED BY <3>1, <3>2 DEF InStep
  <2>7. CASE ReadOverrun BY <2>7 DEF ReadOverrun, Crash, parserVars, InStep
  <2>8. CASE Return BY <2>8 DEF Return, parserVars, InStep
  <2>9. CASE NetworkFails BY <2>9 DEF NetworkFails, parserVars, InStep
  <2>10. CASE Answer
    <3>1. wire = "request" /\ Understood /\ UNCHANGED <<host, request>>
      BY <2>10 DEF Answer
    <3>2. Readable(host) => request # <<>> BY <3>1 DEF InStep
    <3>3. Readable(host) => request \in Requests
      BY <3>1, <3>2, NamelessNotUnderstood DEF Asked
    <3>4. Readable(host') => request' \in Requests' BY <3>1, <3>3 DEF Requests
    <3> QED BY <2>10, <3>4 DEF Answer, parserVars, InStep
  <2>11. CASE UNCHANGED vars BY <2>11 DEF vars, InStep, Parsed, Requests
  <2>12. CASE SendNameless
    <3>1. request' # <<>>
      <4>1. request' \in NamelessRequests BY <2>12 DEF SendNameless, SendTo
      <4> QED BY <4>1, NamelessSent
    <3> QED BY <2>12, <3>1 DEF SendNameless, SendTo, parserVars, InStep
  <2>13. CASE SendOverrun \/ CopyFails
    <3>1. pc = "send" /\ Crash BY <2>13 DEF SendOverrun, CopyFails
    <3> QED BY <3>1 DEF Crash, parserVars, InStep
  <2>14. CASE ListFails BY <2>14 DEF ListFails, parserVars, InStep
  <2>15. CASE ItemFails BY <2>15 DEF ItemFails, Crash, parserVars, InStep
  <2> QED BY <2>1, <2>2, <2>3, <2>4, <2>5, <2>6, <2>7, <2>8, <2>9, <2>10, <2>11,
             <2>12, <2>13, <2>14, <2>15
          DEF Next, ClientStep
<1> QED BY <1>1, <1>2, AskedHolds, PTL DEF Spec

\* RecordsInStep: while an answer the parser is made for is parsed, the pointer is
\* behind the records passed and the list holds their addresses, in order, each
\* under the name the answer gives it.
THEOREM RecordsInStepHolds == Spec => []RecordsInStep
<1>1. InStep => RecordsInStep
  <2> SUFFICES ASSUME InStep, pc = "records", response # <<>>, Readable(host), Plain(answer)
               PROVE  LET records == answer.records
                          addresses == {k \in 1 .. i : records[k].type = HostType}
                      IN  /\ ptr = Ends(answer)[i]
                          /\ \E of \in [DOMAIN list -> addresses] :
                               /\ \A m, n \in DOMAIN list : m < n => of[m] < of[n]
                               /\ \A k \in addresses : \E n \in DOMAIN list : of[n] = k
                               /\ \A n \in DOMAIN list :
                                    list[n] = [domain |-> Text(OwnerOf(answer, of[n])),
                                               ip |-> records[of[n]].data]
    BY DEF RecordsInStep
  <2>1. ptr = Ends(answer)[i] /\ Listed(answer, i, list) BY DEF InStep, Parsed
  <2>2. PICK of : InOrder(answer, i, list, of) BY <2>1 DEF Listed
  <2>3. /\ of \in [DOMAIN list -> {k \in 1 .. i : answer.records[k].type = HostType}]
        /\ \A m, n \in DOMAIN list : m < n => of[m] < of[n]
        /\ \A k \in {k \in 1 .. i : answer.records[k].type = HostType} :
             \E n \in DOMAIN list : of[n] = k
        /\ \A n \in DOMAIN list :
             list[n] = [domain |-> Text(OwnerOf(answer, of[n])),
                        ip |-> answer.records[of[n]].data]
    BY <2>2 DEF InOrder, Found, Item
  <2> QED BY <2>1, <2>3
<1> QED BY <1>1, InStepHolds, PTL
=============================================================================
