---------------------------- MODULE ClientProofs ----------------------------
(***************************************************************************)
(* Proofs about the clients over TCP: Http, and in the second part         *)
(* LoadClient.                                                             *)
(*                                                                         *)
(* What Http keeps for any buffer, any timeout and any response.           *)
(*                                                                         *)
(* NothingLost speaks of whole sequences; the inductive invariant, Placed, *)
(* says at which place of the response each byte belongs: those of the     *)
(* result at its beginning, those of the socket's buffer right behind.     *)
(***************************************************************************)
EXTENDS Http, FiniteSetTheorems, SequenceTheorems, WellFoundedInduction, TLAPS

ZeroFree == \A k \in 1 .. Len(sent) : sent[k] # 0

Placed ==
  /\ Len(result) + Len(inbox) <= Len(sent)
  /\ peer \in {"open", "closed"} => Len(result) + Len(inbox) = Len(sent)
  /\ \A k \in 1 .. Len(result) : result[k] = sent[k]
  /\ \A k \in 1 .. Len(inbox) : inbox[k] = sent[Len(result) + k]

EndRead == pc = "closed" => inbox = <<>> /\ peer \in {"closed", "ended"}

HInv == TypeOK /\ (ZeroFree => Placed) /\ EndRead /\ ResultFits

-----------------------------------------------------------------------------
(* The operators of Http *)

\* A set of natural numbers has a least one, which is what Min returns.
LEMMA MinFacts ==
  ASSUME NEW S, S \subseteq Nat, S # {}
  PROVE  Min(S) \in S /\ \A n \in S : Min(S) <= n
<1>1. \E m \in S : \A n \in S : ~ (<<n, m>> \in OpToRel(<, Nat))
  BY NatLessThanWellFounded, WFMin
<1>2. PICK m \in S : \A n \in S : ~ (<<n, m>> \in OpToRel(<, Nat)) BY <1>1
<1>3. ASSUME NEW n \in S, n < m PROVE <<n, m>> \in OpToRel(<, Nat)
  <2>1. <<n, m>> \in Nat \X Nat OBVIOUS
  <2>2. <<n, m>>[1] < <<n, m>>[2] BY <1>3
  <2> QED BY <2>1, <2>2 DEF OpToRel
<1>4. \A n \in S : ~ (n < m) BY <1>2, <1>3, Zenon
<1>5. \A n \in S : m <= n BY <1>4
<1> QED BY <1>5 DEF Min

\* strncat copies no more than recv received, and all of it when there is no
\* zero byte.
LEMMA BeforeZeroFacts ==
  ASSUME NEW bytes \in Seq(Nat)
  PROVE  /\ BeforeZero(bytes) \in Seq(Nat)
         /\ Len(BeforeZero(bytes)) <= Len(bytes)
         /\ (\A k \in 1 .. Len(bytes) : bytes[k] # 0) => BeforeZero(bytes) = bytes
<1> DEFINE zeros == {k \in DOMAIN bytes : bytes[k] = 0}
<1>1. DOMAIN bytes = 1 .. Len(bytes) /\ Len(bytes) \in Nat BY LenProperties
<1>2. CASE zeros = {} BY <1>1, <1>2 DEF BeforeZero
<1>3. CASE zeros # {}
  <2>1. zeros \subseteq Nat BY <1>1
  <2>2. Min(zeros) \in zeros BY <1>3, <2>1, MinFacts
  <2>3. Min(zeros) \in 1 .. Len(bytes) BY <1>1, <2>2
  <2>4. BeforeZero(bytes) = SubSeq(bytes, 1, Min(zeros) - 1)
    BY <1>3 DEF BeforeZero
  <2>5. \A k \in 1 .. Min(zeros) - 1 : bytes[k] \in Nat
    BY <1>1, <2>3, ElementOfSeq
  <2>6. /\ SubSeq(bytes, 1, Min(zeros) - 1) \in Seq(Nat)
        /\ Len(SubSeq(bytes, 1, Min(zeros) - 1)) <= Len(bytes)
    BY <1>1, <2>3, <2>5, SubSeqProperties
  <2> QED BY <1>1, <2>2, <2>4, <2>6
<1> QED BY <1>2, <1>3

\* What recv takes is not empty, no more than the buffer holds, and is there.
LEMMA TakenFacts ==
  ASSUME TypeOK, inbox # <<>>
  PROVE  Min({BufferSize, Len(inbox)}) \in 1 .. Len(inbox)
<1>1. Len(inbox) \in Nat \ {0} BY EmptySeq, LenProperties DEF TypeOK
<1>2. {BufferSize, Len(inbox)} \subseteq Nat \ {0} BY <1>1, BufferAssumption
<1>3. /\ Min({BufferSize, Len(inbox)}) \in {BufferSize, Len(inbox)}
      /\ Min({BufferSize, Len(inbox)}) <= Len(inbox)
  BY <1>2, MinFacts
<1> QED BY <1>1, <1>2, <1>3

-----------------------------------------------------------------------------
(* The inductive invariant *)

\* Before anything is sent nothing is collected.
LEMMA InitInv == Init => HInv
<1> SUFFICES ASSUME Init PROVE HInv OBVIOUS
<1>1. TypeOK
  <2>1. <<>> \in Seq(Nat) BY EmptySeq
  <2>2. Seconds \in 0 .. Seconds BY SecondsAssumption
  <2> QED BY <2>1, <2>2 DEF Init, TypeOK
<1>2. Placed BY DEF Init, Placed
<1>3. EndRead /\ ResultFits BY DEF Init, EndRead, ResultFits
<1> QED BY <1>1, <1>2, <1>3 DEF HInv

\* A turn of the loop moves the first bytes of the socket to the result: each
\* keeps its place in the response.
LEMMA RecvInv == ASSUME HInv, Recv PROVE HInv'
<1> DEFINE len == Min({BufferSize, Len(inbox)})
<1> DEFINE taken == SubSeq(inbox, 1, len)
<1> DEFINE rest == SubSeq(inbox, len + 1, Len(inbox))
<1> USE DEF HInv
<1>1. /\ result' = result \o BeforeZero(taken)
      /\ size' = Len(result) + len + 1
      /\ inbox' = rest
      /\ pc' = "select" /\ UNCHANGED <<connected, peer, sent, tv>>
  BY DEF Recv
<1>2. len \in 1 .. Len(inbox) BY TakenFacts DEF Recv
<1>3. /\ result \in Seq(Nat) /\ inbox \in Seq(Nat) /\ sent \in Seq(Nat)
      /\ Len(result) \in Nat /\ Len(inbox) \in Nat /\ Len(sent) \in Nat
  BY LenProperties DEF TypeOK
<1>4. \A k \in 1 .. Len(inbox) : inbox[k] \in Nat BY <1>3, ElementOfSeq
<1> HIDE DEF len
<1>5. /\ taken \in Seq(Nat) /\ Len(taken) = len
      /\ \A k \in 1 .. len : taken[k] = inbox[k]
  <2>1. \A k \in 1 .. len : inbox[k] \in Nat BY <1>2, <1>3, <1>4
  <2> QED BY <1>2, <1>3, <2>1, SubSeqProperties
<1>6. /\ rest \in Seq(Nat) /\ Len(rest) = Len(inbox) - len
      /\ \A k \in 1 .. Len(inbox) - len : rest[k] = inbox[len + k]
  <2>1. \A k \in len + 1 .. Len(inbox) : inbox[k] \in Nat BY <1>2, <1>3, <1>4
  <2>2. /\ rest \in Seq(Nat)
        /\ Len(rest) = IF len + 1 <= Len(inbox) THEN Len(inbox) - (len + 1) + 1 ELSE 0
        /\ \A k \in 1 .. Len(inbox) - (len + 1) + 1 : rest[k] = inbox[(len + 1) + k - 1]
    BY <1>2, <1>3, <2>1, SubSeqProperties
  <2> QED BY <1>2, <1>3, <2>2
<1> DEFINE copied == BeforeZero(taken)
<1> HIDE DEF taken, rest
<1>7. /\ copied \in Seq(Nat) /\ Len(copied) <= len /\ Len(copied) \in Nat
      /\ (\A k \in 1 .. len : taken[k] # 0) => copied = taken
  BY <1>5, BeforeZeroFacts, LenProperties
<1> HIDE DEF copied
<1>8. /\ result \o copied \in Seq(Nat)
      /\ Len(result \o copied) = Len(result) + Len(copied)
      /\ \A k \in 1 .. Len(result) + Len(copied) : (result \o copied)[k] =
           IF k <= Len(result) THEN result[k] ELSE copied[k - Len(result)]
  BY <1>3, <1>7, ConcatProperties
<1>9. result' = result \o copied BY <1>1 DEF copied
<1>10. TypeOK'
  <2>1. size' \in Nat BY <1>1, <1>2, <1>3
  <2> QED BY <1>1, <1>6, <1>8, <1>9, <2>1 DEF TypeOK
<1>11. ResultFits' BY <1>1, <1>2, <1>3, <1>7, <1>8, <1>9 DEF ResultFits
<1>12. EndRead' BY <1>1 DEF EndRead
<1>13. ASSUME ZeroFree' PROVE Placed'
  <2>1. ZeroFree /\ Placed BY <1>1, <1>13 DEF ZeroFree
  <2>2. \A k \in 1 .. len : taken[k] = sent[Len(result) + k]
    <3>1. 1 .. len \subseteq 1 .. Len(inbox) BY <1>2, <1>3
    <3> QED BY <1>5, <2>1, <3>1 DEF Placed
  <2>3. \A k \in 1 .. len : Len(result) + k \in 1 .. Len(sent)
    BY <1>2, <1>3, <2>1 DEF Placed
  <2>4. copied = taken BY <1>7, <2>1, <2>2, <2>3 DEF ZeroFree
  <2>5. Len(result') = Len(result) + len /\ Len(inbox') = Len(inbox) - len
    BY <1>1, <1>5, <1>6, <1>8, <1>9, <2>4
  <2>6. /\ Len(result') + Len(inbox') <= Len(sent)
        /\ peer \in {"open", "closed"} => Len(result') + Len(inbox') = Len(sent)
    <3>1. Len(result') + Len(inbox') = Len(result) + Len(inbox)
      BY <1>2, <1>3, <2>5
    <3> QED BY <2>1, <3>1 DEF Placed
  <2>7. ASSUME NEW k \in 1 .. Len(result') PROVE result'[k] = sent[k]
    <3>1. k \in 1 .. Len(result) + len /\ k \in Int BY <1>2, <1>3, <2>5
    <3>2. CASE k <= Len(result)
      <4>1. k \in 1 .. Len(result) BY <1>3, <3>1, <3>2
      <4> QED BY <1>5, <1>8, <1>9, <2>1, <2>4, <3>1, <3>2, <4>1 DEF Placed
    <3>3. CASE ~ (k <= Len(result))
      <4>1. k - Len(result) \in 1 .. len /\ Len(result) + (k - Len(result)) = k
        BY <1>2, <1>3, <3>1, <3>3
      <4>2. result'[k] = taken[k - Len(result)]
        BY <1>5, <1>8, <1>9, <2>4, <3>1, <3>3
      <4> QED BY <2>2, <4>1, <4>2
    <3> QED BY <3>2, <3>3
  <2>8. ASSUME NEW k \in 1 .. Len(inbox')
        PROVE  inbox'[k] = sent[Len(result') + k]
    <3>1. k \in 1 .. Len(inbox) - len /\ len + k \in 1 .. Len(inbox)
      BY <1>2, <1>3, <2>5
    <3>2. inbox'[k] = inbox[len + k] BY <1>1, <1>6, <3>1
    <3>3. inbox[len + k] = sent[Len(result) + (len + k)] BY <2>1, <3>1 DEF Placed
    <3>4. Len(result) + (len + k) = Len(result') + k BY <1>2, <1>3, <2>5, <3>1
    <3> QED BY <3>2, <3>3, <3>4
  <2> QED BY <1>1, <2>6, <2>7, <2>8 DEF Placed
<1> QED BY <1>10, <1>11, <1>12, <1>13

\* The next byte of the response goes behind those that wait in the socket.
LEMMA ArriveInv == ASSUME HInv, Arrive PROVE HInv'
<1> USE DEF HInv
<1>1. PICK byte \in {Len(sent) + 1, 0} :
        sent' = Append(sent, byte) /\ inbox' = Append(inbox, byte)
  BY DEF Arrive
<1>2. peer = "open" /\ UNCHANGED <<pc, connected, peer, tv, result, size>>
  BY DEF Arrive, resultVars
<1>3. /\ inbox \in Seq(Nat) /\ sent \in Seq(Nat)
      /\ Len(result) \in Nat /\ Len(inbox) \in Nat /\ Len(sent) \in Nat
  BY LenProperties DEF TypeOK
<1>4. byte \in Nat BY <1>3
<1>5. /\ sent' \in Seq(Nat) /\ Len(sent') = Len(sent) + 1
      /\ \A k \in 1 .. Len(sent) : sent'[k] = sent[k]
      /\ sent'[Len(sent) + 1] = byte
  BY <1>1, <1>3, <1>4, AppendProperties
<1>6. /\ inbox' \in Seq(Nat) /\ Len(inbox') = Len(inbox) + 1
      /\ \A k \in 1 .. Len(inbox) : inbox'[k] = inbox[k]
      /\ inbox'[Len(inbox) + 1] = byte
  BY <1>1, <1>3, <1>4, AppendProperties
<1>7. TypeOK' BY <1>2, <1>5, <1>6 DEF TypeOK
<1>8. EndRead' /\ ResultFits' BY <1>2 DEF EndRead, ResultFits
<1>9. ASSUME ZeroFree' PROVE Placed'
  <2>1. Placed BY <1>3, <1>5, <1>9 DEF ZeroFree
  <2>2. Len(result) + Len(inbox) = Len(sent) BY <1>2, <2>1 DEF Placed
  <2>3. \A k \in 1 .. Len(result) : result[k] = sent'[k]
    BY <1>3, <1>5, <2>1, <2>2 DEF Placed
  <2>4. ASSUME NEW k \in 1 .. Len(inbox') PROVE inbox'[k] = sent'[Len(result) + k]
    <3>1. CASE k = Len(inbox) + 1 BY <1>3, <1>5, <1>6, <2>2, <3>1
    <3>2. CASE k # Len(inbox) + 1
      <4>1. k \in 1 .. Len(inbox) /\ Len(result) + k \in 1 .. Len(sent)
        BY <1>3, <1>6, <2>2, <3>2
      <4> QED BY <1>5, <1>6, <2>1, <4>1 DEF Placed
    <3> QED BY <3>1, <3>2
  <2>5. Len(result) + Len(inbox') = Len(sent') BY <1>3, <1>5, <1>6, <2>2
  <2> QED BY <1>2, <1>3, <1>5, <1>6, <2>3, <2>4, <2>5 DEF Placed
<1> QED BY <1>7, <1>8, <1>9

\* Every step keeps the invariant.
LEMMA NextInv == ASSUME HInv, [Next]_vars PROVE HInv'
<1> USE DEF HInv
<1>1. CASE Resolve \/ Connect \/ ConnectFails \/ Tick \/ TimeOut \/ Select
  <2>1. UNCHANGED <<peer, sent, inbox, result, size>>
    BY <1>1 DEF Resolve, Connect, ConnectFails, Tick, TimeOut, Select, serverVars, resultVars
  <2>2. /\ pc' \in {"connect", "crashed", "send", "select", "recv", "timedOut"}
        /\ connected' \in BOOLEAN
    BY <1>1 DEF Resolve, Connect, ConnectFails, Tick, TimeOut, Select, TypeOK
  <2>3. tv' \in 0 .. Seconds
    <3>1. CASE Tick BY <3>1, SecondsAssumption DEF Tick, TypeOK
    <3>2. CASE ~ Tick
      <4>1. tv' = tv BY <1>1, <3>2 DEF Resolve, Connect, ConnectFails, TimeOut, Select
      <4> QED BY <4>1 DEF TypeOK
    <3> QED BY <3>1, <3>2
  <2> QED BY <2>1, <2>2, <2>3 DEF TypeOK, ZeroFree, Placed, EndRead, ResultFits
<1>2. CASE Send
  <2>1. /\ pc' = "select" /\ peer' \in {peer, "ended"} /\ (peer' = peer \/ peer = "reset")
        /\ UNCHANGED <<connected, sent, inbox, tv, result, size>>
    BY <1>2 DEF Send, resultVars
  <2> QED BY <2>1 DEF TypeOK, ZeroFree, Placed, EndRead, ResultFits
<1>3. CASE Recv BY <1>3, RecvInv
<1>4. CASE RecvEnd
  <2>1. /\ pc' = "closed" /\ inbox = <<>> /\ peer \in {"closed", "ended"}
        /\ UNCHANGED <<connected, peer, sent, inbox, tv, result, size>>
    BY <1>4 DEF RecvEnd, serverVars, resultVars
  <2> QED BY <2>1 DEF TypeOK, ZeroFree, Placed, EndRead, ResultFits
<1>5. CASE RecvFails
  <2>1. /\ pc' \in {"select", "crashed"} /\ peer' = "ended" /\ size' = Len(result)
        /\ UNCHANGED <<connected, sent, inbox, tv, result>>
    BY <1>5 DEF RecvFails
  <2>2. size' \in Nat BY <2>1, LenProperties DEF TypeOK
  <2> QED BY <2>1, <2>2 DEF TypeOK, ZeroFree, Placed, EndRead, ResultFits
<1>6. CASE Arrive BY <1>6, ArriveInv
<1>7. CASE Close
  <2>1. /\ peer = "open" /\ peer' = "closed"
        /\ UNCHANGED <<pc, connected, sent, inbox, tv, result, size>>
    BY <1>7 DEF Close, resultVars
  <2> QED BY <2>1 DEF TypeOK, ZeroFree, Placed, EndRead, ResultFits
<1>8. CASE Reset
  <2>1. /\ peer = "open" /\ peer' = "reset" /\ inbox' \in {inbox, <<>>}
        /\ UNCHANGED <<pc, connected, sent, tv, result, size>>
    BY <1>8 DEF Reset, resultVars
  <2>2. /\ Len(result) \in Nat /\ Len(inbox) \in Nat /\ Len(sent) \in Nat
        /\ Len(<<>>) = 0 /\ <<>> \in Seq(Nat)
    BY LenProperties, EmptySeq DEF TypeOK
  <2>3. TypeOK' BY <2>1, <2>2 DEF TypeOK
  <2>4. EndRead' /\ ResultFits' BY <2>1 DEF EndRead, ResultFits
  <2>5. ZeroFree' => Placed'
    <3>1. CASE inbox' = inbox BY <2>1, <3>1 DEF ZeroFree, Placed
    <3>2. CASE inbox' = <<>> BY <2>1, <2>2, <3>2 DEF ZeroFree, Placed
    <3> QED BY <2>1, <3>1, <3>2
  <2> QED BY <2>3, <2>4, <2>5
<1>9. CASE UNCHANGED vars
  BY <1>9 DEF vars, serverVars, resultVars, TypeOK, ZeroFree, Placed, EndRead, ResultFits
<1> QED BY <1>1, <1>2, <1>3, <1>4, <1>5, <1>6, <1>7, <1>8, <1>9
        DEF Next, ClientStep, ServerStep

LEMMA InvHolds == Spec => []HInv
<1>1. HInv /\ [Next]_vars => HInv' BY NextInv
<1> QED BY InitInv, <1>1, PTL DEF Spec

\* Bytes at their places make the sequences of NothingLost.
LEMMA PlacedIsNothingLost == ASSUME HInv PROVE NothingLost
<1> USE DEF HInv
<1> SUFFICES ASSUME 0 \notin Range(sent)
             PROVE  /\ IF peer \in {"open", "closed"} THEN result \o inbox = sent
                                                      ELSE IsPrefix(result, sent)
                    /\ pc = "closed" => inbox = <<>>
  BY DEF NothingLost
<1>1. /\ result \in Seq(Nat) /\ inbox \in Seq(Nat) /\ sent \in Seq(Nat)
      /\ Len(result) \in Nat /\ Len(inbox) \in Nat /\ Len(sent) \in Nat
  BY LenProperties DEF TypeOK
<1>2. ZeroFree BY <1>1, RangeEquality DEF ZeroFree
<1>3. Placed BY <1>2
<1>4. ASSUME peer \in {"open", "closed"} PROVE result \o inbox = sent
  <2>1. Len(result) + Len(inbox) = Len(sent) BY <1>3, <1>4 DEF Placed
  <2>2. /\ result \o inbox \in Seq(Nat) /\ Len(result \o inbox) = Len(sent)
        /\ \A k \in 1 .. Len(sent) : (result \o inbox)[k] =
             IF k <= Len(result) THEN result[k] ELSE inbox[k - Len(result)]
    BY <1>1, <2>1, ConcatProperties
  <2>3. ASSUME NEW k \in 1 .. Len(sent) PROVE (result \o inbox)[k] = sent[k]
    <3>1. CASE k <= Len(result)
      <4>1. k \in 1 .. Len(result) BY <1>1, <3>1
      <4> QED BY <1>3, <2>2, <3>1, <4>1 DEF Placed
    <3>2. CASE ~ (k <= Len(result))
      <4>1. k - Len(result) \in 1 .. Len(inbox) /\ Len(result) + (k - Len(result)) = k
        BY <1>1, <2>1, <3>2
      <4> QED BY <1>3, <2>2, <3>2, <4>1 DEF Placed
    <3> QED BY <3>1, <3>2
  <2> QED BY <1>1, <2>2, <2>3, SeqEqual
<1>5. IsPrefix(result, sent)
  <2>1. Len(result) <= Len(sent) BY <1>1, <1>3 DEF Placed
  <2>2. \A k \in 1 .. Len(result) : result[k] \in Nat /\ sent[k] \in Nat
    BY <1>1, <2>1, ElementOfSeq
  <2>3. /\ SubSeq(result, 1, Len(result)) \in Seq(Nat)
        /\ SubSeq(sent, 1, Len(result)) \in Seq(Nat)
        /\ Len(SubSeq(result, 1, Len(result))) = Len(result)
        /\ Len(SubSeq(sent, 1, Len(result))) = Len(result)
        /\ \A k \in 1 .. Len(result) : /\ SubSeq(result, 1, Len(result))[k] = result[k]
                                       /\ SubSeq(sent, 1, Len(result))[k] = sent[k]
    BY <1>1, <2>2, SubSeqProperties
  <2>4. SubSeq(result, 1, Len(result)) = SubSeq(sent, 1, Len(result))
    BY <1>3, <2>3, SeqEqual DEF Placed
  <2> QED BY <2>1, <2>4 DEF IsPrefix
<1> QED BY <1>4, <1>5 DEF EndRead

-----------------------------------------------------------------------------
(* The theorems *)

\* Types of the request's state, whatever the server does.
THEOREM TypeCorrect == Spec => []TypeOK
<1>1. HInv => TypeOK BY DEF HInv
<1> QED BY <1>1, InvHolds, PTL

\* For a buffer of any size and a response of any length and any pieces, the
\* loop of http_send_request loses, repeats and swaps no byte of a text.
THEOREM NothingLostHolds == Spec => []NothingLost
<1>1. HInv => NothingLost BY PlacedIsNothingLost
<1> QED BY <1>1, InvHolds, PTL

\* Until recv fails, the block that http_send_request makes room for holds the
\* string and its end, zero bytes in the response or not.
THEOREM ResultFitsHolds == Spec => []ResultFits
<1>1. HInv => ResultFits BY DEF HInv
<1> QED BY <1>1, InvHolds, PTL

-----------------------------------------------------------------------------
(***************************************************************************)
(* What LoadClient keeps for any descriptors, any limit and any batch.     *)
(*                                                                         *)
(* The invariant that is inductive says where the events of a batch come   *)
(* from: open descriptors, one event for each. An event is taken out of    *)
(* the batch when its descriptor is closed, so the rest stay open; and the *)
(* counter, lowered by one, still covers one open socket less.             *)
(***************************************************************************)
CONSTANTS Fds, MaxConnections, Batch

VARIABLES main, connections, sockfd, open, watched, servers, unread, full, batch

\* Both clients have a pc and a peer.
Load == INSTANCE LoadClient WITH pc <- main, peer <- servers

\* FiniteFds and CounterCoversOpen of LoadClient.
FiniteFds == IsFiniteSet(Fds) /\ Fds \subseteq Nat \ {0}
CounterCovers == Cardinality(open) <= connections /\ connections <= MaxConnections

Covered == open \subseteq Fds /\ CounterCovers

LoadInv == Load!TypeOK /\ Load!EventsOpen /\ Covered /\ watched \subseteq open

-----------------------------------------------------------------------------
(* Counting the open sockets *)

\* A new socket and one more on the counter: still covered.
LEMMA OpenOne ==
  ASSUME FiniteFds, open \subseteq Fds, connections \in Nat,
         Cardinality(open) <= connections, NEW fd \in Fds \ open
  PROVE  Cardinality(open \cup {fd}) <= connections + 1
<1>1. IsFiniteSet(open) BY FS_Subset DEF FiniteFds
<1>2. Cardinality(open) \in Nat BY <1>1, FS_CardinalityType
<1>3. Cardinality(open \cup {fd}) = Cardinality(open) + 1 BY <1>1, FS_AddElement
<1> QED BY <1>2, <1>3

\* A closed socket was counted, and what is left is covered by one less.
LEMMA CloseOne ==
  ASSUME FiniteFds, open \subseteq Fds, connections \in Nat,
         Cardinality(open) <= connections, NEW fd \in open
  PROVE  /\ Cardinality(open \ {fd}) <= connections - 1
         /\ connections - 1 \in Nat
<1>1. IsFiniteSet(open) BY FS_Subset DEF FiniteFds
<1>2. Cardinality(open) \in Nat BY <1>1, FS_CardinalityType
<1>3. Cardinality(open \ {fd}) = Cardinality(open) - 1 BY <1>1, FS_RemoveElement
<1>4. IsFiniteSet(open \ {fd}) BY <1>1, FS_Subset
<1>5. Cardinality(open \ {fd}) \in Nat BY <1>4, FS_CardinalityType
<1> QED BY <1>2, <1>3, <1>5

-----------------------------------------------------------------------------
(* The inductive invariant *)

\* At the start no socket is open and no event known.
LEMMA LoadInit == ASSUME FiniteFds, Load!PositiveLimit, Load!Init PROVE LoadInv
<1>1. Cardinality({}) = 0 BY FS_EmptySet
<1>2. Load!TypeOK BY DEF Load!Init, Load!TypeOK
<1>3. Load!EventsOpen BY DEF Load!Init, Load!EventsOpen
<1>4. Covered BY <1>1 DEF Load!Init, Covered, CounterCovers, Load!PositiveLimit
<1> QED BY <1>2, <1>3, <1>4 DEF LoadInv, Load!Init

\* The events of a batch are of watched descriptors, one of each.
LEMMA WaitInv == ASSUME LoadInv, Load!Wait PROVE LoadInv'
<1> USE DEF LoadInv
<1>1. PICK ready \in SUBSET {fd \in watched : Load!CanWrite(fd) \/ Load!CanRead(fd)} :
         batch' = {Load!Event(fd) : fd \in ready}
  BY DEF Load!Wait
<1>2. ready \subseteq open /\ ready \subseteq Fds BY DEF Load!TypeOK
<1>3. ASSUME NEW fd \in ready
      PROVE  Load!Event(fd).fd = fd /\ Load!Event(fd) \in [fd : Fds, out : BOOLEAN, in : BOOLEAN]
  <2>1. Load!CanWrite(fd) \in BOOLEAN /\ Load!CanRead(fd) \in BOOLEAN BY DEF Load!CanWrite, Load!CanRead
  <2> QED BY <1>2, <2>1 DEF Load!Event
<1>4. Load!TypeOK'
  <2>1. batch' \subseteq [fd : Fds, out : BOOLEAN, in : BOOLEAN] BY <1>1, <1>3
  <2> QED BY <2>1 DEF Load!Wait, Load!TypeOK, Load!netVars
<1>5. Load!EventsOpen'
  <2>1. \A event \in batch' : event.fd \in ready /\ event = Load!Event(event.fd)
    BY <1>1, <1>3
  <2> QED BY <1>2, <2>1 DEF Load!Wait, Load!EventsOpen
<1>6. Covered' /\ (watched \subseteq open)'
  BY DEF Load!Wait, Covered, CounterCovers
<1> QED BY <1>4, <1>5, <1>6

\* An event whose descriptor is closed leaves the batch: the others are of
\* other descriptors, which stay open.
LEMMA CloseKeepsEvents ==
  ASSUME Load!EventsOpen, NEW event \in batch,
         batch' = batch \ {event}, Load!Close(event.fd)
  PROVE  Load!EventsOpen'
<1>1. \A other \in batch' : other \in batch /\ other.fd # event.fd BY DEF Load!EventsOpen
<1> QED BY <1>1 DEF Load!EventsOpen, Load!Close

\* Every step keeps the invariant.
LEMMA LoadNext ==
  ASSUME FiniteFds, Load!PositiveLimit, LoadInv, [Load!Next]_Load!vars
  PROVE  LoadInv'
<1> USE DEF LoadInv
<1>1. CASE Load!Connect
  <2>1. PICK fd \in Fds \ open :
          /\ sockfd' = fd /\ open' = open \cup {fd}
          /\ watched' \in {watched, watched \cup {fd}}
          /\ servers' = [servers EXCEPT ![fd] = "open"]
          /\ unread' = unread \ {fd} /\ full' = full \ {fd}
    BY <1>1 DEF Load!Connect
  <2>2. connections < MaxConnections /\ connections' = connections + 1
        /\ main' \in {"wait", "loop"} /\ batch' = batch
    BY <1>1 DEF Load!Connect
  <2>3. Load!TypeOK' BY <2>1, <2>2 DEF Load!TypeOK
  <2>4. Load!EventsOpen' BY <2>1, <2>2 DEF Load!EventsOpen
  <2>5. Covered'
    <3>1. Cardinality(open \cup {fd}) <= connections + 1
      BY OpenOne, <2>1 DEF Covered, CounterCovers, Load!TypeOK
    <3>2. connections + 1 <= MaxConnections
      BY <2>2 DEF Load!TypeOK, Load!PositiveLimit
    <3> QED BY <2>1, <2>2, <3>1, <3>2 DEF Covered, CounterCovers
  <2> QED BY <2>1, <2>3, <2>4, <2>5
<1>2. CASE Load!ConnectFails \/ Load!AtLimit \/ Load!EventsDone
  <2>1. /\ main' \in {"ended", "wait", "loop"} /\ sockfd' \in Fds \cup {0}
        /\ UNCHANGED <<connections, open, watched, servers, unread, full, batch>>
    BY <1>2 DEF Load!ConnectFails, Load!AtLimit, Load!EventsDone, Load!netVars, Load!TypeOK
  <2> QED BY <2>1 DEF Load!TypeOK, Load!EventsOpen, Covered, CounterCovers
<1>3. CASE Load!Wait BY <1>3, WaitInv
<1>4. CASE Load!SendData \/ Load!ReceiveData
  <2>1. /\ UNCHANGED <<connections, sockfd, open, watched>>
        /\ batch' \subseteq batch
    BY <1>4 DEF Load!SendData, Load!ReceiveData
  <2>2. CASE Load!ReceiveData
    BY <2>1, <2>2 DEF Load!TypeOK, Load!EventsOpen, Covered, CounterCovers, Load!ReceiveData
  <2>3. CASE Load!SendData
    <3>1. main' \in {"ended", main} /\ unread' = unread BY <2>3 DEF Load!SendData
    <3>2. servers' \in [Fds -> {"open", "closed", "reset", "gone"}]
      BY <2>3 DEF Load!SendData, Load!TypeOK
    <3>3. full' \subseteq Fds BY <2>3 DEF Load!SendData, Load!TypeOK, Covered
    <3>4. Load!TypeOK' BY <2>1, <3>1, <3>2, <3>3 DEF Load!TypeOK
    <3> QED BY <2>1, <3>4 DEF Load!EventsOpen, Covered, CounterCovers
  <2> QED BY <1>4, <2>2, <2>3
<1>5. CASE Load!Disconnect
  <2>1. PICK event \in batch : batch' = batch \ {event} /\ Load!Close(event.fd)
    BY <1>5 DEF Load!Disconnect
  <2>2. connections' = connections - 1 /\ UNCHANGED <<main, sockfd, servers, unread, full>>
    BY <1>5 DEF Load!Disconnect, Load!netVars
  <2>3. event.fd \in open BY <2>1 DEF Load!EventsOpen
  <2>4. /\ Cardinality(open \ {event.fd}) <= connections - 1
        /\ connections - 1 \in Nat
    BY <2>3, CloseOne DEF Covered, CounterCovers, Load!TypeOK
  <2>5. Load!EventsOpen' BY <2>1, CloseKeepsEvents
  <2>6. Load!TypeOK' BY <2>1, <2>2, <2>4 DEF Load!TypeOK, Load!Close
  <2>7. connections - 1 <= MaxConnections
    BY DEF Covered, CounterCovers, Load!TypeOK, Load!PositiveLimit
  <2>8. Covered' /\ (watched \subseteq open)'
    BY <2>1, <2>2, <2>4, <2>7 DEF Covered, CounterCovers, Load!Close
  <2> QED BY <2>5, <2>6, <2>8
<1>6. CASE Load!ReceiveFails
  <2>1. PICK event \in batch : batch' = batch \ {event} /\ Load!Close(event.fd)
    BY <1>6 DEF Load!ReceiveFails
  <2>2. UNCHANGED <<connections, main, sockfd, unread, full>>
    BY <1>6 DEF Load!ReceiveFails
  <2>3. event.fd \in open BY <2>1 DEF Load!EventsOpen
  <2>4. /\ Cardinality(open \ {event.fd}) <= connections - 1
        /\ connections - 1 \in Nat
    BY <2>3, CloseOne DEF Covered, CounterCovers, Load!TypeOK
  <2>5. Load!EventsOpen' BY <2>1, CloseKeepsEvents
  <2>6. Load!TypeOK'
    <3>1. servers' \in [Fds -> {"open", "closed", "reset", "gone"}]
      BY <1>6 DEF Load!ReceiveFails, Load!TypeOK
    <3> QED BY <2>1, <2>2, <3>1 DEF Load!TypeOK, Load!Close
  <2>7. Cardinality(open \ {event.fd}) <= connections
    <3>1. IsFiniteSet(open \ {event.fd}) BY FS_Subset DEF FiniteFds, Covered
    <3>2. Cardinality(open \ {event.fd}) \in Nat BY <3>1, FS_CardinalityType
    <3> QED BY <2>4, <3>2 DEF Load!TypeOK
  <2>8. Covered' /\ (watched \subseteq open)'
    BY <2>1, <2>2, <2>7 DEF Covered, CounterCovers, Load!Close
  <2> QED BY <2>5, <2>6, <2>8
<1>7. CASE Load!ServerStep
  <2>1. PICK fd \in Fds : Load!ServerSends(fd) \/ Load!ServerReads(fd) \/ Load!ServerLeaves(fd)
    BY <1>7 DEF Load!ServerStep
  <2>2. UNCHANGED <<main, connections, sockfd, open, watched, batch>>
    BY <2>1 DEF Load!ServerSends, Load!ServerReads, Load!ServerLeaves
  <2>3. Load!TypeOK'
    BY <2>1, <2>2 DEF Load!TypeOK, Load!ServerSends, Load!ServerReads, Load!ServerLeaves
  <2> QED BY <2>2, <2>3 DEF Load!EventsOpen, Covered, CounterCovers
<1>8. CASE UNCHANGED Load!vars
  BY <1>8 DEF Load!vars, Load!netVars, Load!TypeOK, Load!EventsOpen, Covered, CounterCovers
<1> QED BY <1>1, <1>2, <1>3, <1>4, <1>5, <1>6, <1>7, <1>8 DEF Load!Next, Load!MainStep

\* An instance of a module has copies of the operators of sets.
LEMMA SameCounting ==
  /\ Load!FiniteFds <=> FiniteFds
  /\ CounterCovers => Load!CounterCoversOpen
<1>1. Load!IsFiniteSet(Fds) <=> IsFiniteSet(Fds)
  BY DEF Load!IsFiniteSet, IsFiniteSet
<1>2. Load!Cardinality(open) = Cardinality(open)
  BY DEF Load!Cardinality, Cardinality
<1> QED BY <1>1, <1>2 DEF Load!FiniteFds, FiniteFds, Load!CounterCoversOpen, CounterCovers

LEMMA LoadHolds == ASSUME FiniteFds, Load!PositiveLimit PROVE Load!Spec => []LoadInv
<1>1. Load!Init => LoadInv BY LoadInit
<1>2. LoadInv /\ [Load!Next]_Load!vars => LoadInv' BY LoadNext
<1> QED BY <1>1, <1>2, PTL DEF Load!Spec

-----------------------------------------------------------------------------
(* The theorems *)

\* Types: what main keeps has its shape for any descriptors, and the counter
\* never goes below zero.
THEOREM LoadTypeCorrect ==
  ASSUME Load!FiniteFds, Load!PositiveLimit PROVE Load!Spec => []Load!TypeOK
<1>1. LoadInv => Load!TypeOK BY DEF LoadInv
<1> QED BY <1>1, LoadHolds, SameCounting, PTL

\* No descriptor is closed twice in one batch, nor looked at when closed: the
\* loop closes the descriptor of the event it is at, whatever it has read.
THEOREM EventsOpenHolds ==
  ASSUME Load!FiniteFds, Load!PositiveLimit PROVE Load!Spec => []Load!EventsOpen
<1>1. LoadInv => Load!EventsOpen BY DEF LoadInv
<1> QED BY <1>1, LoadHolds, SameCounting, PTL

\* The counter that limits the connections is never lower than their number,
\* although the branch for errors closes without counting.
THEOREM CounterCoversOpenHolds ==
  ASSUME Load!FiniteFds, Load!PositiveLimit PROVE Load!Spec => []Load!CounterCoversOpen
<1>1. LoadInv => Load!CounterCoversOpen BY SameCounting DEF LoadInv, Covered
<1> QED BY <1>1, LoadHolds, SameCounting, PTL
=============================================================================
