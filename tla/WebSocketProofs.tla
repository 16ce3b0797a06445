-------------------------- MODULE WebSocketProofs --------------------------
(***************************************************************************)
(* Proofs about WebSocket. The invariant follows an item through its life: *)
(* before accept nothing watches it; while it lives, its callback and the  *)
(* watched event agree; once freed, epoll has forgotten it. That an edge   *)
(* is enough, though recv_cb does not read until EAGAIN, rests on EPOLLOUT *)
(* between two reads: every answer registers anew, and epoll looks. Three  *)
(* more invariants follow what is answered: HandInv the answer to the      *)
(* request, EchoInv the echoes; and LockInv whose turn it is, client or    *)
(* server, when clients await each answer.                                 *)
(***************************************************************************)
EXTENDS WebSocket, SequenceTheorems, TLAPS

\* The life of an item.
ItemInv ==
  \A c \in Conns :
    /\ item[c] = "none" => watch[c] = "none" /\ ~edge[c] /\ sendbuffer[c] = <<>>
    /\ item[c] = "freed" => watch[c] = "none" /\ ~edge[c]
    /\ c \in backlog => item[c] = "none" /\ client[c] # "idle"
    /\ client[c] = "idle" => item[c] = "none"

\* An answer that is ready has an event to come.
AnswerComing ==
  \A c \in Conns : (item[c] = "live" /\ watch[c] = "OUT") =>
    edge[c] \/ \E e \in batch : e.item = c

\* The listening socket is ready for input.
ListenInv == \A e \in batch : e.item = Listen => e.events = {"IN"}

LoopInv ==
  ItemInv /\ CallbackMatches /\ BatchLive /\ ReadNotMissed /\ AnswerComing /\ ListenInv

IInv == TypeOK /\ LoopInv

-----------------------------------------------------------------------------
(* Types *)

\* Any piece of a sequence of parts is one.
LEMMA PieceType ==
  ASSUME NEW S, NEW s \in Seq(S), NEW m \in Nat \ {0}, NEW n \in Nat, n <= Len(s)
  PROVE  SubSeq(s, m, n) \in Seq(S)
<1>1. \A i \in m .. n : s[i] \in S
  BY ElementOfSeq
<1> QED BY <1>1, SubSeqProperties

\* What clients send is made of parts.
LEMMA MessageType ==
  /\ Request \in Seq(Part)
  /\ \A n \in 1 .. MaxFrames : Frame(n) \in Seq(Part)
<1>1. Request \in [1 .. 5 -> Part]
  BY FramesAssumption DEF Request, Part
<1>2. \A n \in 1 .. MaxFrames : Frame(n) \in [1 .. 2 -> Part]
  BY FramesAssumption DEF Frame, Part
<1>3. \A n \in Nat : [1 .. n -> Part] \subseteq Seq(Part)
  OBVIOUS
<1> QED BY <1>1, <1>2, <1>3

\* What malloc leaves in a buffer, and what arrives, is made of what a buffer
\* may hold.
LEMMA BufferType ==
  /\ Leftovers \subseteq Seq(Buffered)
  /\ \A s \in Seq(Part) : s \in Seq(Buffered)
<1>1. OldRequest \in Seq(Stale)
  <2> DEFINE k == IF BUFFER_LENGTH < 5 THEN BUFFER_LENGTH ELSE 5
  <2>1. k \in Nat /\ k <= 5
    BY BufferAssumption
  <2>2. OldRequest = [i \in 1 .. k |-> [msg |-> -1, no |-> i]]
    BY DEF OldRequest
  <2> HIDE DEF k
  <2>3. OldRequest \in [1 .. k -> Stale]
    BY <2>1, <2>2 DEF Stale
  <2> QED BY <2>1, <2>3
<1> QED BY <1>1 DEF Leftovers, Buffered

\* What is answered is an answer.
LEMMA AnswerType ==
  ASSUME NEW c, NEW buf \in Seq(Buffered)
  PROVE  Accept(c, buf) \in Answers /\ Echo(buf) \in Answers
<1>1. Accept(c, buf) \in Answers
  BY FramesAssumption DEF Accept, Answers, Switching, WrongKey
<1>2. Junk \in Answers
  BY FramesAssumption DEF Answers, Junk
<1>3. ASSUME Len(buf) >= 2, buf[1].msg > 0 PROVE buf[1].msg \in Answers
  <2>1. buf[1] \in Buffered
    BY <1>3, ElementOfSeq
  <2>2. buf[1] \in Stale => buf[1].msg = -1
    BY DEF Stale
  <2>3. buf[1] \in Part
    BY <1>3, <2>1, <2>2 DEF Buffered
  <2> QED BY <2>3, <1>3, FramesAssumption DEF Part, Answers
<1> QED BY <1>1, <1>2, <1>3 DEF Echo

\* A recv leaves parts in the buffer and in the queue.
LEMMA RecvType ==
  ASSUME NEW buf \in Seq(Buffered), NEW queue \in Seq(Part), queue # <<>>,
         NEW n, n = IF Len(queue) < BUFFER_LENGTH THEN Len(queue) ELSE BUFFER_LENGTH
  PROVE  /\ Overwrite(buf, SubSeq(queue, 1, n)) \in Seq(Buffered)
         /\ SubSeq(queue, n + 1, Len(queue)) \in Seq(Part)
<1>1. n \in Nat /\ n <= Len(queue) /\ Len(queue) \in Nat /\ Len(buf) \in Nat
  BY BufferAssumption
<1>2. SubSeq(queue, 1, n) \in Seq(Part) /\ SubSeq(queue, n + 1, Len(queue)) \in Seq(Part)
  BY <1>1, PieceType
<1>3. SubSeq(buf, Len(SubSeq(queue, 1, n)) + 1, Len(buf)) \in Seq(Buffered)
  BY <1>1, <1>2, PieceType, LenProperties
<1>4. SubSeq(queue, 1, n) \in Seq(Buffered)
  BY <1>2, BufferType
<1> QED BY <1>2, <1>3, <1>4, ConcatProperties DEF Overwrite

LEMMA InitIInv == Init => IInv
BY EmptySeq, FramesAssumption
DEF Init, IInv, TypeOK, LoopInv, ItemInv, CallbackMatches, BatchLive,
    ReadNotMissed, AnswerComing, ListenInv, Readable

\* What Watch leaves behind.
LEMMA WatchType ==
  ASSUME TypeOK, NEW c \in Conns, NEW event \in {"IN", "OUT"}, Watch(c, event)
  PROVE  /\ watch' \in [Conns -> {"none", "IN", "OUT"}]
         /\ edge' \in [Conns -> BOOLEAN]
         /\ watch' = [watch EXCEPT ![c] = event]
         /\ edge'[c] <=> (event = "OUT" \/ Readable(c))
         /\ \A d \in Conns \ {c} : edge'[d] = edge[d]
<1>1. (event = "OUT" \/ Readable(c)) \in BOOLEAN
  OBVIOUS
<1> QED BY <1>1 DEF Watch, TypeOK

\* Dispatch takes nothing away but the event, and adds nothing of a new kind.
LEMMA DispatchType ==
  ASSUME TypeOK, NEW e, Dispatch(e)
  PROVE  batch' \subseteq [item : Conns \cup {Listen}, events : SUBSET {"IN", "OUT"}]
<1>1. e \in [item : Conns \cup {Listen}, events : SUBSET {"IN", "OUT"}]
  BY DEF Dispatch, TypeOK
<1>2. [e EXCEPT !.events = {"OUT"}] \in [item : Conns \cup {Listen}, events : SUBSET {"IN", "OUT"}]
  BY <1>1
<1> QED BY <1>2 DEF Dispatch, TypeOK

\* Each action keeps the types.
LEMMA ClientType ==
  ASSUME TypeOK, NEW c \in Conns,
         \/ Connect(c) \/ SendFrame(c) \/ CloseConnection(c)
         \/ Deliver(c) \/ DeliverEnd(c) \/ ResetConnection(c)
  PROVE  TypeOK'
<1> USE DEF TypeOK, clientVars, socketVars, epollVars, itemVars
<1>1. CASE Connect(c)
  BY <1>1, MessageType DEF Connect
<1>2. CASE SendFrame(c)
  <2>1. sent[c] + 1 \in 1 .. MaxFrames
    BY <1>2, FramesAssumption DEF SendFrame
  <2>2. wire[c] \o Frame(sent[c] + 1) \in Seq(Part)
    BY <2>1, MessageType, ConcatProperties
  <2> QED BY <1>2, <2>1, <2>2 DEF SendFrame
<1>3. CASE CloseConnection(c)
  BY <1>3 DEF CloseConnection
<1>4. CASE Deliver(c)
  <2>1. PICK n \in 1 .. Len(wire[c]) :
          /\ inq' = [inq EXCEPT ![c] = @ \o SubSeq(wire[c], 1, n)]
          /\ wire' = [wire EXCEPT ![c] = SubSeq(@, n + 1, Len(@))]
    BY <1>4 DEF Deliver
  <2>2. Len(wire[c]) \in Nat
    OBVIOUS
  <2>3. SubSeq(wire[c], 1, n) \in Seq(Part) /\ SubSeq(wire[c], n + 1, Len(wire[c])) \in Seq(Part)
    BY <2>2, PieceType
  <2>4. inq[c] \o SubSeq(wire[c], 1, n) \in Seq(Part)
    BY <2>3, ConcatProperties
  <2> QED BY <1>4, <2>1, <2>3, <2>4 DEF Deliver, Arrival
<1>5. CASE DeliverEnd(c)
  BY <1>5 DEF DeliverEnd, Arrival
<1>6. CASE ResetConnection(c)
  BY <1>6, EmptySeq DEF ResetConnection, Arrival
<1> QED BY <1>1, <1>2, <1>3, <1>4, <1>5, <1>6

LEMMA WaitType == TypeOK /\ Wait => TypeOK'
<1> SUFFICES ASSUME TypeOK, Wait PROVE TypeOK'
  OBVIOUS
<1> USE DEF TypeOK, clientVars, socketVars, itemVars
<1>1. PICK some \in SUBSET Ready :
        /\ batch' = {[item |-> i, events |-> IF i = Listen THEN {"IN"} ELSE Poll(i)] : i \in some}
        /\ edge' = [c \in Conns |-> edge[c] /\ c \notin some]
  BY DEF Wait
<1>2. \A i \in Ready : i \in Conns \cup {Listen}
  BY DEF Ready
<1>3. \A i \in Conns : Poll(i) \subseteq {"IN", "OUT"}
  BY DEF Poll
<1>4. batch' \subseteq [item : Conns \cup {Listen}, events : SUBSET {"IN", "OUT"}]
  BY <1>1, <1>2, <1>3
<1>5. edge' \in [Conns -> BOOLEAN]
  BY <1>1
<1> QED BY <1>4, <1>5 DEF Wait

\* Reply keeps the types of what it changes.
LEMMA ReplyType ==
  ASSUME TypeOK, NEW c \in Conns, NEW answer \in Answers, Reply(c, answer)
  PROVE  /\ recvbuffer' \in [Conns -> Seq(Buffered)] /\ sendbuffer' \in [Conns -> Seq(Answers)]
         /\ callback' \in [Conns -> {"none", "recv_cb", "send_cb"}]
         /\ status' \in [Conns -> {"none", "WS_HANDSHARK", "WS_DATATRANSFORM"}]
         /\ watch' \in [Conns -> {"none", "IN", "OUT"}] /\ edge' \in [Conns -> BOOLEAN]
<1>1. watch' \in [Conns -> {"none", "IN", "OUT"}] /\ edge' \in [Conns -> BOOLEAN]
  BY WatchType DEF Reply
<1>2. <<>> \in Seq(Buffered) /\ <<answer>> \in Seq(Answers)
  OBVIOUS
<1> QED BY <1>1, <1>2 DEF Reply, TypeOK

LEMMA CallbackType ==
  ASSUME TypeOK, NEW e \in batch,
         AcceptCb(e) \/ RecvCb(e) \/ SendCb(e) \/ AcceptNoMemory(e) \/ RecvOverrun(e)
  PROVE  TypeOK'
<1> USE DEF clientVars, socketVars, epollVars, itemVars
<1>1. CASE AcceptCb(e)
  <2>1. batch' \subseteq [item : Conns \cup {Listen}, events : SUBSET {"IN", "OUT"}]
    BY <1>1, DispatchType DEF AcceptCb
  <2>2. CASE UNCHANGED <<backlog, epollVars, itemVars>>
    BY <1>1, <2>1, <2>2 DEF AcceptCb, TypeOK
  <2>3. ASSUME NEW c \in backlog,
               /\ backlog' = backlog \ {c}
               /\ item' = [item EXCEPT ![c] = "live"]
               /\ callback' = [callback EXCEPT ![c] = "recv_cb"]
               /\ status' = [status EXCEPT ![c] = "WS_HANDSHARK"]
               /\ \E old \in Leftovers : recvbuffer' = [recvbuffer EXCEPT ![c] = old]
               /\ Watch(c, "IN")
               /\ UNCHANGED sendbuffer
        PROVE  TypeOK'
    <3>1. c \in Conns
      BY DEF TypeOK
    <3>2. watch' \in [Conns -> {"none", "IN", "OUT"}] /\ edge' \in [Conns -> BOOLEAN]
      BY <2>3, <3>1, WatchType
    <3>3. recvbuffer' \in [Conns -> Seq(Buffered)]
      BY <2>3, BufferType DEF TypeOK
    <3> QED BY <1>1, <2>1, <2>3, <3>2, <3>3 DEF AcceptCb, TypeOK
  <2> QED BY <1>1, <2>2, <2>3 DEF AcceptCb
<1>2. CASE RecvCb(e)
  <2> DEFINE c == e.item
  <2>1. batch' \subseteq [item : Conns \cup {Listen}, events : SUBSET {"IN", "OUT"}] /\ c \in Conns
    BY <1>2, DispatchType DEF RecvCb, TypeOK
  <2>2. CASE RecvData(c)
    <3> DEFINE n == Count(c)
               buf == Received(c)
    <3>1. buf \in Seq(Buffered) /\ SubSeq(inq[c], n + 1, Len(inq[c])) \in Seq(Part)
      BY <2>1, <2>2, RecvType DEF RecvData, TypeOK, Received, Count
    <3>2. inq' \in [Conns -> Seq(Part)] /\ UNCHANGED item
      BY <2>1, <2>2, <3>1 DEF RecvData, TypeOK
    <3>3. Accept(c, buf) \in Answers /\ Echo(buf) \in Answers
      BY <3>1, AnswerType
    <3>4. CASE Reply(c, Accept(c, buf)) \/ Reply(c, Echo(buf))
      <4>1. /\ recvbuffer' \in [Conns -> Seq(Buffered)] /\ sendbuffer' \in [Conns -> Seq(Answers)]
            /\ callback' \in [Conns -> {"none", "recv_cb", "send_cb"}]
            /\ status' \in [Conns -> {"none", "WS_HANDSHARK", "WS_DATATRANSFORM"}]
            /\ watch' \in [Conns -> {"none", "IN", "OUT"}] /\ edge' \in [Conns -> BOOLEAN]
        BY <2>1, <3>3, <3>4, ReplyType
      <4> QED BY <1>2, <2>1, <3>2, <4>1 DEF RecvCb, TypeOK
    <3>5. CASE /\ recvbuffer' = [recvbuffer EXCEPT ![c] = buf]
               /\ UNCHANGED <<callback, status, sendbuffer, epollVars>>
      BY <1>2, <2>1, <3>1, <3>2, <3>5 DEF RecvCb, TypeOK
    <3> QED BY <2>2, <3>4, <3>5 DEF RecvData
  <2>3. CASE RecvEnd(c)
    BY <1>2, <2>1, <2>3 DEF RecvCb, RecvEnd, TypeOK
  <2> QED BY <1>2, <2>2, <2>3 DEF RecvCb
<1>3. CASE SendCb(e)
  <2> DEFINE c == e.item
  <2>1. batch' \subseteq [item : Conns \cup {Listen}, events : SUBSET {"IN", "OUT"}] /\ c \in Conns
    BY <1>3, DispatchType DEF SendCb, TypeOK
  <2>2. watch' \in [Conns -> {"none", "IN", "OUT"}] /\ edge' \in [Conns -> BOOLEAN]
    BY <1>3, <2>1, WatchType DEF SendCb
  <2>3. (IF sendbuffer[c] = <<>> THEN Junk ELSE Head(sendbuffer[c])) \in Answers
    BY <2>1, HeadTailProperties, FramesAssumption DEF TypeOK, Answers, Junk
  <2>4. answers' \in [Conns -> Seq(Answers)]
    <3> DEFINE more == Append(answers[c], IF sendbuffer[c] = <<>> THEN Junk
                                          ELSE Head(sendbuffer[c]))
    <3>1. more \in Seq(Answers) /\ answers \in [Conns -> Seq(Answers)]
      BY <2>1, <2>3, AppendProperties DEF TypeOK
    <3>2. answers' = answers \/ answers' = [answers EXCEPT ![c] = more]
      BY <1>3 DEF SendCb
    <3> HIDE DEF more
    <3> QED BY <2>1, <3>1, <3>2
  <2>5. alive' \in BOOLEAN /\ err' \in [Conns -> BOOLEAN]
    BY <1>3 DEF SendCb, TypeOK
  <2> QED BY <1>3, <2>1, <2>2, <2>4, <2>5, EmptySeq DEF SendCb, TypeOK
<1>4. CASE AcceptNoMemory(e) \/ RecvOverrun(e)
  <2>1. /\ alive' = FALSE
        /\ UNCHANGED <<clientVars, answers, backlog, socketVars, epollVars, itemVars, batch>>
    BY <1>4 DEF AcceptNoMemory, RecvOverrun, Dies
  <2> QED BY <2>1 DEF TypeOK
<1> QED BY <1>1, <1>2, <1>3, <1>4

LEMMA NextType == TypeOK /\ [Next]_vars => TypeOK'
<1> SUFFICES ASSUME TypeOK, [Next]_vars PROVE TypeOK'
  OBVIOUS
<1>1. CASE ServerStep
  BY <1>1, WaitType, CallbackType DEF ServerStep
<1>2. CASE \E c \in Conns : \/ NetworkStep(c) \/ Connect(c) \/ SendFrame(c)
                            \/ CloseConnection(c) \/ ResetConnection(c)
  BY <1>2, ClientType DEF NetworkStep
<1>3. CASE UNCHANGED vars
  BY <1>3 DEF TypeOK, vars, clientVars, socketVars, epollVars, itemVars
<1> QED BY <1>1, <1>2, <1>3 DEF Next

-----------------------------------------------------------------------------
(* The loop *)

\* After the callback of an item no event for it is left, and no other is
\* touched.
LEMMA DispatchOne ==
  ASSUME IInv, NEW e, Dispatch(e), e.item = Listen \/ e.item \in Conns
  PROVE  /\ batch' \subseteq batch
         /\ \A f \in batch : f.item # e.item => f \in batch'
         /\ \A f \in batch' : f.item # e.item
<1> USE DEF IInv, LoopInv
<1>1. e \in batch /\ e.events # {"IN", "OUT"}
  <2>1. "IN" # "OUT"
    OBVIOUS
  <2>2. e \in batch /\ (e.item = Listen => e.events = {"IN"})
    BY DEF Dispatch, ListenInv
  <2>3. e.item # Listen => \E w \in {"none", "IN", "OUT"} : e.events = {w}
    BY <2>2 DEF BatchLive, TypeOK
  <2> QED BY <2>1, <2>2, <2>3
<1>2. batch' = batch \ {e}
  BY <1>1 DEF Dispatch
<1>3. ASSUME NEW f \in batch, f.item = e.item PROVE f = e
  <2>1. f.events = e.events
    BY <1>1, <1>3 DEF ListenInv, BatchLive
  <2> DEFINE Events == [item : Conns \cup {Listen}, events : SUBSET {"IN", "OUT"}]
  <2>2. f \in Events /\ e \in Events
    BY <1>1, <1>3 DEF TypeOK
  <2>3. f = [item |-> f.item, events |-> f.events] /\ e = [item |-> e.item, events |-> e.events]
    BY <2>2
  <2> QED BY <1>3, <2>1, <2>3
<1> QED BY <1>2, <1>3

\* What clients and the network do leaves the loop's invariant alone: they
\* can only add to what there is to read, and that wakes epoll.
LEMMA ArrivalStep ==
  ASSUME IInv, NEW c \in Conns, Arrival(c),
         UNCHANGED <<watch, itemVars, batch, backlog>>,
         \A d \in Conns \ {c} : Readable(d)' = Readable(d),
         \A d \in Conns : client'[d] = "idle" => client[d] = "idle"
  PROVE  LoopInv'
<1> USE DEF IInv, LoopInv, itemVars
<1>1. /\ \A d \in Conns : edge[d] => edge'[d]
      /\ \A d \in Conns : edge'[d] => edge[d] \/ watch[d] = "IN"
      /\ watch[c] = "IN" => edge'[c]
  BY DEF Arrival, TypeOK
<1>2. ItemInv'
  BY <1>1 DEF ItemInv
<1>3. CallbackMatches' /\ BatchLive' /\ ListenInv'
  BY DEF CallbackMatches, BatchLive, ListenInv
<1>4. AnswerComing'
  BY <1>1 DEF AnswerComing
<1>5. ReadNotMissed'
  <2> SUFFICES ASSUME NEW d \in Conns,
                      item[d] = "live", status[d] = "WS_DATATRANSFORM", Readable(d)'
               PROVE  edge'[d] \/ \E e \in batch : e.item = d
    BY DEF ReadNotMissed
  <2>1. CASE watch[d] = "OUT"
    BY <1>1, <2>1 DEF AnswerComing
  <2>2. CASE watch[d] = "IN" /\ d = c
    BY <1>1, <2>2
  <2>3. CASE d # c
    BY <1>1, <2>3 DEF ReadNotMissed
  <2> QED BY <2>1, <2>2, <2>3 DEF CallbackMatches
<1> QED BY <1>2, <1>3, <1>4, <1>5

LEMMA ClientStep ==
  ASSUME IInv, NEW c \in Conns,
         \/ Connect(c) \/ SendFrame(c) \/ CloseConnection(c)
         \/ Deliver(c) \/ DeliverEnd(c) \/ ResetConnection(c)
  PROVE  LoopInv'
<1> USE DEF IInv, clientVars, socketVars, epollVars, itemVars
<1>1. CASE Connect(c)
  <2>1. ItemInv'
    BY <1>1 DEF Connect, LoopInv, ItemInv, TypeOK
  <2> QED BY <1>1, <2>1 DEF Connect, LoopInv, CallbackMatches, BatchLive, ReadNotMissed,
                           AnswerComing, ListenInv, Readable
<1>2. CASE SendFrame(c)
  BY <1>2 DEF SendFrame, LoopInv, ItemInv, CallbackMatches, BatchLive, ReadNotMissed,
              AnswerComing, ListenInv, Readable
<1>3. CASE CloseConnection(c)
  <2>1. ItemInv'
    BY <1>3 DEF CloseConnection, LoopInv, ItemInv, TypeOK
  <2> QED BY <1>3, <2>1 DEF CloseConnection, LoopInv, CallbackMatches, BatchLive,
                           ReadNotMissed, AnswerComing, ListenInv, Readable
<1>4. CASE Deliver(c)
  <2>1. \A d \in Conns \ {c} : inq'[d] = inq[d]
    BY <1>4 DEF Deliver, TypeOK
  <2>2. \A d \in Conns \ {c} : Readable(d)' = Readable(d)
    BY <1>4, <2>1 DEF Deliver, Readable
  <2> QED BY <1>4, <2>2, ArrivalStep DEF Deliver
<1>5. CASE DeliverEnd(c)
  <2>1. \A d \in Conns \ {c} : Readable(d)' = Readable(d)
    BY <1>5 DEF DeliverEnd, Readable, TypeOK
  <2> QED BY <1>5, <2>1, ArrivalStep DEF DeliverEnd
<1>6. CASE ResetConnection(c)
  <2>1. \A d \in Conns \ {c} : Readable(d)' = Readable(d)
    BY <1>6 DEF ResetConnection, Readable, TypeOK
  <2>2. \A d \in Conns : client'[d] = "idle" => client[d] = "idle"
    BY <1>6 DEF ResetConnection, TypeOK
  <2> QED BY <1>6, <2>1, <2>2, ArrivalStep DEF ResetConnection
<1> QED BY <1>1, <1>2, <1>3, <1>4, <1>5, <1>6

\* epoll_wait moves what was ready into the events.
LEMMA WaitStep == IInv /\ Wait => LoopInv'
<1> SUFFICES ASSUME IInv, Wait PROVE LoopInv'
  OBVIOUS
<1> USE DEF IInv, clientVars, socketVars, itemVars
<1>1. PICK some \in SUBSET Ready :
        /\ batch' = {[item |-> i, events |-> IF i = Listen THEN {"IN"} ELSE Poll(i)] : i \in some}
        /\ edge' = [c \in Conns |-> edge[c] /\ c \notin some]
  BY DEF Wait
<1>2. \A c \in Conns : edge[c] => edge'[c] \/ \E e \in batch' : e.item = c
  <2> SUFFICES ASSUME NEW c \in Conns, edge[c], c \in some
               PROVE  \E e \in batch' : e.item = c
    BY <1>1
  <2> DEFINE e == [item |-> c, events |-> IF c = Listen THEN {"IN"} ELSE Poll(c)]
  <2>1. e \in batch' /\ e.item = c
    BY <1>1
  <2> HIDE DEF e
  <2> QED BY <2>1
<1>3. \A c \in Conns : edge'[c] => edge[c]
  BY <1>1
<1>4. batch = {}
  BY DEF Wait
<1>5. ItemInv'
  BY <1>3 DEF Wait, LoopInv, ItemInv
<1>6. CallbackMatches'
  BY DEF Wait, LoopInv, CallbackMatches
<1>7. BatchLive' /\ ListenInv'
  <2> SUFFICES ASSUME NEW i \in some
               PROVE  i # Listen => item[i] = "live" /\ Poll(i) = {watch[i]}
    BY <1>1 DEF Wait, BatchLive, ListenInv
  <2> SUFFICES ASSUME i # Listen PROVE item[i] = "live" /\ Poll(i) = {watch[i]}
    OBVIOUS
  <2>1. i \in Conns /\ edge[i] /\ Poll(i) # {}
    BY DEF Ready
  <2>2. item[i] = "live"
    BY <2>1 DEF LoopInv, ItemInv, TypeOK
  <2> QED BY <2>1, <2>2 DEF Poll
<1>8. ReadNotMissed' /\ AnswerComing'
  BY <1>2, <1>4 DEF Wait, LoopInv, ReadNotMissed, AnswerComing, Readable
<1> QED BY <1>5, <1>6, <1>7, <1>8 DEF LoopInv

\* The invariant, connection by connection.
ConnInv(c) ==
  /\ item[c] = "none" => watch[c] = "none" /\ ~edge[c] /\ sendbuffer[c] = <<>>
  /\ item[c] = "freed" => watch[c] = "none" /\ ~edge[c]
  /\ c \in backlog => item[c] = "none" /\ client[c] # "idle"
  /\ client[c] = "idle" => item[c] = "none"
  /\ item[c] = "live" =>
       /\ \/ callback[c] = "recv_cb" /\ watch[c] = "IN" /\ sendbuffer[c] = <<>>
          \/ callback[c] = "send_cb" /\ watch[c] = "OUT" /\ Len(sendbuffer[c]) = 1
       /\ \/ watch[c] = "OUT"
          \/ status[c] = "WS_DATATRANSFORM" /\ Readable(c)
          => edge[c] \/ \E e \in batch : e.item = c
  /\ \A e \in batch : e.item = c => item[c] = "live" /\ e.events = {watch[c]}

AllConn == ListenInv /\ \A c \in Conns : ConnInv(c)

LEMMA LoopInvConn == TypeOK => (LoopInv <=> AllConn)
<1> SUFFICES ASSUME TypeOK PROVE LoopInv <=> AllConn
  OBVIOUS
<1>1. \A e \in batch : e.item # Listen <=> e.item \in Conns
  BY ListenAssumption DEF TypeOK
<1>2. BatchLive <=> \A c \in Conns : \A e \in batch :
        e.item = c => item[c] = "live" /\ e.events = {watch[c]}
  BY <1>1 DEF BatchLive
<1> QED BY <1>2 DEF AllConn, LoopInv, ConnInv, ItemInv, CallbackMatches, ReadNotMissed, AnswerComing

LEMMA LoopInvConnNext == TypeOK' => (LoopInv' <=> AllConn')
BY LoopInvConn, PTL

\* A callback of one item keeps the invariant of the others.
LEMMA OthersKept ==
  ASSUME IInv, TypeOK', NEW e, Dispatch(e), NEW c \in Conns, e.item \in {Listen, c},
         UNCHANGED client, backlog' \subseteq backlog,
         \A d \in Conns \ {c} :
           /\ item'[d] = item[d] /\ callback'[d] = callback[d] /\ status'[d] = status[d]
           /\ watch'[d] = watch[d] /\ edge'[d] = edge[d] /\ sendbuffer'[d] = sendbuffer[d]
           /\ Readable(d)' = Readable(d),
         ConnInv(c)'
  PROVE  LoopInv'
<1>1. /\ batch' \subseteq batch
      /\ \A f \in batch : f.item # e.item => f \in batch'
  BY DispatchOne
<1>2. ListenInv /\ \A d \in Conns : ConnInv(d)
  BY LoopInvConn DEF IInv, AllConn
<1>3. ListenInv'
  BY <1>1, <1>2 DEF ListenInv
<1>4. ASSUME NEW d \in Conns \ {c} PROVE ConnInv(d)'
  <2>1. d # e.item
    BY ListenAssumption
  <2>2. (\E f \in batch : f.item = d) => \E f \in batch' : f.item = d
    BY <1>1, <2>1
  <2>3. ConnInv(d)
    BY <1>2
  <2> QED BY <1>1, <2>2, <2>3 DEF ConnInv
<1> QED BY <1>3, <1>4, LoopInvConnNext DEF AllConn

\* The callback of a live item: it is watched as its callback says.
LEMMA LiveItem ==
  ASSUME IInv, NEW c \in Conns, item[c] = "live"
  PROVE  /\ callback[c] = "recv_cb" => watch[c] = "IN" /\ sendbuffer[c] = <<>>
         /\ c \notin backlog /\ client[c] # "idle"
BY DEF IInv, LoopInv, ItemInv, CallbackMatches

LEMMA AcceptStep ==
  ASSUME IInv, TypeOK', NEW e \in batch, AcceptCb(e)
  PROVE  LoopInv'
<1> USE DEF clientVars, socketVars, epollVars, itemVars
<1>1. CASE UNCHANGED <<backlog, epollVars, itemVars>>
  <2>1. Dispatch(e) /\ e.item = Listen /\ UNCHANGED <<client, socketVars>>
    BY DEF AcceptCb
  <2>2. /\ batch' \subseteq batch
        /\ \A f \in batch : f.item # Listen => f \in batch'
    BY <2>1, DispatchOne
  <2>3. \A c \in Conns : (\E f \in batch : f.item = c) => \E f \in batch' : f.item = c
    BY <2>2, ListenAssumption
  <2> QED BY <1>1, <2>1, <2>2, <2>3 DEF IInv, LoopInv, ItemInv, CallbackMatches, BatchLive,
                                   ReadNotMissed, AnswerComing, ListenInv, Readable
<1>2. ASSUME NEW c \in backlog,
             /\ backlog' = backlog \ {c}
             /\ item' = [item EXCEPT ![c] = "live"]
             /\ callback' = [callback EXCEPT ![c] = "recv_cb"]
             /\ status' = [status EXCEPT ![c] = "WS_HANDSHARK"]
             /\ Watch(c, "IN")
             /\ UNCHANGED sendbuffer
      PROVE  LoopInv'
  <2>1. c \in Conns /\ item[c] = "none" /\ client[c] # "idle" /\ sendbuffer[c] = <<>>
    BY DEF IInv, LoopInv, TypeOK, ItemInv
  <2>2. /\ Dispatch(e) /\ e.item = Listen
        /\ UNCHANGED <<client, socketVars>>
    BY DEF AcceptCb
  <2>3. /\ watch' = [watch EXCEPT ![c] = "IN"]
        /\ \A d \in Conns \ {c} : edge'[d] = edge[d]
    BY <1>2, <2>1, WatchType DEF IInv
  <2>4. \A f \in batch : f.item # c
    BY <2>1, ListenAssumption DEF IInv, LoopInv, BatchLive
  <2>5. batch' \subseteq batch
    BY <2>2, DispatchOne
  <2>6. ConnInv(c)'
    BY <1>2, <2>1, <2>2, <2>3, <2>4, <2>5 DEF ConnInv, IInv, TypeOK
  <2>7. \A d \in Conns : Readable(d)' = Readable(d)
    BY <2>2 DEF Readable
  <2> QED BY <1>2, <2>1, <2>2, <2>3, <2>6, <2>7, OthersKept DEF IInv, TypeOK
<1> QED BY <1>1, <1>2 DEF AcceptCb

\* An answer is ready: send_cb is to be called, and will be.
LEMMA ReplyStep ==
  ASSUME IInv, TypeOK', NEW e, Dispatch(e), e.item \in Conns, item[e.item] = "live",
         NEW answer \in Answers, Reply(e.item, answer),
         UNCHANGED <<client, backlog, item>>,
         \A d \in Conns \ {e.item} : Readable(d)' = Readable(d)
  PROVE  LoopInv'
<1> DEFINE c == e.item
<1>1. /\ watch' = [watch EXCEPT ![c] = "OUT"] /\ edge'[c]
      /\ \A d \in Conns \ {c} : edge'[d] = edge[d]
  BY WatchType DEF Reply, IInv
<1>2. \A f \in batch' : f.item # c
  BY DispatchOne
<1>3. c \notin backlog /\ client[c] # "idle"
  BY LiveItem
<1>4. callback'[c] = "send_cb" /\ Len(sendbuffer'[c]) = 1
  BY DEF Reply, IInv, TypeOK
<1>5. ConnInv(c)'
  BY <1>1, <1>2, <1>3, <1>4 DEF ConnInv, IInv, TypeOK
<1>6. \A d \in Conns \ {c} :
        /\ item'[d] = item[d] /\ callback'[d] = callback[d] /\ status'[d] = status[d]
        /\ watch'[d] = watch[d] /\ edge'[d] = edge[d] /\ sendbuffer'[d] = sendbuffer[d]
  BY <1>1 DEF Reply, IInv, TypeOK
<1> QED BY <1>5, <1>6, OthersKept

LEMMA RecvStep ==
  ASSUME IInv, TypeOK', NEW e \in batch, RecvCb(e)
  PROVE  LoopInv'
<1> DEFINE c == e.item
<1> USE DEF clientVars, epollVars, itemVars
<1>1. /\ c \in Conns /\ item[c] = "live" /\ callback[c] = "recv_cb" /\ Dispatch(e)
      /\ UNCHANGED <<client, backlog, fin, rst>>
  BY DEF RecvCb, IInv, TypeOK
<1>2. watch[c] = "IN" /\ sendbuffer[c] = <<>> /\ c \notin backlog /\ client[c] # "idle"
  BY <1>1, LiveItem
<1>3. \A f \in batch' : f.item # c
  BY <1>1, DispatchOne
<1>4. CASE RecvData(c)
  <2> DEFINE n == Count(c)
             buf == Received(c)
  <2>1. \A d \in Conns \ {c} : Readable(d)' = Readable(d)
    <3>1. inq' = [inq EXCEPT ![c] = SubSeq(@, n + 1, Len(@))]
      BY <1>4 DEF RecvData
    <3> HIDE DEF n
    <3>2. \A d \in Conns \ {c} : inq'[d] = inq[d]
      BY <3>1 DEF IInv, TypeOK
    <3> QED BY <1>1, <3>2 DEF Readable
  <2>2. buf \in Seq(Buffered)
    BY <1>1, <1>4, RecvType DEF RecvData, IInv, TypeOK, Received, Count
  <2>3. UNCHANGED item
    BY <1>4 DEF RecvData
  <2>4. ASSUME NEW answer \in Answers, Reply(c, answer) PROVE LoopInv'
    BY <1>1, <2>1, <2>3, <2>4, ReplyStep
  <2>5. CASE Reply(c, Accept(c, buf)) \/ Reply(c, Echo(buf))
    BY <2>2, <2>4, <2>5, AnswerType
  <2>6. CASE /\ status[c] = "WS_HANDSHARK"
             /\ UNCHANGED <<callback, status, sendbuffer, epollVars>>
    <3>1. ConnInv(c)'
      BY <1>1, <1>2, <1>3, <2>3, <2>6 DEF ConnInv
    <3> QED BY <1>1, <2>1, <2>3, <2>6, <3>1, OthersKept
  <2> QED BY <1>4, <2>5, <2>6 DEF RecvData
<1>5. CASE RecvEnd(c)
  <2>1. \A d \in Conns : Readable(d)' = Readable(d)
    BY <1>1, <1>5 DEF RecvEnd, Readable
  <2>2. item'[c] = "freed" /\ watch'[c] = "none" /\ ~edge'[c]
    BY <1>1, <1>5 DEF RecvEnd, IInv, TypeOK
  <2>3. ConnInv(c)'
    BY <1>1, <1>2, <1>3, <2>2 DEF ConnInv
  <2> QED BY <1>1, <1>5, <2>1, <2>3, OthersKept DEF RecvEnd, IInv, TypeOK
<1> QED BY <1>4, <1>5 DEF RecvCb

LEMMA SendStep ==
  ASSUME IInv, TypeOK', NEW e \in batch, SendCb(e)
  PROVE  LoopInv'
<1> DEFINE c == e.item
<1> USE DEF clientVars, socketVars
<1>1. /\ c \in Conns /\ item[c] = "live" /\ Dispatch(e)
      /\ UNCHANGED <<client, backlog, inq, fin, rst, item, status>>
  BY DEF SendCb, IInv, TypeOK
<1>2. c \notin backlog /\ client[c] # "idle"
  BY <1>1, LiveItem
<1>3. \A f \in batch' : f.item # c
  BY <1>1, DispatchOne
<1>4. /\ watch' = [watch EXCEPT ![c] = "IN"] /\ (edge'[c] <=> Readable(c))
      /\ \A d \in Conns \ {c} : edge'[d] = edge[d]
  BY <1>1, WatchType DEF SendCb, IInv
<1>5. /\ callback'[c] = "recv_cb" /\ sendbuffer'[c] = <<>>
      /\ \A d \in Conns \ {c} : callback'[d] = callback[d] /\ sendbuffer'[d] = sendbuffer[d]
  BY <1>1 DEF SendCb, IInv, TypeOK
<1>6. \A d \in Conns : Readable(d)' = Readable(d)
  BY <1>1 DEF Readable
<1>7. ConnInv(c)'
  BY <1>1, <1>2, <1>3, <1>4, <1>5, <1>6 DEF ConnInv, IInv, TypeOK
<1>8. \A d \in Conns \ {c} : watch'[d] = watch[d]
  BY <1>4 DEF IInv, TypeOK
<1> QED BY <1>1, <1>4, <1>5, <1>6, <1>7, <1>8, OthersKept

\* The process ends: nothing else changes.
LEMMA DeathChangesNothing ==
  ASSUME NEW e, AcceptNoMemory(e) \/ RecvOverrun(e)
  PROVE  UNCHANGED <<clientVars, answers, backlog, socketVars, epollVars, itemVars, batch>>
BY DEF AcceptNoMemory, RecvOverrun, Dies

LEMMA DeathStep ==
  ASSUME IInv, NEW e, AcceptNoMemory(e) \/ RecvOverrun(e)
  PROVE  LoopInv'
BY DeathChangesNothing
DEF IInv, LoopInv, ItemInv, CallbackMatches, BatchLive, ReadNotMissed, AnswerComing, ListenInv,
    Readable, clientVars, socketVars, epollVars, itemVars

LEMMA NextIInv == IInv /\ [Next]_vars => IInv'
<1> SUFFICES ASSUME IInv, [Next]_vars PROVE IInv'
  OBVIOUS
<1>1. TypeOK'
  BY NextType DEF IInv
<1>2. CASE ServerStep
  BY <1>1, <1>2, WaitStep, AcceptStep, RecvStep, SendStep, DeathStep DEF ServerStep, IInv
<1>3. CASE \E c \in Conns : \/ NetworkStep(c) \/ Connect(c) \/ SendFrame(c)
                            \/ CloseConnection(c) \/ ResetConnection(c)
  BY <1>1, <1>3, ClientStep DEF NetworkStep, IInv
<1>4. CASE UNCHANGED vars
  BY <1>1, <1>4 DEF IInv, LoopInv, ItemInv, CallbackMatches, BatchLive, ReadNotMissed,
                    AnswerComing, ListenInv, Readable, vars, clientVars, socketVars,
                    epollVars, itemVars
<1> QED BY <1>2, <1>3, <1>4 DEF Next

\* IInv is an invariant of the server.
THEOREM Invariance == Spec => []IInv
BY InitIInv, NextIInv, PTL DEF Spec

\* Types, for any number of connections, frames, and any buffer.
THEOREM TypeCorrect == Spec => []TypeOK
BY Invariance, PTL DEF IInv

\* The callback and the event that epoll watches for agree at all times.
THEOREM CallbackMatchesHolds == Spec => []CallbackMatches
BY Invariance, PTL DEF IInv, LoopInv

\* The loop calls no callback of a freed item, and each for its own event.
THEOREM BatchLiveHolds == Spec => []BatchLive
BY Invariance, PTL DEF IInv, LoopInv

\* What an established connection has to read is announced.
THEOREM ReadNotMissedHolds == Spec => []ReadNotMissed
BY Invariance, PTL DEF IInv, LoopInv

-----------------------------------------------------------------------------
(* The handshake *)

\* Until the handshake is over nothing is answered; then the first thing to
\* be sent, and nothing after it, is an answer to the request. A connection
\* that has been reset is sent nothing any more.
HandInv(c) ==
  /\ item[c] = "none" => answers[c] = <<>>
  /\ (item[c] = "live" /\ status[c] # "WS_DATATRANSFORM") =>
       callback[c] = "recv_cb" /\ answers[c] = <<>>
  /\ (item[c] = "live" /\ status[c] = "WS_DATATRANSFORM" /\ ~rst[c]) =>
       IF callback[c] = "send_cb"
       THEN sendbuffer[c][1] \in {Switching, WrongKey} <=> answers[c] = <<>>
       ELSE answers[c] # <<>>
  /\ \A i \in 1 .. Len(answers[c]) : answers[c][i] \in {Switching, WrongKey} <=> i = 1

AllHand == \A c \in Conns : HandInv(c)

LEMMA InitHand == Init => AllHand
BY DEF Init, AllHand, HandInv

\* A step that leaves the item and the answers of a connection alone.
LEMMA HandKept ==
  ASSUME NEW c \in Conns, HandInv(c), rst[c] => rst'[c],
         item'[c] = item[c], answers'[c] = answers[c], status'[c] = status[c],
         callback'[c] = callback[c], sendbuffer'[c] = sendbuffer[c]
  PROVE  HandInv(c)'
BY DEF HandInv

\* Clients, network and epoll_wait.
LEMMA HandOutside ==
  ASSUME TypeOK, AllHand,
         \/ Wait
         \/ \E d \in Conns : \/ NetworkStep(d) \/ Connect(d) \/ SendFrame(d)
                             \/ CloseConnection(d) \/ ResetConnection(d)
  PROVE  AllHand'
<1>1. UNCHANGED <<item, answers, status, callback, sendbuffer>>
  BY DEF Wait, NetworkStep, Deliver, DeliverEnd, Connect, SendFrame, CloseConnection,
         ResetConnection, itemVars
<1>2. rst' = rst \/ \E d \in Conns : rst' = [rst EXCEPT ![d] = TRUE]
  BY DEF Wait, NetworkStep, Deliver, DeliverEnd, Connect, SendFrame, CloseConnection,
         ResetConnection, socketVars
<1>3. ASSUME NEW c \in Conns PROVE rst[c] => rst'[c]
  BY <1>2 DEF TypeOK
<1> QED BY <1>1, <1>3, HandKept DEF AllHand

\* accept_cb starts a handshake.
LEMMA HandAccept ==
  ASSUME IInv, AllHand, NEW e \in batch, AcceptCb(e)
  PROVE  AllHand'
<1> USE DEF itemVars, socketVars
<1>1. UNCHANGED <<answers, rst>>
  BY DEF AcceptCb
<1>2. CASE UNCHANGED itemVars
  BY <1>1, <1>2, HandKept DEF AllHand
<1>3. ASSUME NEW d \in backlog,
             /\ item' = [item EXCEPT ![d] = "live"]
             /\ callback' = [callback EXCEPT ![d] = "recv_cb"]
             /\ status' = [status EXCEPT ![d] = "WS_HANDSHARK"]
             /\ UNCHANGED sendbuffer,
             NEW c \in Conns
      PROVE  HandInv(c)'
  <2>1. d \in Conns /\ item[d] = "none"
    BY DEF IInv, LoopInv, ItemInv, TypeOK
  <2>2. CASE c # d
    BY <1>1, <1>3, <2>2, HandKept DEF AllHand, IInv, TypeOK
  <2>3. CASE c = d
    <3>1. item'[c] = "live" /\ status'[c] = "WS_HANDSHARK" /\ callback'[c] = "recv_cb"
      BY <1>3, <2>3 DEF IInv, TypeOK
    <3>2. answers'[c] = <<>>
      BY <1>1, <2>1, <2>3 DEF AllHand, HandInv
    <3> QED BY <3>1, <3>2 DEF HandInv
  <2> QED BY <2>2, <2>3
<1> QED BY <1>2, <1>3 DEF AcceptCb, AllHand

\* recv_cb: the answer that is put in sendbuffer is one to the request as long
\* as nothing has been answered, and one to a frame after that.
LEMMA HandRecv ==
  ASSUME IInv, AllHand, NEW e \in batch, RecvCb(e)
  PROVE  AllHand'
<1> USE DEF itemVars, epollVars
<1> DEFINE d == e.item
<1>1. /\ d \in Conns /\ item[d] = "live" /\ callback[d] = "recv_cb"
      /\ UNCHANGED <<answers, rst>>
  BY DEF RecvCb, IInv, TypeOK
<1>2. ASSUME NEW answer, Reply(d, answer), UNCHANGED item,
             answer \in {Switching, WrongKey} <=> status[d] = "WS_HANDSHARK",
             status[d] \in {"WS_HANDSHARK", "WS_DATATRANSFORM"},
             NEW c \in Conns
      PROVE  HandInv(c)'
  <2>1. CASE c # d
    BY <1>1, <1>2, <2>1, HandKept DEF AllHand, IInv, TypeOK, Reply
  <2>2. CASE c = d
    <3>1. /\ item'[c] = "live" /\ status'[c] = "WS_DATATRANSFORM"
          /\ callback'[c] = "send_cb" /\ sendbuffer'[c] = <<answer>>
      BY <1>1, <1>2, <2>2 DEF Reply, IInv, TypeOK
    <3>2. sendbuffer'[c][1] = answer
      BY <3>1
    <3>3. ~rst[c] => (answer \in {Switching, WrongKey} <=> answers[c] = <<>>)
      BY <1>1, <1>2, <2>2 DEF AllHand, HandInv
    <3> QED BY <1>1, <3>1, <3>2, <3>3 DEF AllHand, HandInv
  <2> QED BY <2>1, <2>2
<1>3. CASE RecvData(d)
  <2> DEFINE buf == Received(d)
  <2>1. CASE status[d] = "WS_HANDSHARK" /\ Reply(d, Accept(d, buf)) /\ UNCHANGED item
    <3>1. Accept(d, buf) \in {Switching, WrongKey}
      BY DEF Accept
    <3> HIDE DEF buf
    <3> QED BY <1>2, <2>1, <3>1 DEF AllHand
  <2>2. CASE status[d] = "WS_DATATRANSFORM" /\ Reply(d, Echo(buf)) /\ UNCHANGED item
    <3>1. buf \in Seq(Buffered)
      BY <1>1, <1>3, RecvType DEF RecvData, IInv, TypeOK, Received, Count
    <3> HIDE DEF buf
    <3>2. Echo(buf) \notin {Switching, WrongKey}
      <4>1. CASE Echo(buf) = Junk
        BY <4>1 DEF Junk, Switching, WrongKey
      <4>2. CASE Echo(buf) = buf[1].msg /\ buf[1].msg > 0 /\ Len(buf) >= 2
        <5>1. buf[1] \in Buffered
          BY <3>1, <4>2, ElementOfSeq
        <5>2. buf[1].msg \in Int
          BY <5>1, FramesAssumption DEF Buffered, Part, Stale
        <5> QED BY <4>2, <5>2 DEF Switching, WrongKey
      <4> QED BY <4>1, <4>2 DEF Echo
    <3> QED BY <1>2, <2>2, <3>2 DEF AllHand
  <2>3. CASE UNCHANGED <<item, callback, status, sendbuffer>>
    BY <1>1, <2>3, HandKept DEF AllHand
  <2> QED BY <1>3, <2>1, <2>2, <2>3 DEF RecvData
<1>4. CASE RecvEnd(d)
  <2>1. ASSUME NEW c \in Conns PROVE HandInv(c)'
    <3>1. CASE c # d
      BY <1>1, <1>4, <3>1, HandKept DEF RecvEnd, AllHand, IInv, TypeOK
    <3>2. CASE c = d
      <4>1. item'[c] = "freed"
        BY <1>1, <1>4, <3>2 DEF RecvEnd, IInv, TypeOK
      <4> QED BY <1>1, <3>2, <4>1 DEF HandInv, AllHand
    <3> QED BY <3>1, <3>2
  <2> QED BY <2>1 DEF AllHand
<1> QED BY <1>3, <1>4 DEF RecvCb

\* The buffer holds one answer.
LEMMA OneAnswer ==
  ASSUME NEW s \in Seq(Answers), Len(s) = 1
  PROVE  s # <<>> /\ Head(s) = s[1]
<1>1. s # <<>>
  BY EmptySeq
<1>2. Head(s) = s[1]
  OBVIOUS
<1> QED BY <1>1, <1>2

\* send_cb: what is sent joins the answers, unless the connection was reset.
LEMMA HandSend ==
  ASSUME IInv, AllHand, NEW e \in batch, SendCb(e)
  PROVE  AllHand'
<1> DEFINE d == e.item
<1>1. /\ d \in Conns /\ item[d] = "live" /\ callback[d] = "send_cb"
      /\ UNCHANGED <<rst, item, status>>
      /\ callback' = [callback EXCEPT ![d] = "recv_cb"]
      /\ sendbuffer' = [sendbuffer EXCEPT ![d] = <<>>]
  BY DEF SendCb, IInv, TypeOK, socketVars
<1>2. Len(sendbuffer[d]) = 1 /\ sendbuffer[d] \in Seq(Answers)
  BY <1>1 DEF IInv, LoopInv, CallbackMatches, TypeOK
<1>3. sendbuffer[d] # <<>> /\ Head(sendbuffer[d]) = sendbuffer[d][1]
  BY <1>2, OneAnswer
<1>4. sendbuffer[d][1] \in Answers
  BY <1>2, ElementOfSeq
<1>5. status[d] = "WS_DATATRANSFORM"
  BY <1>1 DEF AllHand, HandInv
<1>6. CASE rst[d] /\ UNCHANGED answers
  <2>1. ASSUME NEW c \in Conns PROVE HandInv(c)'
    <3>1. CASE c # d
      BY <1>1, <1>6, <3>1, HandKept DEF AllHand, IInv, TypeOK
    <3>2. CASE c = d
      BY <1>1, <1>5, <1>6, <3>2 DEF AllHand, HandInv
    <3> QED BY <3>1, <3>2
  <2> QED BY <2>1 DEF AllHand
<1>7. CASE ~rst[d] /\ answers' = [answers EXCEPT ![d] = Append(@, sendbuffer[d][1])]
  <2>1. ASSUME NEW c \in Conns PROVE HandInv(c)'
    <3>1. CASE c # d
      BY <1>1, <1>7, <3>1, HandKept DEF AllHand, IInv, TypeOK
    <3>2. CASE c = d
      <4>1. answers[c] \in Seq(Answers)
        BY DEF IInv, TypeOK
      <4>2. answers'[c] = Append(answers[c], sendbuffer[c][1])
        BY <1>7, <3>2 DEF IInv, TypeOK
      <4>3. /\ Len(answers'[c]) = Len(answers[c]) + 1
            /\ \A i \in 1 .. Len(answers[c]) : answers'[c][i] = answers[c][i]
            /\ answers'[c][Len(answers[c]) + 1] = sendbuffer[c][1]
            /\ Len(answers[c]) \in Nat
        BY <1>4, <3>2, <4>1, <4>2, AppendProperties
      <4>4. /\ sendbuffer[c][1] \in {Switching, WrongKey} <=> answers[c] = <<>>
            /\ \A i \in 1 .. Len(answers[c]) :
                 answers[c][i] \in {Switching, WrongKey} <=> i = 1
        BY <1>1, <1>5, <1>7, <3>2 DEF AllHand, HandInv
      <4>5. answers[c] = <<>> <=> Len(answers[c]) = 0
        BY <4>1
      <4>6. \A i \in 1 .. Len(answers'[c]) :
              answers'[c][i] \in {Switching, WrongKey} <=> i = 1
        <5> SUFFICES ASSUME NEW i \in 1 .. Len(answers'[c])
                     PROVE  answers'[c][i] \in {Switching, WrongKey} <=> i = 1
          OBVIOUS
        <5>1. CASE i \in 1 .. Len(answers[c])
          BY <4>3, <4>4, <5>1
        <5>2. CASE i = Len(answers[c]) + 1
          <6>1. i = 1 <=> answers[c] = <<>>
            BY <4>3, <4>5, <5>2
          <6> QED BY <4>3, <4>4, <5>2, <6>1
        <5> QED BY <4>3, <5>1, <5>2
      <4>7. answers'[c] # <<>>
        BY <4>3
      <4>8. callback'[c] = "recv_cb" /\ status'[c] = "WS_DATATRANSFORM" /\ item'[c] = "live"
        BY <1>1, <1>5, <3>2 DEF IInv, TypeOK
      <4> QED BY <4>6, <4>7, <4>8 DEF HandInv
    <3> QED BY <3>1, <3>2
  <2> QED BY <2>1 DEF AllHand
<1> QED BY <1>3, <1>6, <1>7 DEF SendCb

LEMMA NextHand == IInv /\ AllHand /\ [Next]_vars => AllHand'
<1> SUFFICES ASSUME IInv, AllHand, [Next]_vars PROVE AllHand'
  OBVIOUS
<1>1. CASE UNCHANGED vars
  BY <1>1, HandKept DEF AllHand, vars, socketVars, itemVars
<1>2. ASSUME NEW e \in batch, AcceptNoMemory(e) \/ RecvOverrun(e) PROVE AllHand'
  BY <1>2, DeathChangesNothing, HandKept DEF AllHand, socketVars, itemVars
<1>3. CASE Next
  BY <1>2, <1>3, HandOutside, HandAccept, HandRecv, HandSend DEF Next, ServerStep, IInv
<1> QED BY <1>1, <1>3

\* However the request is cut, and whatever comes with it or after it: the
\* first answer is the one to the handshake, and no other is.
THEOREM HandshakeFirstHolds == Spec => []HandshakeFirst
<1>1. AllHand => HandshakeFirst
  BY DEF AllHand, HandInv, HandshakeFirst
<1> QED BY <1>1, InitHand, NextHand, Invariance, PTL DEF Spec

-----------------------------------------------------------------------------
(* Echoes in order. What a connection has still to hand over, in the queue  *)
(* of the server's socket and then on the wire, is in the order it was      *)
(* sent: its parts rise in rank. An echo, sent or ready, is of a frame all  *)
(* of whose modelled parts have left this stream, so the next echo is of a  *)
(* later frame. An established item reads with an empty recvbuffer: the     *)
(* buffer it decodes is the start of the stream.                            *)

Rank(part) == 5 * part.msg + part.no

Stream(c) == inq[c] \o wire[c]

\* The parts of stream s rise, and none is of a frame after the n-th.
Sorted(s, n) ==
  /\ \A i, j \in 1 .. Len(s) : i < j => Rank(s[i]) < Rank(s[j])
  /\ \A k \in 1 .. Len(s) : Rank(s[k]) <= 5 * n + 5

\* Frame a has been sent, and stream s has gone past it.
Past(a, s, n) ==
  a > 0 => a <= n /\ \A k \in 1 .. Len(s) : 5 * a + 2 < Rank(s[k])

EchoInv(c) ==
  /\ Sorted(Stream(c), sent[c])
  /\ \A i \in 1 .. Len(answers[c]) : Past(answers[c][i], Stream(c), sent[c])
  /\ \A j \in 1 .. Len(sendbuffer[c]) :
       /\ Past(sendbuffer[c][j], Stream(c), sent[c])
       /\ sendbuffer[c][j] > 0 =>
            \A i \in 1 .. Len(answers[c]) : answers[c][i] < sendbuffer[c][j]
  /\ \A i, j \in 1 .. Len(answers[c]) :
       i < j /\ answers[c][j] > 0 => answers[c][i] < answers[c][j]
  /\ (item[c] = "live" /\ status[c] = "WS_DATATRANSFORM") => recvbuffer[c] = <<>>
  /\ client[c] = "idle" => /\ inq[c] = <<>> /\ wire[c] = <<>> /\ sent[c] = 0
                           /\ answers[c] = <<>> /\ sendbuffer[c] = <<>>

AllEcho == \A c \in Conns : EchoInv(c)

LEMMA RankType == \A p \in Part : Rank(p) \in Int
BY FramesAssumption DEF Rank, Part

LEMMA InitEcho == Init => AllEcho
<1> SUFFICES ASSUME Init, NEW c \in Conns PROVE EchoInv(c)
  BY DEF AllEcho
<1>1. Stream(c) = <<>>
  BY DEF Init, Stream
<1> QED BY <1>1, EmptySeq DEF Init, EchoInv, Sorted, Past

\* t is what is left of s without its first n parts, and perhaps its last.
LEMMA ShiftSorted ==
  ASSUME NEW s \in Seq(Part), NEW t \in Seq(Part), NEW n \in Nat, NEW m \in Nat,
         Len(t) + n <= Len(s), \A k \in 1 .. Len(t) : t[k] = s[k + n], Sorted(s, m)
  PROVE  Sorted(t, m)
<1>1. \A k \in 1 .. Len(t) : k + n \in 1 .. Len(s) /\ t[k] = s[k + n]
  OBVIOUS
<1>2. \A i, j \in 1 .. Len(t) : i < j => i + n < j + n
  OBVIOUS
<1> QED BY <1>1, <1>2 DEF Sorted

LEMMA ShiftPast ==
  ASSUME NEW s \in Seq(Part), NEW t \in Seq(Part), NEW n \in Nat, NEW m \in Nat,
         Len(t) + n <= Len(s), \A k \in 1 .. Len(t) : t[k] = s[k + n],
         NEW a, Past(a, s, m)
  PROVE  Past(a, t, m)
<1>1. \A k \in 1 .. Len(t) : k + n \in 1 .. Len(s) /\ t[k] = s[k + n]
  OBVIOUS
<1> QED BY <1>1 DEF Past

LEMMA StreamType == ASSUME TypeOK, NEW c \in Conns PROVE Stream(c) \in Seq(Part)
BY ConcatProperties DEF TypeOK, Stream

\* A step that takes parts from the stream, at most, and leaves the answers.
LEMMA EchoKept ==
  ASSUME TypeOK, TypeOK', NEW c \in Conns, EchoInv(c), NEW n \in Nat,
         Len(Stream(c)') + n <= Len(Stream(c)),
         \A k \in 1 .. Len(Stream(c)') : Stream(c)'[k] = Stream(c)[k + n],
         UNCHANGED <<sent[c], answers[c], sendbuffer[c]>>,
         (item'[c] = "live" /\ status'[c] = "WS_DATATRANSFORM") => recvbuffer'[c] = <<>>,
         client'[c] = "idle" => client[c] = "idle" /\ UNCHANGED <<inq[c], wire[c]>>
  PROVE  EchoInv(c)'
<1> DEFINE s == Stream(c)
           t == Stream(c)'
<1>1. s \in Seq(Part) /\ t \in Seq(Part) /\ sent[c] \in Nat
  BY StreamType, FramesAssumption DEF TypeOK, Stream
<1>2. Sorted(t, sent[c])
  <2> HIDE DEF s, t
  <2> QED BY <1>1, ShiftSorted DEF EchoInv, s, t
<1>3. \A a : Past(a, s, sent[c]) => Past(a, t, sent[c])
  <2> SUFFICES ASSUME NEW a, Past(a, s, sent[c]) PROVE Past(a, t, sent[c])
    OBVIOUS
  <2>1. Len(t) + n <= Len(s) /\ \A k \in 1 .. Len(t) : t[k] = s[k + n]
    OBVIOUS
  <2> HIDE DEF s, t
  <2> QED BY <1>1, <2>1, ShiftPast
<1> QED BY <1>2, <1>3 DEF EchoInv

\* The same, when nothing of the connection's stream moves.
LEMMA EchoStays ==
  ASSUME TypeOK, TypeOK', NEW c \in Conns, EchoInv(c),
         UNCHANGED <<inq[c], wire[c], sent[c], answers[c], sendbuffer[c], recvbuffer[c]>>,
         (item'[c] = "live" /\ status'[c] = "WS_DATATRANSFORM") =>
           (item[c] = "live" /\ status[c] = "WS_DATATRANSFORM"),
         client'[c] = "idle" => client[c] = "idle"
  PROVE  EchoInv(c)'
<1>1. Stream(c)' = Stream(c)
  BY DEF Stream
<1>2. Len(Stream(c)) \in Nat
  BY StreamType, LenProperties
<1>3. \A k \in 1 .. Len(Stream(c)) : k + 0 = k
  BY <1>2
<1>4. (item'[c] = "live" /\ status'[c] = "WS_DATATRANSFORM") => recvbuffer'[c] = <<>>
  BY DEF EchoInv
<1>5. Len(Stream(c)') + 0 <= Len(Stream(c))
  BY <1>1, <1>2
<1>6. \A k \in 1 .. Len(Stream(c)') : Stream(c)'[k] = Stream(c)[k + 0]
  BY <1>1, <1>3
<1> QED BY <1>4, <1>5, <1>6, EchoKept

LEMMA JoinStream ==
  \A a, b, v \in Seq(Part) : (a \o b) \o v = a \o (b \o v)
BY ConcatAssociative

\* What is delivered moves from the wire to the queue.
LEMMA MoveStream ==
  ASSUME NEW a \in Seq(Part), NEW b \in Seq(Part), NEW n \in 1 .. Len(b)
  PROVE  (a \o SubSeq(b, 1, n)) \o SubSeq(b, n + 1, Len(b)) = a \o b
<1>1. Len(b) \in Nat
  OBVIOUS
<1>2. SubSeq(b, 1, n) \in Seq(Part) /\ SubSeq(b, n + 1, Len(b)) \in Seq(Part)
  BY <1>1, PieceType
<1>3. SubSeq(b, 1, n) \o SubSeq(b, n + 1, Len(b)) = SubSeq(b, 1, Len(b))
  <2>1. \A m \in 1 .. Len(b) + 1 : \A k \in m - 1 .. Len(b) : \A h \in k .. Len(b) :
          SubSeq(b, m, k) \o SubSeq(b, k + 1, h) = SubSeq(b, m, h)
    BY ConcatAdjacentSubSeq, Zenon
  <2>2. /\ 1 \in 1 .. Len(b) + 1 /\ n \in 1 - 1 .. Len(b) /\ Len(b) \in n .. Len(b)
    BY <1>1
  <2> QED BY <2>1, <2>2, Zenon
<1>4. \A u, v \in Seq(Part) : (a \o u) \o v = a \o (u \o v)
  BY JoinStream, Zenon
<1>5. SubSeq(b, 1, Len(b)) = b
  BY SubSeqFull
<1> DEFINE u == SubSeq(b, 1, n)
           v == SubSeq(b, n + 1, Len(b))
<1>6. u \in Seq(Part) /\ v \in Seq(Part) /\ u \o v = b
  BY <1>2, <1>3, <1>5
<1> HIDE DEF u, v
<1>7. (a \o u) \o v = a \o b
  BY <1>4, <1>6
<1> QED BY <1>7 DEF u, v

\* The queue is the start of the stream.
LEMMA StartOfStream ==
  ASSUME NEW a \in Seq(Part), NEW b \in Seq(Part)
  PROVE  /\ Len(a) + 0 <= Len(a \o b)
         /\ \A k \in 1 .. Len(a) : a[k] = (a \o b)[k + 0]
<1>1. Len(a) \in Nat /\ Len(b) \in Nat
  OBVIOUS
<1>2. Len(a \o b) = Len(a) + Len(b)
  BY ConcatProperties
<1>3. \A k \in 1 .. Len(a) + Len(b) : (a \o b)[k] = IF k <= Len(a) THEN a[k] ELSE b[k - Len(a)]
  BY ConcatProperties
<1>4. \A k \in 1 .. Len(a) : k + 0 = k /\ k \in 1 .. Len(a) + Len(b) /\ k <= Len(a)
  BY <1>1
<1> QED BY <1>1, <1>2, <1>3, <1>4

\* What is read leaves from the queue's front, which is the stream's.
LEMMA DropStream ==
  ASSUME NEW a \in Seq(Part), NEW b \in Seq(Part), NEW n \in 0 .. Len(a)
  PROVE  LET t == SubSeq(a, n + 1, Len(a)) \o b
         IN  /\ Len(t) + n = Len(a \o b)
             /\ \A k \in 1 .. Len(t) : t[k] = (a \o b)[k + n]
<1> DEFINE u == SubSeq(a, n + 1, Len(a))
           t == u \o b
<1>1. Len(a) \in Nat /\ Len(b) \in Nat
  OBVIOUS
<1>2. u \in Seq(Part) /\ Len(u) = Len(a) - n
      /\ \A i \in 1 .. Len(a) - n : u[i] = a[n + i]
  <2>1. \A i \in n + 1 .. Len(a) : a[i] \in Part
    BY <1>1, ElementOfSeq
  <2>2. n + 1 \in Int /\ Len(a) \in Int
    BY <1>1
  <2>3. /\ u \in Seq(Part)
        /\ Len(u) = IF n + 1 <= Len(a) THEN Len(a) - (n + 1) + 1 ELSE 0
        /\ \A i \in 1 .. Len(a) - (n + 1) + 1 : u[i] = a[n + 1 + i - 1]
    BY <2>1, <2>2, SubSeqProperties
  <2> HIDE DEF u
  <2>4. Len(u) = Len(a) - n
    BY <1>1, <2>3
  <2>5. ASSUME NEW i \in 1 .. Len(a) - n PROVE u[i] = a[n + i]
    <3>1. i \in 1 .. Len(a) - (n + 1) + 1 /\ n + 1 + i - 1 = n + i
      BY <1>1
    <3> QED BY <2>3, <3>1
  <2> QED BY <2>3, <2>4, <2>5
<1> HIDE DEF u
<1>3. /\ Len(t) = Len(u) + Len(b)
      /\ \A k \in 1 .. Len(u) + Len(b) : t[k] = IF k <= Len(u) THEN u[k] ELSE b[k - Len(u)]
  BY <1>2, ConcatProperties
<1>4. /\ Len(a \o b) = Len(a) + Len(b)
      /\ \A k \in 1 .. Len(a) + Len(b) :
           (a \o b)[k] = IF k <= Len(a) THEN a[k] ELSE b[k - Len(a)]
  BY ConcatProperties
<1> HIDE DEF t
<1>5. Len(t) + n = Len(a \o b)
  BY <1>1, <1>2, <1>3, <1>4
<1>6. ASSUME NEW k \in 1 .. Len(t) PROVE t[k] = (a \o b)[k + n]
  <2>1. k \in 1 .. Len(u) + Len(b) /\ k + n \in 1 .. Len(a) + Len(b)
    BY <1>1, <1>2, <1>3
  <2>2. CASE k <= Len(u)
    <3>1. k \in 1 .. Len(a) - n /\ k + n <= Len(a) /\ n + k = k + n
      BY <1>1, <1>2, <2>1, <2>2
    <3> QED BY <1>2, <1>3, <1>4, <2>1, <2>2, <3>1
  <2>3. CASE ~(k <= Len(u))
    <3>1. ~(k + n <= Len(a)) /\ k + n - Len(a) = k - Len(u)
      BY <1>1, <1>2, <2>1, <2>3
    <3> QED BY <1>3, <1>4, <2>1, <2>3, <3>1
  <2> QED BY <2>2, <2>3
<1> QED BY <1>5, <1>6 DEF t, u

-----------------------------------------------------------------------------

LEMMA EchoDeliver ==
  ASSUME TypeOK, TypeOK', AllEcho, NEW d \in Conns, Deliver(d)
  PROVE  AllEcho'
<1> USE DEF itemVars
<1> SUFFICES ASSUME NEW c \in Conns PROVE EchoInv(c)'
  BY DEF AllEcho
<1>1. PICK n \in 1 .. Len(wire[d]) :
        /\ inq' = [inq EXCEPT ![d] = @ \o SubSeq(wire[d], 1, n)]
        /\ wire' = [wire EXCEPT ![d] = SubSeq(@, n + 1, Len(@))]
  BY DEF Deliver
<1>2. UNCHANGED <<sent, answers, sendbuffer, recvbuffer, item, status, client>>
  BY DEF Deliver
<1>3. CASE c # d
  <2>1. inq'[c] = inq[c] /\ wire'[c] = wire[c]
    BY <1>1, <1>3 DEF TypeOK
  <2> QED BY <1>2, <2>1, EchoStays DEF AllEcho
<1>4. CASE c = d
  <2>1. inq[c] \in Seq(Part) /\ wire[c] \in Seq(Part)
    BY DEF TypeOK
  <2>2. /\ inq'[c] = inq[c] \o SubSeq(wire[c], 1, n)
        /\ wire'[c] = SubSeq(wire[c], n + 1, Len(wire[c]))
    <3>1. inq \in [Conns -> Seq(Part)] /\ wire \in [Conns -> Seq(Part)]
      BY DEF TypeOK
    <3>2. inq'[c] = inq[c] \o SubSeq(wire[c], 1, n)
      BY <1>1, <1>4, <3>1, Zenon
    <3>3. wire'[c] = SubSeq(wire[c], n + 1, Len(wire[c]))
      BY <1>1, <1>4, <3>1, Zenon
    <3> QED BY <3>2, <3>3
  <2>3. Stream(c)' = Stream(c)
    <3>1. n \in 1 .. Len(wire[c])
      BY <1>4
    <3>2. (inq[c] \o SubSeq(wire[c], 1, n)) \o SubSeq(wire[c], n + 1, Len(wire[c]))
            = inq[c] \o wire[c]
      BY <2>1, <3>1, MoveStream
    <3> QED BY <2>2, <3>2 DEF Stream
  <2>4. Len(Stream(c)) \in Nat
    BY StreamType, LenProperties
  <2>5. /\ Len(Stream(c)') + 0 <= Len(Stream(c))
        /\ \A k \in 1 .. Len(Stream(c)') : Stream(c)'[k] = Stream(c)[k + 0]
    <3>1. \A k \in 1 .. Len(Stream(c)) : k + 0 = k
      BY <2>4
    <3> QED BY <2>3, <2>4, <3>1
  <2>6. client[c] # "idle"
    <3>1. wire[c] # <<>>
      BY <1>4, <2>1
    <3> QED BY <3>1 DEF AllEcho, EchoInv
  <2>7. (item'[c] = "live" /\ status'[c] = "WS_DATATRANSFORM") => recvbuffer'[c] = <<>>
    BY <1>2 DEF AllEcho, EchoInv
  <2> QED BY <1>2, <2>5, <2>6, <2>7, EchoKept DEF AllEcho
<1> QED BY <1>3, <1>4

\* The rest of what clients and the network do, but for sending.
LEMMA EchoOutside ==
  ASSUME TypeOK, TypeOK', AllEcho,
         \/ Wait
         \/ \E d \in Conns : DeliverEnd(d) \/ CloseConnection(d) \/ ResetConnection(d)
  PROVE  AllEcho'
<1> USE DEF itemVars, clientVars, socketVars
<1>1. ASSUME UNCHANGED <<inq, wire, sent, answers, sendbuffer, recvbuffer, item, status>>,
             \A c \in Conns : client'[c] = "idle" => client[c] = "idle"
      PROVE  AllEcho'
  <2> SUFFICES ASSUME NEW c \in Conns PROVE EchoInv(c)'
    BY DEF AllEcho
  <2> QED BY <1>1, EchoStays DEF AllEcho
<1>2. CASE Wait
  BY <1>1, <1>2 DEF Wait
<1>3. ASSUME NEW d \in Conns, DeliverEnd(d) PROVE AllEcho'
  BY <1>1, <1>3 DEF DeliverEnd
<1>4. ASSUME NEW d \in Conns, CloseConnection(d) PROVE AllEcho'
  <2>1. \A c \in Conns : client'[c] = "idle" => client[c] = "idle"
    BY <1>4 DEF CloseConnection, TypeOK
  <2> QED BY <1>1, <1>4, <2>1 DEF CloseConnection
<1>5. ASSUME NEW d \in Conns, ResetConnection(d) PROVE AllEcho'
  <2> SUFFICES ASSUME NEW c \in Conns PROVE EchoInv(c)'
    BY DEF AllEcho
  <2>1. UNCHANGED <<inq, sent, answers, sendbuffer, recvbuffer, item, status>>
    BY <1>5 DEF ResetConnection
  <2>2. CASE c # d
    <3>1. wire'[c] = wire[c] /\ client'[c] = client[c]
      BY <1>5, <2>2 DEF ResetConnection, TypeOK
    <3> QED BY <2>1, <3>1, EchoStays DEF AllEcho
  <2>3. CASE c = d
    <3>1. wire'[c] = <<>> /\ client'[c] = "reset"
      BY <1>5, <2>3 DEF ResetConnection, TypeOK
    <3>2. inq[c] \in Seq(Part) /\ wire[c] \in Seq(Part)
      BY DEF TypeOK
    <3>3. Stream(c)' = inq[c]
      BY <2>1, <3>1, <3>2, ConcatEmptySeq DEF Stream
    <3>4. /\ Len(inq[c]) + 0 <= Len(inq[c] \o wire[c])
          /\ \A k \in 1 .. Len(inq[c]) : inq[c][k] = (inq[c] \o wire[c])[k + 0]
      BY <3>2, StartOfStream
    <3>5. Stream(c) = inq[c] \o wire[c]
      BY DEF Stream
    <3>6. Len(Stream(c)') + 0 <= Len(Stream(c))
      BY <3>3, <3>4, <3>5
    <3>8. \A k \in 1 .. Len(Stream(c)') : Stream(c)'[k] = Stream(c)[k + 0]
      BY <3>3, <3>4, <3>5
    <3>9. (item'[c] = "live" /\ status'[c] = "WS_DATATRANSFORM") => recvbuffer'[c] = <<>>
      BY <2>1 DEF AllEcho, EchoInv
    <3>10. client'[c] # "idle"
      BY <3>1
    <3> QED BY <2>1, <3>6, <3>8, <3>9, <3>10, EchoKept DEF AllEcho
  <2> QED BY <2>2, <2>3
<1> QED BY <1>2, <1>3, <1>4, <1>5

LEMMA EchoAccept ==
  ASSUME IInv, TypeOK', AllEcho, NEW e \in batch, AcceptCb(e)
  PROVE  AllEcho'
<1> USE DEF itemVars, clientVars, socketVars
<1> SUFFICES ASSUME NEW c \in Conns PROVE EchoInv(c)'
  BY DEF AllEcho
<1>1. /\ UNCHANGED <<inq, wire, sent, answers, sendbuffer, client>>
      /\ \/ UNCHANGED <<item, status, recvbuffer>>
         \/ \E d \in Conns : /\ item' = [item EXCEPT ![d] = "live"]
                             /\ status' = [status EXCEPT ![d] = "WS_HANDSHARK"]
                             /\ \E old : recvbuffer' = [recvbuffer EXCEPT ![d] = old]
  BY DEF AcceptCb, IInv, TypeOK
<1>2. (item'[c] = "live" /\ status'[c] = "WS_DATATRANSFORM") =>
        /\ item[c] = "live" /\ status[c] = "WS_DATATRANSFORM"
        /\ recvbuffer'[c] = recvbuffer[c]
  <2>1. CASE UNCHANGED <<item, status, recvbuffer>>
    BY <2>1
  <2>2. ASSUME NEW d \in Conns, item' = [item EXCEPT ![d] = "live"],
               status' = [status EXCEPT ![d] = "WS_HANDSHARK"],
               NEW old, recvbuffer' = [recvbuffer EXCEPT ![d] = old],
               status'[c] = "WS_DATATRANSFORM", item'[c] = "live"
        PROVE  item[c] = "live" /\ status[c] = "WS_DATATRANSFORM" /\ recvbuffer'[c] = recvbuffer[c]
    <3>1. c # d
      BY <2>2 DEF IInv, TypeOK
    <3> QED BY <2>2, <3>1 DEF IInv, TypeOK
  <2> QED BY <1>1, <2>1, <2>2
<1>3. (item'[c] = "live" /\ status'[c] = "WS_DATATRANSFORM") => recvbuffer'[c] = <<>>
  BY <1>2 DEF AllEcho, EchoInv
<1>4. Stream(c)' = Stream(c)
  BY <1>1 DEF Stream
<1> QED BY <1>1, <1>3, <1>4 DEF AllEcho, EchoInv

\* A frame that is sent goes behind everything.
LEMMA FrameRank ==
  ASSUME NEW m \in 1 .. MaxFrames
  PROVE  /\ Frame(m) \in Seq(Part) /\ Len(Frame(m)) = 2
         /\ Rank(Frame(m)[1]) = 5 * m + 1 /\ Rank(Frame(m)[2]) = 5 * m + 2
<1>1. Frame(m) \in Seq(Part)
  BY MessageType
<1>2. Len(Frame(m)) = 2
  BY DEF Frame
<1>3. Frame(m)[1] = [msg |-> m, no |-> 1] /\ Frame(m)[2] = [msg |-> m, no |-> 2]
  BY DEF Frame
<1> QED BY <1>1, <1>2, <1>3 DEF Rank

LEMMA FrameSorted ==
  ASSUME NEW s \in Seq(Part), NEW n \in 0 .. MaxFrames - 1, Sorted(s, n),
         NEW t, t = s \o Frame(n + 1)
  PROVE  Sorted(t, n + 1) /\ \A a \in Int : Past(a, s, n) => Past(a, t, n + 1)
<1> DEFINE f == Frame(n + 1)
<1>1. n + 1 \in 1 .. MaxFrames /\ n \in Int
  BY FramesAssumption
<1>2. f \in Seq(Part) /\ Len(f) = 2
  BY <1>1, FrameRank
<1>3. Rank(f[1]) = 5 * n + 6 /\ Rank(f[2]) = 5 * n + 7
  <2>1. Rank(f[1]) = 5 * (n + 1) + 1 /\ Rank(f[2]) = 5 * (n + 1) + 2
    BY <1>1, FrameRank
  <2> HIDE DEF f
  <2> QED BY <1>1, <2>1
<1> HIDE DEF f
<1>4. Len(s) \in Nat
  OBVIOUS
<1>5. /\ Len(t) = Len(s) + 2
      /\ \A k \in 1 .. Len(s) + 2 : t[k] = IF k <= Len(s) THEN s[k] ELSE f[k - Len(s)]
  <2>1. t = s \o f
    BY DEF f
  <2>2. /\ Len(s \o f) = Len(s) + Len(f)
        /\ \A k \in 1 .. Len(s) + Len(f) :
             (s \o f)[k] = IF k <= Len(s) THEN s[k] ELSE f[k - Len(s)]
    BY <1>2, ConcatProperties
  <2> QED BY <1>2, <2>1, <2>2
<1>6. ASSUME NEW k \in 1 .. Len(t)
      PROVE  \/ k \in 1 .. Len(s) /\ t[k] = s[k]
             \/ k = Len(s) + 1 /\ Rank(t[k]) = 5 * n + 6
             \/ k = Len(s) + 2 /\ Rank(t[k]) = 5 * n + 7
  <2>1. k \in 1 .. Len(s) \/ k = Len(s) + 1 \/ k = Len(s) + 2
    BY <1>4, <1>5
  <2>2. CASE k \in 1 .. Len(s)
    BY <1>4, <1>5, <2>2
  <2>3. CASE k = Len(s) + 1
    <3>1. ~(k <= Len(s)) /\ k - Len(s) = 1
      BY <1>4, <2>3
    <3> QED BY <1>3, <1>5, <2>3, <3>1
  <2>4. CASE k = Len(s) + 2
    <3>1. ~(k <= Len(s)) /\ k - Len(s) = 2
      BY <1>4, <2>4
    <3> QED BY <1>3, <1>5, <2>4, <3>1
  <2> QED BY <2>1, <2>2, <2>3, <2>4
<1>7. \A k \in 1 .. Len(s) : Rank(s[k]) \in Int /\ Rank(s[k]) <= 5 * n + 5
  BY RankType, ElementOfSeq DEF Sorted
<1>8. ASSUME NEW i \in 1 .. Len(t), NEW j \in 1 .. Len(t), i < j
      PROVE  Rank(t[i]) < Rank(t[j])
  <2>1. CASE j \in 1 .. Len(s)
    <3>1. i \in 1 .. Len(s) /\ t[i] = s[i] /\ t[j] = s[j]
      BY <1>4, <1>6, <1>8, <2>1
    <3> QED BY <1>8, <2>1, <3>1 DEF Sorted
  <2>2. CASE j = Len(s) + 1
    <3>1. i \in 1 .. Len(s) /\ t[i] = s[i] /\ Rank(t[j]) = 5 * n + 6
      BY <1>4, <1>6, <1>8, <2>2
    <3> QED BY <1>1, <1>7, <3>1
  <2>3. CASE j = Len(s) + 2
    <3>1. Rank(t[j]) = 5 * n + 7
      <4>1. ~(j \in 1 .. Len(s)) /\ ~(j = Len(s) + 1)
        BY <1>4, <2>3
      <4> QED BY <1>6, <4>1
    <3>2. (i \in 1 .. Len(s) /\ t[i] = s[i]) \/ Rank(t[i]) = 5 * n + 6
      <4>1. i # Len(s) + 2
        BY <1>4, <1>8, <2>3
      <4> QED BY <1>6, <4>1
    <3> QED BY <1>1, <1>7, <3>1, <3>2
  <2> QED BY <1>6, <2>1, <2>2, <2>3
<1>9. ASSUME NEW k \in 1 .. Len(t) PROVE Rank(t[k]) <= 5 * (n + 1) + 5
  <2>1. CASE k \in 1 .. Len(s) /\ t[k] = s[k]
    BY <1>1, <1>7, <2>1
  <2>2. CASE Rank(t[k]) = 5 * n + 6 \/ Rank(t[k]) = 5 * n + 7
    BY <1>1, <2>2
  <2> QED BY <1>6, <2>1, <2>2
<1>10. ASSUME NEW a \in Int, Past(a, s, n) PROVE Past(a, t, n + 1)
  <2> SUFFICES ASSUME a > 0
               PROVE  a <= n + 1 /\ \A k \in 1 .. Len(t) : 5 * a + 2 < Rank(t[k])
    BY DEF Past
  <2>1. a <= n /\ \A k \in 1 .. Len(s) : 5 * a + 2 < Rank(s[k])
    BY <1>10 DEF Past
  <2>2. ASSUME NEW k \in 1 .. Len(t) PROVE 5 * a + 2 < Rank(t[k])
    <3>1. CASE k \in 1 .. Len(s) /\ t[k] = s[k]
      BY <2>1, <3>1
    <3>2. CASE Rank(t[k]) = 5 * n + 6 \/ Rank(t[k]) = 5 * n + 7
      BY <1>1, <2>1, <3>2
    <3> QED BY <1>6, <3>1, <3>2
  <2> QED BY <1>1, <2>1, <2>2
<1> QED BY <1>8, <1>9, <1>10 DEF Sorted

LEMMA EchoSendFrame ==
  ASSUME TypeOK, TypeOK', AllEcho, NEW d \in Conns, SendFrame(d)
  PROVE  AllEcho'
<1> USE DEF itemVars, socketVars
<1> SUFFICES ASSUME NEW c \in Conns PROVE EchoInv(c)'
  BY DEF AllEcho
<1>1. /\ UNCHANGED <<client, inq, answers, sendbuffer, recvbuffer, item, status>>
      /\ client[d] = "open" /\ sent[d] < MaxFrames
      /\ sent' = [sent EXCEPT ![d] = @ + 1]
      /\ wire' = [wire EXCEPT ![d] = @ \o Frame(sent[d] + 1)]
  BY DEF SendFrame
<1>2. CASE c # d
  <2>1. sent'[c] = sent[c] /\ wire'[c] = wire[c]
    BY <1>1, <1>2 DEF TypeOK
  <2> QED BY <1>1, <2>1, EchoStays DEF AllEcho
<1>3. CASE c = d
  <2> DEFINE n == sent[c]
             f == Frame(n + 1)
             s == Stream(c)
             t == Stream(c)'
  <2>1. n \in 0 .. MaxFrames - 1 /\ n + 1 \in 1 .. MaxFrames
    BY <1>1, <1>3, FramesAssumption DEF TypeOK
  <2>2. sent'[c] = n + 1 /\ wire'[c] = wire[c] \o f
    BY <1>1, <1>3 DEF TypeOK
  <2>3. inq[c] \in Seq(Part) /\ wire[c] \in Seq(Part) /\ f \in Seq(Part)
    BY <2>1, FrameRank DEF TypeOK
  <2>4. t = s \o f
    <3>1. (inq[c] \o wire[c]) \o f = inq[c] \o (wire[c] \o f)
      <4> HIDE DEF f
      <4> QED BY <2>3, JoinStream
    <3> QED BY <1>1, <2>2, <3>1 DEF Stream
  <2>5. s \in Seq(Part) /\ Sorted(s, n)
    BY StreamType DEF AllEcho, EchoInv
  <2>6. Sorted(t, n + 1) /\ \A a \in Int : Past(a, s, n) => Past(a, t, n + 1)
    <3> HIDE DEF s, t, n
    <3> QED BY <2>1, <2>4, <2>5, FrameSorted DEF f
  <2>7. /\ \A i \in 1 .. Len(answers[c]) : answers[c][i] \in Int
        /\ \A j \in 1 .. Len(sendbuffer[c]) : sendbuffer[c][j] \in Int
    <3>1. answers[c] \in Seq(Answers) /\ sendbuffer[c] \in Seq(Answers)
      BY DEF TypeOK
    <3>2. Answers \subseteq Int
      BY FramesAssumption DEF Answers
    <3> QED BY <3>1, <3>2, ElementOfSeq
  <2>8. client'[c] # "idle"
    BY <1>1, <1>3
  <2> QED BY <1>1, <2>2, <2>6, <2>7, <2>8 DEF AllEcho, EchoInv
<1> QED BY <1>2, <1>3

LEMMA EchoConnect ==
  ASSUME IInv, TypeOK', AllEcho, NEW d \in Conns, Connect(d)
  PROVE  AllEcho'
<1> USE DEF itemVars, socketVars
<1> SUFFICES ASSUME NEW c \in Conns PROVE EchoInv(c)'
  BY DEF AllEcho
<1>1. /\ UNCHANGED <<sent, inq, answers, sendbuffer, recvbuffer, item, status>>
      /\ client[d] = "idle"
      /\ client' = [client EXCEPT ![d] = "open"]
      /\ wire' = [wire EXCEPT ![d] = Request]
  BY DEF Connect
<1>2. CASE c # d
  <2>1. client'[c] = client[c] /\ wire'[c] = wire[c]
    BY <1>1, <1>2 DEF IInv, TypeOK
  <2> QED BY <1>1, <2>1, EchoStays DEF AllEcho, IInv
<1>3. CASE c = d
  <2>1. client'[c] = "open" /\ wire'[c] = Request
    BY <1>1, <1>3 DEF IInv, TypeOK
  <2>2. inq[c] = <<>> /\ sent[c] = 0 /\ answers[c] = <<>> /\ sendbuffer[c] = <<>>
    BY <1>1, <1>3 DEF AllEcho, EchoInv
  <2>3. item'[c] # "live"
    BY <1>1, <1>3 DEF IInv, LoopInv, ItemInv
  <2>4. Stream(c)' = Request
    BY <1>1, <2>1, <2>2, MessageType, ConcatEmptySeq DEF Stream
  <2>5. Sorted(Request, 0)
    <3>1. Len(Request) = 5 /\ \A k \in 1 .. 5 : Request[k] = [msg |-> 0, no |-> k]
      BY DEF Request
    <3>2. \A k \in 1 .. 5 : Rank(Request[k]) = k
      BY <3>1 DEF Rank
    <3> QED BY <3>1, <3>2 DEF Sorted
  <2> QED BY <1>1, <2>1, <2>2, <2>3, <2>4, <2>5, EmptySeq DEF EchoInv
<1> QED BY <1>2, <1>3

LEMMA EchoSend ==
  ASSUME IInv, TypeOK', AllEcho, NEW e \in batch, SendCb(e)
  PROVE  AllEcho'
<1> DEFINE d == e.item
<1> USE DEF clientVars, socketVars
<1> SUFFICES ASSUME NEW c \in Conns PROVE EchoInv(c)'
  BY DEF AllEcho
<1>1. /\ d \in Conns /\ item[d] = "live" /\ callback[d] = "send_cb"
      /\ UNCHANGED <<client, sent, wire, inq, item, status, recvbuffer>>
      /\ sendbuffer' = [sendbuffer EXCEPT ![d] = <<>>]
      /\ \/ UNCHANGED answers
         \/ answers' = [answers EXCEPT ![d] = Append(@, IF sendbuffer[d] = <<>> THEN Junk
                                                        ELSE Head(sendbuffer[d]))]
  BY DEF SendCb, IInv, TypeOK
<1>2. Len(sendbuffer[d]) = 1 /\ sendbuffer[d] \in Seq(Answers)
  BY <1>1 DEF IInv, LoopInv, CallbackMatches, TypeOK
<1>3. sendbuffer[d] # <<>> /\ Head(sendbuffer[d]) = sendbuffer[d][1]
  BY <1>2, OneAnswer
<1>4. sendbuffer[d][1] \in Answers
  BY <1>2, ElementOfSeq
<1>5. Stream(c)' = Stream(c)
  BY <1>1 DEF Stream
<1>6. (item'[c] = "live" /\ status'[c] = "WS_DATATRANSFORM") => recvbuffer'[c] = <<>>
  BY <1>1 DEF AllEcho, EchoInv
<1>7. CASE c # d
  <2>1. answers \in [Conns -> Seq(Answers)] /\ sendbuffer \in [Conns -> Seq(Answers)]
    BY DEF IInv, TypeOK
  <2>2. sendbuffer'[c] = sendbuffer[c]
    BY <1>1, <1>7, <2>1
  <2>3. answers'[c] = answers[c]
    BY <1>1, <1>7, <2>1
  <2> QED BY <1>1, <2>2, <2>3, EchoStays DEF AllEcho, IInv
<1>8. CASE c = d
  <2>1. sendbuffer'[c] = <<>>
    BY <1>1, <1>8 DEF IInv, TypeOK
  <2>2. client'[c] # "idle"
    BY <1>1, <1>8 DEF IInv, LoopInv, ItemInv
  <2>3. answers[c] \in Seq(Answers)
    BY DEF IInv, TypeOK
  <2>4. CASE UNCHANGED answers
    BY <1>1, <1>5, <1>6, <2>1, <2>2, <2>4, EmptySeq DEF AllEcho, EchoInv
  <2>5. CASE answers'[c] = Append(answers[c], sendbuffer[c][1])
    <3> DEFINE x == sendbuffer[c][1]
               n == Len(answers[c])
    <3>1. /\ Len(answers'[c]) = n + 1 /\ n \in Nat
          /\ \A i \in 1 .. n : answers'[c][i] = answers[c][i]
          /\ answers'[c][n + 1] = x
      BY <1>4, <1>8, <2>3, <2>5, AppendProperties
    <3>2. /\ Past(x, Stream(c), sent[c])
          /\ x > 0 => \A i \in 1 .. n : answers[c][i] < x
      BY <1>2, <1>8 DEF AllEcho, EchoInv
    <3>3. /\ \A i \in 1 .. n : Past(answers[c][i], Stream(c), sent[c])
          /\ \A i, j \in 1 .. n : i < j /\ answers[c][j] > 0 => answers[c][i] < answers[c][j]
      BY DEF AllEcho, EchoInv
    <3> HIDE DEF x, n
    <3>4. \A i \in 1 .. n + 1 : i \in 1 .. n \/ i = n + 1
      BY <3>1
    <3>5. \A i \in 1 .. Len(answers'[c]) : Past(answers'[c][i], Stream(c), sent[c])
      BY <3>1, <3>2, <3>3, <3>4
    <3>6. ASSUME NEW i \in 1 .. n + 1, NEW j \in 1 .. n + 1, i < j, answers'[c][j] > 0
          PROVE  answers'[c][i] < answers'[c][j]
      <4>1. CASE j = n + 1
        <5>1. i \in 1 .. n
          BY <3>1, <3>6, <4>1
        <5> QED BY <3>1, <3>2, <3>6, <4>1, <5>1
      <4>2. CASE j \in 1 .. n
        <5>1. i \in 1 .. n
          BY <3>1, <3>6, <4>2
        <5> QED BY <3>1, <3>3, <3>6, <4>2, <5>1
      <4> QED BY <3>4, <4>1, <4>2
    <3>7. Sorted(Stream(c), sent[c])
      BY DEF AllEcho, EchoInv
    <3> QED BY <1>1, <1>5, <1>6, <2>1, <2>2, <3>1, <3>5, <3>6, <3>7, EmptySeq DEF EchoInv
  <2> QED BY <1>1, <1>3, <1>8, <2>3, <2>4, <2>5 DEF IInv, TypeOK
<1> QED BY <1>7, <1>8

\* What follows the first two or more lies beyond index 2.
LEMMA IndexShift ==
  ASSUME NEW l \in Nat, NEW rest \in Nat, NEW n \in Nat, rest + n <= l, n >= 2,
         NEW k \in 1 .. rest
  PROVE  k + n \in 1 .. l /\ 2 < k + n
OBVIOUS

\* What is decoded as an echo of frame m is the whole of frame m, at the start
\* of the stream.
LEMMA EchoDecoded ==
  ASSUME NEW s \in Seq(Part), NEW n \in Nat, n <= Len(s),
         NEW buf, buf = SubSeq(s, 1, n), Echo(buf) > 0
  PROVE  /\ n >= 2
         /\ Rank(s[1]) = 5 * Echo(buf) + 1 /\ Rank(s[2]) = 5 * Echo(buf) + 2
<1>1. Len(s) \in Nat
  OBVIOUS
<1>2. \A i \in 1 .. n : s[i] \in Part
  BY <1>1, ElementOfSeq
<1>3. Len(buf) = n /\ \A i \in 1 .. n : buf[i] = s[i]
  <2>1. /\ Len(buf) = IF 1 <= n THEN n - 1 + 1 ELSE 0
        /\ \A i \in 1 .. n - 1 + 1 : buf[i] = s[1 + i - 1]
    BY <1>2, SubSeqProperties
  <2>2. \A i \in 1 .. n : i \in 1 .. n - 1 + 1 /\ 1 + i - 1 = i
    OBVIOUS
  <2>3. Len(buf) = n
    BY <2>1
  <2>4. ASSUME NEW i \in 1 .. n PROVE buf[i] = s[i]
    BY <2>1, <2>2
  <2> QED BY <2>3, <2>4
<1>4. /\ Len(buf) >= 2 /\ Echo(buf) = buf[1].msg
      /\ buf[1] = Frame(buf[1].msg)[1] /\ buf[2] = Frame(buf[1].msg)[2]
  BY DEF Echo, Junk
<1>5. n >= 2 /\ buf[1] = s[1] /\ buf[2] = s[2] /\ s[1] \in Part
  BY <1>2, <1>3, <1>4
<1>6. s[1].msg \in 1 .. MaxFrames
  <2>1. s[1].msg \in 0 .. MaxFrames
    BY <1>5 DEF Part
  <2> QED BY <1>4, <1>5, <2>1, FramesAssumption
<1> QED BY <1>4, <1>5, <1>6, FrameRank

LEMMA EchoRecvData ==
  ASSUME IInv, TypeOK', AllEcho, NEW d \in Conns, RecvData(d), item[d] = "live",
         UNCHANGED <<client, sent, wire, answers>>
  PROVE  AllEcho'
<1> SUFFICES ASSUME NEW c \in Conns PROVE EchoInv(c)'
  BY DEF AllEcho
<1> DEFINE n == Count(d)
           buf == Received(d)
<1>1. /\ UNCHANGED item /\ inq[d] # <<>>
      /\ inq' = [inq EXCEPT ![d] = SubSeq(@, n + 1, Len(@))]
  BY DEF RecvData
<1>2. \/ status[d] = "WS_HANDSHARK" /\ Reply(d, Accept(d, buf))
      \/ /\ status[d] = "WS_HANDSHARK"
         /\ recvbuffer' = [recvbuffer EXCEPT ![d] = buf]
         /\ UNCHANGED <<status, sendbuffer>>
      \/ status[d] = "WS_DATATRANSFORM" /\ Reply(d, Echo(buf))
  BY DEF RecvData
<1>3. /\ inq[d] \in Seq(Part) /\ wire[d] \in Seq(Part) /\ recvbuffer[d] \in Seq(Buffered)
      /\ Len(inq[d]) \in Nat /\ n \in 0 .. Len(inq[d])
  <2>1. inq[d] \in Seq(Part) /\ wire[d] \in Seq(Part) /\ recvbuffer[d] \in Seq(Buffered)
    BY DEF IInv, TypeOK
  <2> QED BY <2>1, BufferAssumption DEF Count
<1>4. CASE c # d
  <2>1. inq'[c] = inq[c] /\ sendbuffer'[c] = sendbuffer[c] /\ recvbuffer'[c] = recvbuffer[c]
        /\ status'[c] = status[c]
    <3> HIDE DEF n, buf
    <3>1. inq'[c] = inq[c]
      BY <1>1, <1>4 DEF IInv, TypeOK
    <3>2. ASSUME NEW x, Reply(d, x)
          PROVE  UNCHANGED <<sendbuffer[c], recvbuffer[c], status[c]>>
      BY <1>4, <3>2 DEF Reply, IInv, TypeOK
    <3>3. ASSUME recvbuffer' = [recvbuffer EXCEPT ![d] = buf] PROVE recvbuffer'[c] = recvbuffer[c]
      BY <1>4, <3>3 DEF IInv, TypeOK
    <3>4. UNCHANGED <<sendbuffer[c], recvbuffer[c], status[c]>>
      BY <1>2, <3>2, <3>3, Zenon
    <3> QED BY <3>1, <3>4
  <2> HIDE DEF n, buf
  <2> QED BY <1>1, <2>1, EchoStays DEF AllEcho, IInv
<1>5. CASE c = d
  <2> DEFINE s == Stream(c)
             t == Stream(c)'
  <2>1. s = inq[c] \o wire[c] /\ t = SubSeq(inq[c], n + 1, Len(inq[c])) \o wire[c]
    <3> HIDE DEF n
    <3>1. inq \in [Conns -> Seq(Part)]
      BY DEF IInv, TypeOK
    <3>2. inq'[d] = SubSeq(inq[d], n + 1, Len(inq[d]))
      BY <1>1, <3>1
    <3>3. inq'[c] = SubSeq(inq[c], n + 1, Len(inq[c]))
      BY <1>5, <3>2
    <3> QED BY <3>3 DEF Stream
  <2>2. Len(t) + n = Len(s) /\ \A k \in 1 .. Len(t) : t[k] = s[k + n]
    <3>1. LET u == SubSeq(inq[c], n + 1, Len(inq[c])) \o wire[c]
          IN  /\ Len(u) + n = Len(inq[c] \o wire[c])
              /\ \A k \in 1 .. Len(u) : u[k] = (inq[c] \o wire[c])[k + n]
      <4> HIDE DEF n
      <4> QED BY <1>3, <1>5, DropStream
    <3> HIDE DEF s, t, n
    <3> QED BY <2>1, <3>1
  <2>3. s \in Seq(Part) /\ t \in Seq(Part) /\ Len(s) \in Nat /\ Len(t) \in Nat
    <3>1. s \in Seq(Part) /\ t \in Seq(Part)
      BY StreamType DEF IInv, Stream, TypeOK
    <3> QED BY <3>1
  <2>4. Len(t) + n <= Len(s) /\ n \in Nat
    <3> HIDE DEF s, t
    <3> QED BY <1>3, <2>2, <2>3
  <2>5. client'[c] # "idle"
    BY <1>5 DEF IInv, LoopInv, ItemInv
  <2>6. Sorted(s, sent[c])
    BY DEF AllEcho, EchoInv
  <2>7. sent[c] \in Nat
    BY FramesAssumption DEF IInv, TypeOK
  <2>8. Sorted(t, sent[c]) /\ \A a : Past(a, s, sent[c]) => Past(a, t, sent[c])
    <3> HIDE DEF s, t, n
    <3>1. Sorted(t, sent[c])
      BY <2>2, <2>3, <2>4, <2>6, <2>7, ShiftSorted
    <3>2. ASSUME NEW a, Past(a, s, sent[c]) PROVE Past(a, t, sent[c])
      BY <2>2, <2>3, <2>4, <2>7, <3>2, ShiftPast
    <3> QED BY <3>1, <3>2
  <2>9. CASE /\ status[d] = "WS_HANDSHARK"
             /\ recvbuffer' = [recvbuffer EXCEPT ![d] = buf]
             /\ UNCHANGED <<status, sendbuffer>>
    <3>1. status'[c] # "WS_DATATRANSFORM"
      BY <1>5, <2>9
    <3> HIDE DEF n, buf, s, t
    <3> QED BY <2>5, <2>8, <2>9, <3>1 DEF AllEcho, EchoInv, s, t
  <2>10. ASSUME NEW answer, Reply(d, answer), Past(answer, t, sent[c]),
                answer > 0 => \A i \in 1 .. Len(answers[c]) : answers[c][i] < answer
         PROVE  EchoInv(c)'
    <3>1. recvbuffer'[c] = <<>> /\ sendbuffer'[c] = <<answer>>
      BY <1>5, <2>10 DEF Reply, IInv, TypeOK
    <3>2. Len(sendbuffer'[c]) = 1 /\ sendbuffer'[c][1] = answer
      BY <3>1
    <3>3. \A j \in 1 .. Len(sendbuffer'[c]) : sendbuffer'[c][j] = answer
      BY <3>2
    <3> HIDE DEF s, n, buf
    <3> QED BY <2>5, <2>8, <2>10, <3>1, <3>3 DEF AllEcho, EchoInv, s
  <2>11. CASE status[d] = "WS_HANDSHARK" /\ Reply(d, Accept(d, buf))
    <3>1. ~(Accept(d, buf) > 0)
      BY DEF Accept, Switching, WrongKey
    <3> HIDE DEF n, buf, s, t
    <3> QED BY <2>10, <2>11, <3>1 DEF Past
  <2>12. CASE status[d] = "WS_DATATRANSFORM" /\ Reply(d, Echo(buf))
    <3> DEFINE m == Echo(buf)
    <3>1. buf = SubSeq(s, 1, n)
      <4>1. recvbuffer[d] = <<>>
        BY <2>12 DEF AllEcho, EchoInv
      <4>2. SubSeq(inq[d], 1, n) \in Seq(Part) /\ Len(SubSeq(inq[d], 1, n)) \in Nat
        <5> HIDE DEF n
        <5>1. n \in Nat /\ n <= Len(inq[d]) /\ 1 \in Nat \ {0}
          BY <1>3
        <5>2. SubSeq(inq[d], 1, n) \in Seq(Part)
          BY <1>3, <5>1, PieceType
        <5> QED BY <5>2, LenProperties
      <4>3. SubSeq(recvbuffer[d], Len(SubSeq(inq[d], 1, n)) + 1, Len(recvbuffer[d])) = <<>>
        <5> HIDE DEF n
        <5> QED BY <4>1, <4>2, SubSeqEmpty, EmptySeq
      <4>4. buf = SubSeq(inq[d], 1, n)
        <5> HIDE DEF n
        <5> QED BY <4>2, <4>3, ConcatEmptySeq DEF Overwrite, Received, n
      <4>5. SubSeq(s, 1, n) = SubSeq(inq[d], 1, n)
        <5>1. n >= 1
          <6>1. Len(inq[d]) \in Nat \ {0}
            BY <1>1, <1>3, EmptySeq
          <6> QED BY <6>1, BufferAssumption DEF Count
        <5> HIDE DEF n, s
        <5>2. 1 \in 1 .. Len(inq[d]) /\ n \in 1 .. Len(inq[d])
          BY <1>3, <5>1
        <5>3. SubSeq(inq[d] \o wire[d], 1, n) = SubSeq(inq[d], 1, n)
          BY <1>3, <5>2, SubSeqOfConcat1
        <5> QED BY <1>5, <2>1, <5>3
      <4> QED BY <4>4, <4>5
    <3>2. n <= Len(s) /\ n \in Nat
      <4> HIDE DEF n, s, t
      <4> QED BY <2>3, <2>4
    <3>3. m \in Int
      <4>1. buf \in Seq(Buffered)
        <5> HIDE DEF n, s, t, buf
        <5>1. buf \in Seq(Part)
          BY <2>3, <3>1, <3>2, PieceType
        <5> QED BY <5>1, BufferType
      <4> HIDE DEF buf
      <4> QED BY <4>1, AnswerType, FramesAssumption DEF Answers
    <3>4. ASSUME m > 0
          PROVE  /\ Past(m, t, sent[c])
                 /\ \A i \in 1 .. Len(answers[c]) : answers[c][i] < m
      <4>1. n >= 2 /\ Rank(s[1]) = 5 * m + 1 /\ Rank(s[2]) = 5 * m + 2
        <5> HIDE DEF n, s, t, buf
        <5> QED BY <2>3, <3>1, <3>2, <3>4, EchoDecoded
      <4>2. 1 \in 1 .. Len(s) /\ 2 \in 1 .. Len(s)
        <5> HIDE DEF n, s, t
        <5> QED BY <2>3, <3>2, <4>1
      <4>3. \A i \in 1 .. Len(answers[c]) : answers[c][i] \in Int /\ Past(answers[c][i], s, sent[c])
        <5>1. answers[c] \in Seq(Answers)
          BY DEF IInv, TypeOK
        <5> QED BY <5>1, ElementOfSeq, FramesAssumption DEF Answers, AllEcho, EchoInv
      <4> HIDE DEF n, s, t, m
      <4>4. m <= sent[c]
        <5>1. Rank(s[2]) <= 5 * sent[c] + 5
          BY <2>6, <4>2 DEF Sorted
        <5> QED BY <2>7, <3>3, <4>1, <5>1
      <4>5. ASSUME NEW k \in 1 .. Len(t) PROVE 5 * m + 2 < Rank(t[k])
        <5>1. k \in 1 .. Len(t) /\ n >= 2
          BY <4>1
        <5>2. k + n \in 1 .. Len(s) /\ 2 < k + n
          BY <2>3, <2>4, <5>1, IndexShift
        <5>3. t[k] = s[k + n]
          BY <2>2
        <5>4. Rank(s[2]) < Rank(s[k + n])
          BY <2>6, <4>2, <5>2 DEF Sorted
        <5> QED BY <4>1, <5>3, <5>4
      <4>6. ASSUME NEW i \in 1 .. Len(answers[c]) PROVE answers[c][i] < m
        <5>1. CASE answers[c][i] > 0
          <6>1. 5 * answers[c][i] + 2 < Rank(s[1])
            BY <4>2, <4>3, <5>1 DEF Past
          <6> QED BY <3>3, <4>1, <4>3, <6>1
        <5>2. CASE ~(answers[c][i] > 0)
          BY <3>3, <3>4, <4>3, <5>2 DEF m
        <5> QED BY <5>1, <5>2
      <4> QED BY <4>4, <4>5, <4>6 DEF Past
    <3>5. Past(m, t, sent[c])
      BY <3>4 DEF Past
    <3> HIDE DEF n, s, t, buf
    <3> QED BY <2>10, <2>12, <3>4, <3>5
  <2> HIDE DEF n, s, t, buf
  <2> QED BY <1>2, <2>9, <2>11, <2>12
<1> QED BY <1>4, <1>5

LEMMA EchoRecv ==
  ASSUME IInv, TypeOK', AllEcho, NEW e \in batch, RecvCb(e)
  PROVE  AllEcho'
<1> DEFINE d == e.item
<1>1. /\ d \in Conns /\ item[d] = "live"
      /\ UNCHANGED <<client, sent, wire, answers>>
  BY DEF RecvCb, IInv, TypeOK, clientVars
<1>2. CASE RecvData(d)
  <2> HIDE DEF d
  <2> QED BY <1>1, <1>2, EchoRecvData
<1>3. CASE RecvEnd(d)
  <2> SUFFICES ASSUME NEW c \in Conns PROVE EchoInv(c)'
    BY DEF AllEcho
  <2>1. /\ UNCHANGED <<inq, status, recvbuffer, sendbuffer>>
        /\ item' = [item EXCEPT ![d] = "freed"]
    BY <1>3 DEF RecvEnd
  <2>2. item'[c] = "live" => item[c] = "live"
    BY <2>1 DEF IInv, TypeOK
  <2> QED BY <1>1, <2>1, <2>2, EchoStays DEF AllEcho, IInv
<1> QED BY <1>2, <1>3 DEF RecvCb

LEMMA NextEcho == IInv /\ AllEcho /\ [Next]_vars => AllEcho'
<1> SUFFICES ASSUME IInv, AllEcho, [Next]_vars PROVE AllEcho'
  OBVIOUS
<1>1. TypeOK /\ TypeOK'
  BY NextType DEF IInv
<1>2. CASE UNCHANGED vars
  <2> SUFFICES ASSUME NEW c \in Conns PROVE EchoInv(c)'
    BY DEF AllEcho
  <2>1. UNCHANGED <<inq, wire, sent, answers, sendbuffer, recvbuffer, item, status, client>>
    BY <1>2 DEF vars, clientVars, socketVars, itemVars
  <2> QED BY <1>1, <2>1, EchoStays DEF AllEcho
<1>3. CASE Wait
  BY <1>1, <1>3, EchoOutside
<1>4. ASSUME NEW e \in batch, AcceptCb(e) \/ RecvCb(e) \/ SendCb(e) PROVE AllEcho'
  BY <1>1, <1>4, EchoAccept, EchoRecv, EchoSend
<1>5. ASSUME NEW c \in Conns, \/ NetworkStep(c) \/ Connect(c) \/ SendFrame(c)
                              \/ CloseConnection(c) \/ ResetConnection(c)
      PROVE  AllEcho'
  <2>1. CASE Deliver(c)
    BY <1>1, <2>1, EchoDeliver
  <2>2. CASE DeliverEnd(c) \/ CloseConnection(c) \/ ResetConnection(c)
    BY <1>1, <2>2, EchoOutside
  <2>3. CASE Connect(c)
    BY <1>1, <2>3, EchoConnect
  <2>4. CASE SendFrame(c)
    BY <1>1, <2>4, EchoSendFrame
  <2> QED BY <1>5, <2>1, <2>2, <2>3, <2>4 DEF NetworkStep
<1>6. ASSUME NEW e \in batch, AcceptNoMemory(e) \/ RecvOverrun(e) PROVE AllEcho'
  <2> SUFFICES ASSUME NEW c \in Conns PROVE EchoInv(c)'
    BY DEF AllEcho
  <2>1. UNCHANGED <<inq, wire, sent, answers, sendbuffer, recvbuffer, item, status, client>>
    BY <1>6, DeathChangesNothing DEF clientVars, socketVars, itemVars
  <2> QED BY <1>1, <2>1, EchoStays DEF AllEcho
<1> QED BY <1>2, <1>3, <1>4, <1>5, <1>6 DEF Next, ServerStep

\* Over any network that keeps the order of bytes, and for clients that await
\* no answer: echoes come in the order of the frames, none twice and none of
\* a frame that has not been sent.
THEOREM EchoInOrderHolds == Spec => []EchoInOrder
<1>1. TypeOK /\ AllEcho => EchoInOrder
  BY DEF AllEcho, EchoInv, Past, EchoInOrder
<1>2. IInv => TypeOK
  BY DEF IInv
<1> QED BY <1>1, <1>2, InitEcho, NextEcho, Invariance, PTL DEF Spec
-----------------------------------------------------------------------------
(* Lock-step. A client that awaits each echo has one message under way, the *)
(* request or its last frame, and the network hands it over in one piece.  *)
(* So there is a turn: the message is on the wire, or in the queue, or its *)
(* answer is ready, or has been sent; or a reset has destroyed it.         *)

\* The request is message 0.

Message(n) == IF n = 0 THEN Request ELSE Frame(n)

\* What message n is answered with: the key, right or wrong, or the frame.
Due(c, n) == IF n = 0 /\ c \in CutKeys THEN WrongKey ELSE n

At(c, w, q, b, n) ==
  wire[c] = w /\ inq[c] = q /\ sendbuffer[c] = b /\ Len(answers[c]) = n

Idle(c) == client[c] = "idle" /\ sent[c] = 0 /\ At(c, <<>>, <<>>, <<>>, 0)
OnWire(c) == At(c, Message(sent[c]), <<>>, <<>>, sent[c])
Queued(c) == At(c, <<>>, Message(sent[c]), <<>>, sent[c])
Answering(c) == At(c, <<>>, <<>>, <<Due(c, sent[c])>>, sent[c])
Answered(c) == At(c, <<>>, <<>>, <<>>, sent[c] + 1)
Lost(c) == rst[c] /\ At(c, <<>>, <<>>, <<>>, sent[c])

\* While the request is under way the item is in the handshake.
TurnInv(c) ==
  \/ Idle(c)
  \/ /\ client[c] # "idle"
     /\ \/ /\ OnWire(c) \/ Queued(c)
           /\ (item[c] = "live" /\ sent[c] = 0) => status[c] = "WS_HANDSHARK"
        \/ Answering(c) \/ Answered(c) \/ Lost(c)

LockInv(c) ==
  /\ \A i \in 1 .. Len(answers[c]) : answers[c][i] = Due(c, i - 1)
  /\ TurnInv(c)

AllLock == \A c \in Conns : LockInv(c)

\* What makes it so: the client waits, the network cuts nothing, and the
\* buffer holds the five parts of the request.
Lockstep == ~Pipelining /\ ~Splitting /\ BUFFER_LENGTH >= 5

\* Before a client connects the turn is idle.
LEMMA InitLock == Init => AllLock
BY EmptySeq DEF Init, AllLock, LockInv, TurnInv, Idle, At

\* A message is not empty, and the buffer holds it.
LEMMA MessageFacts ==
  ASSUME NEW n \in 0 .. MaxFrames
  PROVE  /\ Message(n) \in Seq(Part) /\ Message(n) # <<>>
         /\ Len(Message(n)) \in 1 .. 5
<1>1. CASE n = 0
  <2>1. Len(Request) = 5 /\ Request \in Seq(Part)
    BY MessageType DEF Request
  <2>2. Request # <<>>
    BY <2>1, EmptySeq
  <2> QED BY <1>1, <2>1, <2>2 DEF Message
<1>2. CASE n # 0
  <2>1. n \in 1 .. MaxFrames
    BY <1>2, FramesAssumption
  <2>2. Frame(n) \in Seq(Part) /\ Len(Frame(n)) = 2
    BY <2>1, FrameRank
  <2>3. Frame(n) # <<>>
    BY <2>2 DEF Frame
  <2> QED BY <1>2, <2>2, <2>3 DEF Message
<1> QED BY <1>1, <1>2

\* recv_cb's count, when the buffer holds what has arrived.
LEMMA WholeCount ==
  ASSUME NEW k \in 1 .. 5, NEW size \in Nat, size >= 5
  PROVE  (IF k < size THEN k ELSE size) = k
OBVIOUS

\* What the code makes of a message that is whole: whatever is behind the
\* request, the first label is the client's.
LEMMA WholeRequest ==
  ASSUME NEW c, NEW behind \in Seq(Buffered)
  PROVE  KeyAt(Request \o behind) # {} /\ Accept(c, Request \o behind) = Due(c, 0)
<1> DEFINE buf == Request \o behind
<1>1. Request \in Seq(Buffered) /\ Len(Request) = 5
  <2>1. Request \in Seq(Buffered)
    BY MessageType, BufferType
  <2>2. Len(Request) = 5
    BY DEF Request
  <2> QED BY <2>1, <2>2
<1>2. Len(behind) \in Nat /\ Len(buf) = 5 + Len(behind) /\ \A i \in 1 .. 5 : buf[i] = Request[i]
  <2>1. Len(buf) = Len(Request) + Len(behind)
    BY <1>1, ConcatProperties
  <2>2. \A i \in 1 .. Len(Request) + Len(behind) :
          buf[i] = IF i <= Len(Request) THEN Request[i] ELSE behind[i - Len(Request)]
    BY <1>1, ConcatProperties
  <2>3. Len(behind) \in Nat
    BY LenProperties
  <2> HIDE DEF buf
  <2> QED BY <1>1, <2>1, <2>2, <2>3
<1> HIDE DEF buf
<1>3. \A i \in 1 .. 5 : Request[i].msg = 0 /\ Request[i].no = i
  BY DEF Request
<1>4. 2 \in KeyAt(buf)
  <2>1. ReadTo(buf, 2)
    BY <1>2, <1>3 DEF ReadTo
  <2>2. buf[2] = Request[2] /\ buf[3] = Request[3]
    BY <1>2
  <2> QED BY <1>2, <1>3, <2>1, <2>2 DEF KeyAt
<1>5. \A j \in KeyAt(buf) : 2 <= j
  <2> SUFFICES ASSUME 1 \in KeyAt(buf) PROVE FALSE
    BY <1>2 DEF KeyAt
  <2> QED BY <1>2, <1>3 DEF KeyAt
<1>6. 2 + 2 <= Len(buf) /\ buf[2 + 1] = Request[3] /\ buf[2 + 2] = Request[4]
  BY <1>2
<1>7. c \notin CutKeys => Accept(c, buf) = Switching
  BY <1>4, <1>5, <1>6 DEF Accept
<1> QED BY <1>4, <1>7 DEF Accept, Due, Switching, buf

LEMMA WholeFrame ==
  ASSUME NEW n \in 1 .. MaxFrames PROVE Echo(Frame(n)) = n
<1>1. n \in Nat /\ n > 0
  BY FramesAssumption
<1>2. Len(Frame(n)) = 2 /\ Frame(n)[1].msg = n
  BY DEF Frame
<1> QED BY <1>1, <1>2 DEF Echo

\* A step that leaves the turn alone.
LEMMA LockKept ==
  ASSUME NEW c \in Conns, LockInv(c), rst[c] => rst'[c],
         UNCHANGED <<wire[c], inq[c], sendbuffer[c], answers[c], sent[c]>>,
         client'[c] = client[c] \/ (client[c] # "idle" /\ client'[c] # "idle"),
         (item'[c] = "live" /\ status'[c] # "WS_HANDSHARK") =>
           (item[c] = "live" /\ status[c] # "WS_HANDSHARK")
  PROVE  LockInv(c)'
<1>1. TurnInv(c)'
  BY DEF LockInv, TurnInv, Idle, OnWire, Queued, Answering, Answered, Lost, At
<1> QED BY <1>1 DEF LockInv

\* connect puts the request on the wire.
LEMMA LockConnect ==
  ASSUME IInv, AllLock, NEW d \in Conns, Connect(d)
  PROVE  AllLock'
<1> USE DEF socketVars, itemVars
<1> SUFFICES ASSUME NEW c \in Conns PROVE LockInv(c)'
  BY DEF AllLock
<1>1. /\ UNCHANGED <<sent, inq, rst, answers, sendbuffer, recvbuffer, item, status>>
      /\ client[d] = "idle"
      /\ client' = [client EXCEPT ![d] = "open"] /\ wire' = [wire EXCEPT ![d] = Request]
  BY DEF Connect
<1>2. CASE c # d
  <2>1. client'[c] = client[c] /\ wire'[c] = wire[c]
    BY <1>1, <1>2 DEF IInv, TypeOK
  <2> QED BY <1>1, <2>1, LockKept DEF AllLock
<1>3. CASE c = d
  <2>1. client'[c] = "open" /\ wire'[c] = Request
    BY <1>1, <1>3 DEF IInv, TypeOK
  <2>2. Idle(c)
    BY <1>1, <1>3 DEF AllLock, LockInv, TurnInv
  <2>3. OnWire(c)'
    BY <1>1, <2>1, <2>2 DEF Idle, OnWire, At, Message
  <2>4. item'[c] # "live"
    BY <1>1, <1>3 DEF IInv, LoopInv, ItemInv
  <2> QED BY <1>1, <2>1, <2>3, <2>4 DEF AllLock, LockInv, TurnInv
<1> QED BY <1>2, <1>3

\* A client sends its next frame only when the turn is its own.
LEMMA LockSendFrame ==
  ASSUME Lockstep, IInv, AllLock, NEW d \in Conns, SendFrame(d)
  PROVE  AllLock'
<1> USE DEF socketVars, itemVars
<1> SUFFICES ASSUME NEW c \in Conns PROVE LockInv(c)'
  BY DEF AllLock
<1>1. /\ UNCHANGED <<client, inq, rst, answers, sendbuffer, recvbuffer, item, status>>
      /\ client[d] = "open" /\ sent[d] < MaxFrames
      /\ Len(answers[d]) > sent[d]
      /\ sent' = [sent EXCEPT ![d] = @ + 1]
      /\ wire' = [wire EXCEPT ![d] = @ \o Frame(sent[d] + 1)]
  BY DEF SendFrame, Lockstep
<1>2. CASE c # d
  <2>1. sent'[c] = sent[c] /\ wire'[c] = wire[c]
    BY <1>1, <1>2 DEF IInv, TypeOK
  <2> QED BY <1>1, <2>1, LockKept DEF AllLock
<1>3. CASE c = d
  <2>1. sent[c] \in 0 .. MaxFrames - 1 /\ sent[c] + 1 \in 1 .. MaxFrames
    BY <1>1, <1>3, FramesAssumption DEF IInv, TypeOK
  <2>2. sent'[c] = sent[c] + 1 /\ wire'[c] = wire[c] \o Frame(sent[c] + 1)
    BY <1>1, <1>3 DEF IInv, TypeOK
  <2>3. Answered(c)
    <3>1. client[c] # "idle" /\ sent[c] \in Int /\ Len(answers[c]) > sent[c]
      BY <1>1, <1>3, <2>1
    <3> QED BY <3>1 DEF AllLock, LockInv, TurnInv, Idle, OnWire, Queued, Answering, Lost, At
  <2>4. wire'[c] = Frame(sent'[c])
    <3>1. Frame(sent[c] + 1) \in Seq(Part)
      BY <2>1, MessageType
    <3>2. wire[c] = <<>>
      BY <2>3 DEF Answered, At
    <3> QED BY <2>2, <3>1, <3>2, ConcatEmptySeq
  <2>5. sent'[c] # 0
    BY <2>1, <2>2
  <2>6. OnWire(c)'
    BY <1>1, <2>2, <2>3, <2>4, <2>5 DEF Answered, OnWire, At, Message
  <2> QED BY <1>1, <1>3, <2>5, <2>6 DEF AllLock, LockInv, TurnInv
<1> QED BY <1>2, <1>3

\* The message arrives in one piece.
LEMMA LockDeliver ==
  ASSUME Lockstep, IInv, AllLock, NEW d \in Conns, Deliver(d)
  PROVE  AllLock'
<1> USE DEF itemVars
<1> SUFFICES ASSUME NEW c \in Conns PROVE LockInv(c)'
  BY DEF AllLock
<1>1. /\ UNCHANGED <<client, sent, rst, answers, sendbuffer, recvbuffer, item, status>>
      /\ inq' = [inq EXCEPT ![d] = @ \o SubSeq(wire[d], 1, Len(wire[d]))]
      /\ wire' = [wire EXCEPT ![d] = SubSeq(@, Len(wire[d]) + 1, Len(@))]
      /\ 1 .. Len(wire[d]) # {}
  BY DEF Deliver, Lockstep
<1>2. CASE c # d
  <2>1. inq'[c] = inq[c] /\ wire'[c] = wire[c]
    BY <1>1, <1>2 DEF IInv, TypeOK
  <2> QED BY <1>1, <2>1, LockKept DEF AllLock
<1>3. CASE c = d
  <2>1. /\ inq'[c] = inq[c] \o SubSeq(wire[c], 1, Len(wire[c]))
        /\ wire'[c] = SubSeq(wire[c], Len(wire[c]) + 1, Len(wire[c]))
    BY <1>1, <1>3 DEF IInv, TypeOK
  <2>2. wire[c] \in Seq(Part) /\ Len(wire[c]) \in Nat
    BY DEF IInv, TypeOK
  <2>3. SubSeq(wire[c], 1, Len(wire[c])) = wire[c]
    BY <2>2, SubSeqFull
  <2>4. wire'[c] = <<>>
    BY <2>1, <2>2, SubSeqEmpty
  <2>5. wire[c] # <<>>
    BY <1>1, <1>3, EmptySeq
  <2>6. OnWire(c) /\ client[c] # "idle"
        /\ ((item[c] = "live" /\ sent[c] = 0) => status[c] = "WS_HANDSHARK")
    BY <2>5 DEF AllLock, LockInv, TurnInv, Idle, Queued, Answering, Answered, Lost, At
  <2>7. inq'[c] = wire[c]
    BY <2>1, <2>2, <2>3, <2>6, ConcatEmptySeq DEF OnWire, At
  <2>8. Queued(c)'
    BY <1>1, <2>4, <2>6, <2>7 DEF OnWire, Queued, At
  <2> QED BY <1>1, <2>6, <2>8 DEF AllLock, LockInv, TurnInv
<1> QED BY <1>2, <1>3

\* The end of the stream, a client that leaves, epoll_wait.
LEMMA LockOutside ==
  ASSUME IInv, AllLock, Wait \/ \E d \in Conns : DeliverEnd(d) \/ CloseConnection(d)
  PROVE  AllLock'
<1> USE DEF itemVars, clientVars, socketVars
<1> SUFFICES ASSUME NEW c \in Conns PROVE LockInv(c)'
  BY DEF AllLock
<1>1. UNCHANGED <<wire, inq, rst, sendbuffer, answers, sent, recvbuffer, item, status>>
  BY DEF Wait, DeliverEnd, CloseConnection
<1>2. client'[c] = client[c] \/ (client[c] # "idle" /\ client'[c] # "idle")
  <2>1. CASE UNCHANGED client
    BY <2>1
  <2>2. ASSUME NEW d \in Conns, CloseConnection(d)
        PROVE  client'[c] = client[c] \/ (client[c] # "idle" /\ client'[c] # "idle")
    BY <2>2 DEF CloseConnection, IInv, TypeOK
  <2> QED BY <2>1, <2>2 DEF Wait, DeliverEnd
<1> QED BY <1>1, <1>2, LockKept DEF AllLock

\* A reset takes what is on the wire.
LEMMA LockReset ==
  ASSUME IInv, AllLock, NEW d \in Conns, ResetConnection(d)
  PROVE  AllLock'
<1> USE DEF itemVars
<1> SUFFICES ASSUME NEW c \in Conns PROVE LockInv(c)'
  BY DEF AllLock
<1>1. /\ UNCHANGED <<sent, inq, answers, sendbuffer, recvbuffer, item, status>>
      /\ client[d] # "idle"
      /\ client' = [client EXCEPT ![d] = "reset"]
      /\ wire' = [wire EXCEPT ![d] = <<>>] /\ rst' = [rst EXCEPT ![d] = TRUE]
  BY DEF ResetConnection
<1>2. CASE c # d
  <2>1. client'[c] = client[c] /\ wire'[c] = wire[c] /\ rst'[c] = rst[c]
    BY <1>1, <1>2 DEF IInv, TypeOK
  <2> QED BY <1>1, <2>1, LockKept DEF AllLock
<1>3. CASE c = d
  <2>1. client'[c] = "reset" /\ wire'[c] = <<>> /\ rst'[c]
    BY <1>1, <1>3 DEF IInv, TypeOK
  <2>2. CASE OnWire(c)
    <3>1. Lost(c)'
      BY <1>1, <2>1, <2>2 DEF OnWire, Lost, At
    <3> QED BY <1>1, <2>1, <3>1 DEF AllLock, LockInv, TurnInv
  <2>3. CASE wire[c] = <<>>
    <3>1. /\ UNCHANGED <<wire[c], inq[c], sendbuffer[c], answers[c], sent[c]>>
          /\ UNCHANGED <<item, status>>
      BY <1>1, <2>1, <2>3
    <3>2. client[c] # "idle" /\ client'[c] # "idle"
      BY <1>1, <1>3, <2>1
    <3> QED BY <2>1, <3>1, <3>2, LockKept DEF AllLock
  <2>4. OnWire(c) \/ wire[c] = <<>>
    BY <1>1, <1>3
       DEF AllLock, LockInv, TurnInv, Idle, Queued, Answering, Answered, Lost, At
  <2> QED BY <2>2, <2>3, <2>4
<1> QED BY <1>2, <1>3

\* accept_cb starts the handshake of a connection that has been answered
\* nothing.
LEMMA LockAccept ==
  ASSUME IInv, AllLock, NEW e \in batch, AcceptCb(e)
  PROVE  AllLock'
<1> USE DEF itemVars, clientVars, socketVars
<1> SUFFICES ASSUME NEW c \in Conns PROVE LockInv(c)'
  BY DEF AllLock
<1>1. /\ UNCHANGED <<wire, inq, rst, sendbuffer, answers, sent, client>>
      /\ \/ UNCHANGED <<item, status>>
         \/ \E d \in Conns : /\ item' = [item EXCEPT ![d] = "live"]
                             /\ status' = [status EXCEPT ![d] = "WS_HANDSHARK"]
  BY DEF AcceptCb, IInv, TypeOK
<1>2. (item'[c] = "live" /\ status'[c] # "WS_HANDSHARK") =>
        (item[c] = "live" /\ status[c] # "WS_HANDSHARK")
  <2>1. CASE UNCHANGED <<item, status>>
    BY <2>1
  <2>2. ASSUME NEW d \in Conns, item' = [item EXCEPT ![d] = "live"],
               status' = [status EXCEPT ![d] = "WS_HANDSHARK"],
               item'[c] = "live", status'[c] # "WS_HANDSHARK"
        PROVE  item[c] = "live" /\ status[c] # "WS_HANDSHARK"
    <3>1. c # d
      BY <2>2 DEF IInv, TypeOK
    <3> QED BY <2>2, <3>1 DEF IInv, TypeOK
  <2> QED BY <1>1, <2>1, <2>2
<1> QED BY <1>1, <1>2, LockKept DEF AllLock

\* recv_cb reads the message whole, and answers it.
LEMMA LockRecvData ==
  ASSUME Lockstep, IInv, AllHand, AllEcho, AllLock,
         NEW d \in Conns, RecvData(d), item[d] = "live",
         callback[d] = "recv_cb", UNCHANGED <<client, sent, wire, answers, rst>>
  PROVE  AllLock'
<1> SUFFICES ASSUME NEW c \in Conns PROVE LockInv(c)'
  BY DEF AllLock
<1> DEFINE m == sent[d]
           n == Count(d)
           buf == Received(d)
<1>1. /\ inq[d] # <<>> /\ UNCHANGED item
      /\ inq' = [inq EXCEPT ![d] = SubSeq(@, n + 1, Len(@))]
      /\ \/ status[d] = "WS_HANDSHARK" /\ KeyAt(buf) # {} /\ Reply(d, Accept(d, buf))
         \/ status[d] = "WS_HANDSHARK" /\ KeyAt(buf) = {}
            /\ recvbuffer' = [recvbuffer EXCEPT ![d] = buf]
         \/ status[d] = "WS_DATATRANSFORM" /\ Reply(d, Echo(buf))
  BY DEF RecvData
<1>2. /\ Queued(d) /\ client[d] # "idle"
      /\ m = 0 => status[d] = "WS_HANDSHARK"
  BY <1>1 DEF AllLock, LockInv, TurnInv, Idle, OnWire, Answering, Answered, Lost, At
<1>3. m \in 0 .. MaxFrames /\ Len(answers[d]) = m /\ inq[d] = Message(m)
  BY <1>2 DEF IInv, TypeOK, Queued, At
<1>4. m # 0 => status[d] = "WS_DATATRANSFORM"
  <2>1. answers[d] \in Seq(Answers)
    BY DEF IInv, TypeOK
  <2>2. m # 0 => answers[d] # <<>>
    BY <1>3, <2>1, EmptySeq
  <2> QED BY <2>2 DEF AllHand, HandInv
<1>5. n = Len(inq[d]) /\ n \in 1 .. 5 /\ inq[d] \in Seq(Part)
  <2>1. Len(inq[d]) \in 1 .. 5 /\ inq[d] \in Seq(Part)
    BY <1>3, MessageFacts
  <2>2. BUFFER_LENGTH \in Nat /\ BUFFER_LENGTH >= 5
    BY BufferAssumption DEF Lockstep
  <2>3. n = Len(inq[d])
    BY <2>1, <2>2, WholeCount DEF Count
  <2> HIDE DEF n
  <2> QED BY <2>1, <2>3
<1> HIDE DEF m
<1>6. PICK behind \in Seq(Buffered) :
        buf = Message(m) \o behind /\ (m # 0 => behind = <<>>)
  <2> DEFINE rest == SubSeq(recvbuffer[d], Len(inq[d]) + 1, Len(recvbuffer[d]))
  <2>1. recvbuffer[d] \in Seq(Buffered) /\ Len(recvbuffer[d]) \in Nat
    BY DEF IInv, TypeOK
  <2>2. rest \in Seq(Buffered)
    BY <1>5, <2>1, PieceType
  <2>3. SubSeq(inq[d], 1, n) = inq[d]
    BY <1>5, SubSeqFull
  <2>4. buf = Message(m) \o rest
    <3> HIDE DEF n
    <3> QED BY <1>3, <1>5, <2>3 DEF Overwrite, Received, n
  <2>5. ASSUME m # 0 PROVE rest = <<>>
    <3>1. recvbuffer[d] = <<>>
      BY <1>4, <2>5 DEF AllEcho, EchoInv
    <3>2. Len(recvbuffer[d]) = 0
      BY <3>1, EmptySeq
    <3> QED BY <1>5, <3>1, <3>2, SubSeqEmpty
  <2> HIDE DEF rest, n, buf
  <2> QED BY <2>2, <2>4, <2>5
<1>7. Reply(d, Due(d, m))
  <2> HIDE DEF buf
  <2>1. CASE m = 0
    <3>1. Accept(d, buf) = Due(d, m) /\ KeyAt(buf) # {}
      BY <1>6, <2>1, WholeRequest DEF Message
    <3> QED BY <1>1, <1>2, <2>1, <3>1
  <2>2. CASE m # 0
    <3>1. m \in 1 .. MaxFrames
      BY <1>3, <2>2, FramesAssumption
    <3>2. buf = Frame(m)
      <4>1. Frame(m) \in Seq(Part)
        BY <3>1, MessageType
      <4> QED BY <1>6, <2>2, <4>1, ConcatEmptySeq DEF Message
    <3>3. Echo(buf) = m
      BY <3>1, <3>2, WholeFrame
    <3> QED BY <1>1, <1>4, <2>2, <3>3 DEF Due
  <2> QED BY <2>1, <2>2
<1> HIDE DEF n, buf
<1>8. CASE c # d
  <2>1. inq'[c] = inq[c]
    BY <1>1, <1>8 DEF IInv, TypeOK
  <2>2. UNCHANGED <<sendbuffer[c], recvbuffer[c], status[c]>>
    BY <1>7, <1>8 DEF Reply, IInv, TypeOK
  <2> QED BY <1>1, <2>1, <2>2, LockKept DEF AllLock
<1>9. CASE c = d
  <2>1. sendbuffer'[c] = <<Due(c, m)>>
    BY <1>7, <1>9 DEF Reply, IInv, TypeOK
  <2>2. inq'[c] = <<>>
    <3>1. inq'[d] = SubSeq(inq[d], n + 1, Len(inq[d]))
      BY <1>1 DEF IInv, TypeOK
    <3> QED BY <1>5, <1>9, <3>1, SubSeqEmpty
  <2>3. Answering(c)'
    BY <1>2, <1>9, <2>1, <2>2 DEF Queued, Answering, At, m
  <2> QED BY <1>2, <1>9, <2>1, <2>3 DEF AllLock, LockInv, TurnInv
<1> QED BY <1>8, <1>9

\* recv_cb, at the end of the stream too.
LEMMA LockRecv ==
  ASSUME Lockstep, IInv, AllHand, AllEcho, AllLock, NEW e \in batch, RecvCb(e)
  PROVE  AllLock'
<1> DEFINE d == e.item
<1>1. /\ d \in Conns /\ item[d] = "live" /\ callback[d] = "recv_cb"
      /\ UNCHANGED <<client, sent, wire, answers, rst>>
  BY DEF RecvCb, IInv, TypeOK, clientVars
<1>2. CASE RecvData(d)
  <2> HIDE DEF d
  <2> QED BY <1>1, <1>2, LockRecvData
<1>3. CASE RecvEnd(d)
  <2> SUFFICES ASSUME NEW c \in Conns PROVE LockInv(c)'
    BY DEF AllLock
  <2>1. /\ UNCHANGED <<inq, status, recvbuffer, sendbuffer>>
        /\ item' = [item EXCEPT ![d] = "freed"]
    BY <1>3 DEF RecvEnd
  <2>2. item'[c] = "live" => item[c] = "live"
    BY <2>1 DEF IInv, TypeOK
  <2> QED BY <1>1, <2>1, <2>2, LockKept DEF AllLock
<1> QED BY <1>2, <1>3 DEF RecvCb

\* send_cb sends the answer, or the connection has been reset.
LEMMA LockSend ==
  ASSUME IInv, AllLock, NEW e \in batch, SendCb(e)
  PROVE  AllLock'
<1> DEFINE d == e.item
<1> USE DEF clientVars, socketVars
<1> SUFFICES ASSUME NEW c \in Conns PROVE LockInv(c)'
  BY DEF AllLock
<1>1. /\ d \in Conns /\ item[d] = "live" /\ callback[d] = "send_cb"
      /\ UNCHANGED <<client, sent, wire, inq, rst, item, status, recvbuffer>>
      /\ sendbuffer' = [sendbuffer EXCEPT ![d] = <<>>]
      /\ IF rst[d] THEN UNCHANGED answers
         ELSE answers' = [answers EXCEPT ![d] = Append(@, IF sendbuffer[d] = <<>> THEN Junk
                                                          ELSE Head(sendbuffer[d]))]
  BY DEF SendCb, IInv, TypeOK
<1>2. CASE c # d
  <2>1. answers \in [Conns -> Seq(Answers)] /\ sendbuffer \in [Conns -> Seq(Answers)]
    BY DEF IInv, TypeOK
  <2>2. sendbuffer'[c] = sendbuffer[c]
    BY <1>1, <1>2, <2>1
  <2>3. answers'[c] = answers[c]
    BY <1>1, <1>2, <2>1
  <2> QED BY <1>1, <2>2, <2>3, LockKept DEF AllLock
<1>3. CASE c = d
  <2>1. Len(sendbuffer[c]) = 1 /\ sendbuffer[c] \in Seq(Answers)
    BY <1>1, <1>3 DEF IInv, LoopInv, CallbackMatches, TypeOK
  <2>2. sendbuffer[c] # <<>> /\ Head(sendbuffer[c]) = sendbuffer[c][1]
    BY <2>1, OneAnswer
  <2>3. Answering(c) /\ client[c] # "idle"
    BY <2>2 DEF AllLock, LockInv, TurnInv, Idle, OnWire, Queued, Answered, Lost, At
  <2>4. sendbuffer[c][1] = Due(c, sent[c]) /\ Len(answers[c]) = sent[c]
    BY <2>3 DEF Answering, At
  <2>5. sendbuffer'[c] = <<>>
    BY <1>1, <1>3 DEF IInv, TypeOK
  <2>6. CASE rst[c]
    <3>1. Lost(c)'
      BY <1>1, <1>3, <2>3, <2>5, <2>6 DEF Answering, Lost, At
    <3> QED BY <1>1, <1>3, <2>3, <2>6, <3>1 DEF AllLock, LockInv, TurnInv
  <2>7. CASE ~rst[c]
    <3> DEFINE due == Due(c, sent[c])
    <3>1. answers[c] \in Seq(Answers) /\ due \in Answers /\ sent[c] \in Nat
      BY FramesAssumption DEF IInv, TypeOK, Answers, Due, WrongKey
    <3>2. answers'[c] = Append(answers[c], due)
      BY <1>1, <1>3, <2>2, <2>4, <2>7 DEF IInv, TypeOK
    <3> HIDE DEF due
    <3>3. /\ Len(answers'[c]) = sent[c] + 1
          /\ \A i \in 1 .. sent[c] : answers'[c][i] = answers[c][i]
          /\ answers'[c][sent[c] + 1] = due
      BY <2>4, <3>1, <3>2, AppendProperties
    <3>4. \A i \in 1 .. sent[c] : answers[c][i] = Due(c, i - 1)
      BY <2>4 DEF AllLock, LockInv
    <3>5. ASSUME NEW i \in 1 .. sent[c] + 1 PROVE answers'[c][i] = Due(c, i - 1)
      <4>1. CASE i \in 1 .. sent[c]
        BY <3>3, <3>4, <4>1
      <4>2. CASE i = sent[c] + 1
        <5>1. i - 1 = sent[c]
          BY <3>1, <4>2
        <5> QED BY <3>3, <4>2, <5>1 DEF due
      <4> QED BY <3>1, <4>1, <4>2
    <3>6. Answered(c)'
      BY <1>1, <2>3, <2>5, <3>3 DEF Answering, Answered, At
    <3> QED BY <1>1, <2>3, <3>3, <3>5, <3>6 DEF AllLock, LockInv, TurnInv
  <2> QED BY <2>6, <2>7
<1> QED BY <1>2, <1>3

\* Every step keeps the turns.
LEMMA NextLock ==
  ASSUME Lockstep PROVE IInv /\ AllHand /\ AllEcho /\ AllLock /\ [Next]_vars => AllLock'
<1> SUFFICES ASSUME IInv, AllHand, AllEcho, AllLock, [Next]_vars PROVE AllLock'
  OBVIOUS
<1>1. CASE UNCHANGED vars
  <2> SUFFICES ASSUME NEW c \in Conns PROVE LockInv(c)'
    BY DEF AllLock
  <2>1. UNCHANGED <<wire, inq, rst, sent, answers, sendbuffer, recvbuffer, item, status, client>>
    BY <1>1 DEF vars, clientVars, socketVars, itemVars
  <2> QED BY <2>1, LockKept DEF AllLock
<1>2. CASE Wait
  BY <1>2, LockOutside
<1>3. ASSUME NEW e \in batch, AcceptCb(e) \/ RecvCb(e) \/ SendCb(e) PROVE AllLock'
  BY <1>3, LockAccept, LockRecv, LockSend
<1>4. ASSUME NEW e \in batch, AcceptNoMemory(e) \/ RecvOverrun(e) PROVE AllLock'
  <2> SUFFICES ASSUME NEW c \in Conns PROVE LockInv(c)'
    BY DEF AllLock
  <2>1. UNCHANGED <<wire, inq, rst, sent, answers, sendbuffer, item, status, client>>
    BY <1>4, DeathChangesNothing DEF clientVars, socketVars, itemVars
  <2> QED BY <2>1, LockKept DEF AllLock
<1>5. ASSUME NEW c \in Conns, \/ NetworkStep(c) \/ Connect(c) \/ SendFrame(c)
                              \/ CloseConnection(c) \/ ResetConnection(c)
      PROVE  AllLock'
  <2>1. CASE DeliverEnd(c) \/ CloseConnection(c)
    BY <2>1, LockOutside
  <2>2. CASE Deliver(c)
    BY <2>2, LockDeliver
  <2>3. CASE Connect(c)
    BY <2>3, LockConnect
  <2>4. CASE SendFrame(c)
    BY <2>4, LockSendFrame
  <2>5. CASE ResetConnection(c)
    BY <2>5, LockReset
  <2> QED BY <1>5, <2>1, <2>2, <2>3, <2>4, <2>5 DEF NetworkStep
<1> QED BY <1>1, <1>2, <1>3, <1>4, <1>5 DEF Next, ServerStep

\* If the client awaits each answer, nothing is cut and the buffer holds the
\* request, then what a connection is answered is the right key (a wrong one
\* if its digest holds a zero byte, and then nothing else) and its frames, one
\* by one, whatever the buffer held before and whatever other connections do.
THEOREM LockstepEchoHolds ==
  ASSUME Lockstep PROVE Spec => []LockstepEcho
<1>1. TypeOK /\ AllLock => LockstepEcho
  <2> SUFFICES ASSUME TypeOK, AllLock, NEW c \in Conns
               PROVE  /\ Len(answers[c]) <= sent[c] + 1
                      /\ \A i \in 1 .. Len(answers[c]) :
                           answers[c][i] = IF i = 1 /\ c \in CutKeys THEN WrongKey ELSE i - 1
    BY DEF LockstepEcho
  <2>1. sent[c] \in Nat
    BY FramesAssumption DEF TypeOK
  <2>2. Len(answers[c]) <= sent[c] + 1
    BY <2>1
       DEF AllLock, LockInv, TurnInv, Idle, OnWire, Queued, Answering, Answered, Lost, At
  <2>3. ASSUME NEW i \in 1 .. Len(answers[c])
        PROVE  answers[c][i] = IF i = 1 /\ c \in CutKeys THEN WrongKey ELSE i - 1
    <3>1. answers[c][i] = Due(c, i - 1)
      BY DEF AllLock, LockInv
    <3>2. i - 1 = 0 <=> i = 1
      OBVIOUS
    <3> QED BY <3>1, <3>2 DEF Due
  <2> QED BY <2>2, <2>3
<1>2. IInv => TypeOK
  BY DEF IInv
<1>3. Spec => []AllHand
  BY InitHand, NextHand, Invariance, PTL DEF Spec
<1>4. Spec => []AllEcho
  BY InitEcho, NextEcho, Invariance, PTL DEF Spec
<1> QED BY <1>1, <1>2, <1>3, <1>4, InitLock, NextLock, Invariance, PTL DEF Spec
-----------------------------------------------------------------------------
(* The bytes of a frame *)

\* The bits of a byte make it up.
LEMMA Bits ==
  ASSUME NEW a \in Bytes!Byte
  PROVE  a = Bytes!Bit(a, 1) + 2 * Bytes!Bit(a, 2) + 4 * Bytes!Bit(a, 4) + 8 * Bytes!Bit(a, 8)
             + 16 * Bytes!Bit(a, 16) + 32 * Bytes!Bit(a, 32) + 64 * Bytes!Bit(a, 64) + 128 * Bytes!Bit(a, 128)
BY DEF Bytes!Byte, Bytes!Bit

\* A bit is 0 or 1.
LEMMA BitType ==
  ASSUME NEW a \in Bytes!Byte, NEW place \in Nat \ {0}
  PROVE  Bytes!Bit(a, place) \in 0 .. 1
<1>1. a \div place \in Int
  BY DEF Bytes!Byte
<1> QED BY <1>1 DEF Bytes!Bit

\* ... and only they do.
LEMMA BitsOf ==
  ASSUME NEW b0 \in 0 .. 1, NEW b1 \in 0 .. 1, NEW b2 \in 0 .. 1, NEW b3 \in 0 .. 1,
         NEW b4 \in 0 .. 1, NEW b5 \in 0 .. 1, NEW b6 \in 0 .. 1, NEW b7 \in 0 .. 1,
         NEW n, n = b0 + 2 * b1 + 4 * b2 + 8 * b3 + 16 * b4 + 32 * b5 + 64 * b6 + 128 * b7
  PROVE  /\ n \in Bytes!Byte
         /\ Bytes!Bit(n, 1) = b0 /\ Bytes!Bit(n, 2) = b1 /\ Bytes!Bit(n, 4) = b2 /\ Bytes!Bit(n, 8) = b3
         /\ Bytes!Bit(n, 16) = b4 /\ Bytes!Bit(n, 32) = b5 /\ Bytes!Bit(n, 64) = b6 /\ Bytes!Bit(n, 128) = b7
BY DEF Bytes!Byte, Bytes!Bit

\* A bit of what C's ^ makes.
Differing(a, b, place) == IF Bytes!Bit(a, place) = Bytes!Bit(b, place) THEN 0 ELSE 1

\* C's ^ works bit by bit.
LEMMA XorBits ==
  ASSUME NEW a \in Bytes!Byte, NEW b \in Bytes!Byte
  PROVE  /\ Bytes!Xor(a, b) \in Bytes!Byte
         /\ \A place \in {1, 2, 4, 8, 16, 32, 64, 128} :
              Bytes!Bit(Bytes!Xor(a, b), place) = Differing(a, b, place)
<1> DEFINE d(place) == Differing(a, b, place)
<1>1. \A place \in {1, 2, 4, 8, 16, 32, 64, 128} :
        d(place) \in 0 .. 1 /\ Bytes!Differ(a, b, place) = place * d(place)
  BY DEF Differing, Bytes!Differ
<1>2. Bytes!Xor(a, b) = d(1) + 2 * d(2) + 4 * d(4) + 8 * d(8)
                  + 16 * d(16) + 32 * d(32) + 64 * d(64) + 128 * d(128)
  <2> HIDE DEF d
  <2> QED BY <1>1 DEF Bytes!Xor
<1>3. /\ Bytes!Xor(a, b) \in Bytes!Byte
      /\ Bytes!Bit(Bytes!Xor(a, b), 1) = d(1) /\ Bytes!Bit(Bytes!Xor(a, b), 2) = d(2)
      /\ Bytes!Bit(Bytes!Xor(a, b), 4) = d(4) /\ Bytes!Bit(Bytes!Xor(a, b), 8) = d(8)
      /\ Bytes!Bit(Bytes!Xor(a, b), 16) = d(16) /\ Bytes!Bit(Bytes!Xor(a, b), 32) = d(32)
      /\ Bytes!Bit(Bytes!Xor(a, b), 64) = d(64) /\ Bytes!Bit(Bytes!Xor(a, b), 128) = d(128)
  <2> HIDE DEF d
  <2> QED BY <1>1, <1>2, BitsOf
<1> QED BY <1>3

\* Masking twice is not masking.
LEMMA XorTwice ==
  ASSUME NEW a \in Bytes!Byte, NEW b \in Bytes!Byte
  PROVE  Bytes!Xor(a, b) \in Bytes!Byte /\ Bytes!Xor(Bytes!Xor(a, b), b) = a
<1> DEFINE c == Bytes!Xor(a, b)
<1>1. c \in Bytes!Byte /\ Bytes!Xor(c, b) \in Bytes!Byte
  BY XorBits
<1>2. ASSUME NEW place \in {1, 2, 4, 8, 16, 32, 64, 128}
      PROVE  Bytes!Bit(Bytes!Xor(c, b), place) = Bytes!Bit(a, place)
  <2>1. Bytes!Bit(a, place) \in 0 .. 1 /\ Bytes!Bit(b, place) \in 0 .. 1
    BY BitType
  <2>2. Bytes!Bit(c, place) = Differing(a, b, place)
    BY XorBits
  <2>3. Bytes!Bit(Bytes!Xor(c, b), place) = Differing(c, b, place)
    BY <1>1, XorBits
  <2> HIDE DEF c
  <2> QED BY <2>1, <2>2, <2>3 DEF Differing
<1> HIDE DEF c
<1>3. Bytes!Xor(c, b) = a
  BY <1>1, <1>2, Bits
<1> QED BY <1>1, <1>3 DEF c

\* A mask has four bytes.
LEMMA LenOfFour ==
  ASSUME NEW s \in [1 .. 4 -> Bytes!Byte]
  PROVE  s \in Seq(Bytes!Byte) /\ Len(s) = 4
<1>1. \A n \in Nat : [1 .. n -> Bytes!Byte] \subseteq Seq(Bytes!Byte)
  OBVIOUS
<1>2. s \in Seq(Bytes!Byte)
  BY <1>1
<1>3. 1 .. 4 = 1 .. Len(s) /\ Len(s) \in Nat
  BY <1>2, LenProperties
<1>4. Len(s) = 4
  <2> DEFINE n == Len(s)
  <2> HIDE DEF n
  <2>1. 1 .. 4 = 1 .. n /\ n \in Nat
    BY <1>3 DEF n
  <2>2. 4 \in 1 .. n /\ 5 \notin 1 .. n
    BY <2>1
  <2> QED BY <2>1, <2>2 DEF n
<1> QED BY <1>2, <1>4

\* What is where in two strings of bytes that are joined.
LEMMA Joined ==
  ASSUME NEW s1 \in Seq(Bytes!Byte), NEW s2 \in Seq(Bytes!Byte)
  PROVE  /\ s1 \o s2 \in Seq(Bytes!Byte) /\ Len(s1 \o s2) = Len(s1) + Len(s2)
         /\ \A i \in 1 .. Len(s1) : (s1 \o s2)[i] = s1[i]
         /\ \A i \in 1 .. Len(s2) : (s1 \o s2)[Len(s1) + i] = s2[i]
<1>1. Len(s1) \in Nat /\ Len(s2) \in Nat
  OBVIOUS
<1>2. s1 \o s2 \in Seq(Bytes!Byte) /\ Len(s1 \o s2) = Len(s1) + Len(s2)
  BY ConcatProperties
<1>3. \A i \in 1 .. Len(s1) + Len(s2) :
        (s1 \o s2)[i] = IF i <= Len(s1) THEN s1[i] ELSE s2[i - Len(s1)]
  BY ConcatProperties
<1>4. \A i \in 1 .. Len(s1) : (s1 \o s2)[i] = s1[i]
  BY <1>1, <1>3
<1>5. ASSUME NEW i \in 1 .. Len(s2) PROVE (s1 \o s2)[Len(s1) + i] = s2[i]
  <2>1. Len(s1) + i \in 1 .. Len(s1) + Len(s2) /\ ~(Len(s1) + i <= Len(s1))
        /\ (Len(s1) + i) - Len(s1) = i
    BY <1>1
  <2> QED BY <1>3, <2>1
<1> QED BY <1>2, <1>4, <1>5

\* The bytes of a header, and what its second byte says of the length.
HeaderSize(n) == IF n < 126 THEN 2 ELSE 4
SevenBits(n) == IF n < 126 THEN n ELSE 126

\* A buffer that begins with a masked frame of n bytes and holds m more.
FrameIn(stream, payload, mask, n, m) ==
  /\ stream \in Seq(Bytes!Byte) /\ Len(stream) = HeaderSize(n) + 4 + n + m
  /\ stream[2] = 128 + SevenBits(n)
  /\ \A i \in 1 .. 4 : stream[HeaderSize(n) + i] = mask[i]
  /\ \A i \in 1 .. n :
       stream[HeaderSize(n) + 4 + i] = Bytes!Xor(payload[i], mask[((i - 1) % 4) + 1])

\* What is found in a masked frame, whatever is behind it in the buffer.
LEMMA FrameBytes ==
  ASSUME NEW payload \in Seq(Bytes!Byte), Len(payload) < 65536,
         NEW mask \in [1 .. 4 -> Bytes!Byte], NEW behind \in Seq(Bytes!Byte)
  PROVE  FrameIn(Bytes!ClientFrame(payload, mask) \o behind, payload, mask, Len(payload), Len(behind))
<1> DEFINE n == Len(payload)
           h == HeaderSize(n)
           masked == Bytes!Umask(payload, 0, n, mask)
           stream == Bytes!ClientFrame(payload, mask) \o behind
<1>1. n \in Nat /\ n < 65536
  OBVIOUS
<1>2. Bytes!Header(n) \in Seq(Bytes!Byte) /\ Len(Bytes!Header(n)) = h
      /\ Bytes!Header(n)[2] = 128 + SevenBits(n)
  <2> HIDE DEF n
  <2>1. CASE n < 126
    <3>1. 129 \in Bytes!Byte /\ 128 + n \in Bytes!Byte
      BY <1>1, <2>1 DEF Bytes!Byte
    <3> QED BY <2>1, <3>1 DEF h, Bytes!Header, HeaderSize, SevenBits
  <2>2. CASE ~(n < 126)
    <3>1. 129 \in Bytes!Byte /\ 128 + 126 \in Bytes!Byte /\ n \div 256 \in Bytes!Byte /\ n % 256 \in Bytes!Byte
      BY <1>1, <2>2 DEF Bytes!Byte
    <3> QED BY <2>2, <3>1 DEF h, Bytes!Header, HeaderSize, SevenBits
  <2> QED BY <2>1, <2>2
<1>3. mask \in Seq(Bytes!Byte) /\ Len(mask) = 4
  BY LenOfFour
<1>4. /\ masked \in Seq(Bytes!Byte) /\ Len(masked) = n
      /\ \A i \in 1 .. n : masked[i] = Bytes!Xor(payload[i], mask[((i - 1) % 4) + 1])
  <2>1. ASSUME NEW i \in 1 .. n
        PROVE  /\ Bytes!ByteAt(payload, 0 + i) = payload[i] /\ payload[i] \in Bytes!Byte
               /\ mask[((i - 1) % 4) + 1] \in Bytes!Byte
    <3>1. ((i - 1) % 4) + 1 \in 1 .. 4
      BY <1>1
    <3> QED BY <3>1 DEF Bytes!ByteAt
  <2>2. masked \in [1 .. n -> Bytes!Byte]
    <3>1. \A i \in 1 .. n : Bytes!Xor(Bytes!ByteAt(payload, 0 + i), mask[((i - 1) % 4) + 1]) \in Bytes!Byte
      BY <2>1, XorTwice
    <3> HIDE DEF n
    <3> QED BY <3>1 DEF Bytes!Umask
  <2>3. \A i \in 1 .. n : masked[i] = Bytes!Xor(payload[i], mask[((i - 1) % 4) + 1])
    BY <2>1 DEF Bytes!Umask
  <2> HIDE DEF masked
  <2>4. masked \in Seq(Bytes!Byte) /\ Len(masked) = n
    BY <1>1, <2>2
  <2> QED BY <2>3, <2>4
<1> HIDE DEF n, h, masked
<1>5. stream = ((Bytes!Header(n) \o mask) \o masked) \o behind
  BY DEF Bytes!ClientFrame, n, masked
<1> HIDE DEF stream
<1>6. h \in Nat /\ h >= 2
  BY DEF h, HeaderSize
<1> DEFINE front == Bytes!Header(n) \o mask
           frame == front \o masked
<1>7. /\ front \in Seq(Bytes!Byte) /\ Len(front) = h + 4
      /\ \A i \in 1 .. h : front[i] = Bytes!Header(n)[i]
      /\ \A i \in 1 .. 4 : front[h + i] = mask[i]
  <2>1. /\ front \in Seq(Bytes!Byte) /\ Len(front) = Len(Bytes!Header(n)) + Len(mask)
        /\ \A i \in 1 .. Len(Bytes!Header(n)) : front[i] = Bytes!Header(n)[i]
        /\ \A i \in 1 .. Len(mask) : front[Len(Bytes!Header(n)) + i] = mask[i]
    <3>1. Bytes!Header(n) \in Seq(Bytes!Byte) /\ mask \in Seq(Bytes!Byte)
      BY <1>2, <1>3
    <3> QED BY ONLY <3>1, Joined
  <2> HIDE DEF front
  <2> QED BY <1>2, <1>3, <2>1
<1> HIDE DEF front
<1>8. /\ frame \in Seq(Bytes!Byte) /\ Len(frame) = h + 4 + n
      /\ \A i \in 1 .. h + 4 : frame[i] = front[i]
      /\ \A i \in 1 .. n : frame[h + 4 + i] = masked[i]
  <2>1. /\ frame \in Seq(Bytes!Byte) /\ Len(frame) = Len(front) + Len(masked)
        /\ \A i \in 1 .. Len(front) : frame[i] = front[i]
        /\ \A i \in 1 .. Len(masked) : frame[Len(front) + i] = masked[i]
    <3>1. front \in Seq(Bytes!Byte) /\ masked \in Seq(Bytes!Byte)
      BY <1>4, <1>7
    <3> QED BY ONLY <3>1, Joined
  <2> HIDE DEF frame
  <2>2. Len(front) = h + 4 /\ Len(masked) = n
    BY <1>4, <1>7
  <2> QED BY ONLY <2>1, <2>2
<1> HIDE DEF frame
<1>9. /\ stream \in Seq(Bytes!Byte) /\ Len(stream) = h + 4 + n + Len(behind)
      /\ \A i \in 1 .. h + 4 + n : stream[i] = frame[i]
  BY <1>5, <1>8, Joined DEF frame, front
<1>10. stream[2] = 128 + SevenBits(n)
  <2>1. 2 \in 1 .. h /\ 2 \in 1 .. h + 4 /\ 2 \in 1 .. h + 4 + n
    BY <1>1, <1>6
  <2>2. stream[2] = Bytes!Header(n)[2]
    BY <1>7, <1>8, <1>9, <2>1
  <2> QED BY <1>2, <2>2
<1>11. ASSUME NEW i \in 1 .. 4 PROVE stream[h + i] = mask[i]
  <2>1. h + i \in 1 .. h + 4 /\ h + i \in 1 .. h + 4 + n
    BY <1>1, <1>6
  <2>2. stream[h + i] = front[h + i]
    BY <1>8, <1>9, <2>1
  <2> QED BY <1>7, <2>2
<1>12. ASSUME NEW i \in 1 .. n PROVE stream[h + 4 + i] = masked[i]
  <2>1. h + 4 + i \in 1 .. h + 4 + n
    BY <1>1, <1>6
  <2> QED BY <1>8, <1>9, <2>1
<1>13. FrameIn(stream, payload, mask, n, Len(behind))
  BY <1>4, <1>9, <1>10, <1>11, <1>12 DEF FrameIn, h
<1> QED BY <1>13 DEF n, stream

\* decode_packet takes its length from the second byte, without its highest
\* bit, the mask from the four bytes that follow, and the data from byte 7 on.
LEMMA Decoded ==
  ASSUME NEW stream \in Seq(Bytes!Byte), Len(stream) >= 2, NEW k \in 0 .. 127, stream[2] = 128 + k
  PROVE  Bytes!DecodePacket(stream) =
           Bytes!Umask(stream, 6, k, [i \in 1 .. 4 |-> Bytes!ByteAt(stream, 2 + i)])
<1>1. Bytes!ByteAt(stream, 2) = 128 + k
  BY DEF Bytes!ByteAt
<1>2. Bytes!ByteAt(stream, 2) \div 128 = 1 /\ Bytes!ByteAt(stream, 2) % 128 = k
  BY <1>1
<1>3. (CASE Bytes!ByteAt(stream, 2) \div 128 = 126 -> 2 [] Bytes!ByteAt(stream, 2) \div 128 = 127 -> 8
       [] OTHER -> 0) = 0
  BY <1>2
<1> QED BY <1>2, <1>3 DEF Bytes!DecodePacket

\* What the browser makes of an answer of encode_packet.
LEMMA Encoded ==
  ASSUME NEW data \in Seq(Bytes!Byte)
  PROVE  /\ Len(data) < 126 => /\ Bytes!Message(Bytes!EncodePacket(data)) = data
                               /\ Bytes!Rest(Bytes!EncodePacket(data)) = <<>>
         /\ Len(data) >= 126 => Bytes!Rest(Bytes!EncodePacket(data)) # <<>>
<1> DEFINE size == IF Len(data) < 126 THEN Len(data) ELSE 0
           head == <<129, size>>
           answer == head \o data
<1>1. Len(data) \in Nat /\ size \in 0 .. 125
  <2>1. Len(data) \in Nat
    BY LenProperties
  <2> DEFINE n == Len(data)
  <2> HIDE DEF n
  <2>2. n \in Nat
    BY <2>1 DEF n
  <2>3. (IF n < 126 THEN n ELSE 0) \in 0 .. 125
    BY <2>2
  <2> QED BY <2>1, <2>3 DEF n
<1> HIDE DEF size
<1>2. head \in Seq(Bytes!Byte) /\ Len(head) = 2 /\ head[2] = size
  BY <1>1 DEF Bytes!Byte
<1> HIDE DEF head
<1>3. /\ answer \in Seq(Bytes!Byte) /\ Len(answer) = 2 + Len(data)
      /\ \A i \in 1 .. 2 : answer[i] = head[i]
      /\ \A i \in 1 .. Len(data) : answer[2 + i] = data[i]
  <2>1. /\ answer \in Seq(Bytes!Byte) /\ Len(answer) = Len(head) + Len(data)
        /\ \A i \in 1 .. Len(head) : answer[i] = head[i]
        /\ \A i \in 1 .. Len(data) : answer[Len(head) + i] = data[i]
    <3>1. head \in Seq(Bytes!Byte)
      BY <1>2
    <3> QED BY ONLY <3>1, data \in Seq(Bytes!Byte), Joined
  <2> HIDE DEF answer
  <2> QED BY <1>2, <2>1
<1>4. Bytes!EncodePacket(data) = answer
  BY DEF Bytes!EncodePacket, answer, head, size
<1> HIDE DEF answer
<1>5. answer[2] % 128 = size
  <2>1. answer[2] = size
    BY <1>2, <1>3
  <2> QED BY <1>1, <2>1
<1>6. Bytes!Message(answer) = SubSeq(answer, 3, 2 + size) /\ Bytes!Rest(answer) = SubSeq(answer, 3 + size, Len(answer))
  BY <1>5 DEF Bytes!Message, Bytes!Rest
<1>7. ASSUME Len(data) < 126
      PROVE  Bytes!Message(answer) = data /\ Bytes!Rest(answer) = <<>>
  <2>1. size = Len(data) /\ Len(answer) = 2 + size
    BY <1>3, <1>7 DEF size
  <2>2. Bytes!Rest(answer) = <<>>
    BY <1>1, <1>3, <1>6, <2>1, SubSeqEmpty
  <2>3. 3 \in 1 .. Len(answer) + 1 /\ 2 + size \in 3 - 1 .. Len(answer)
    BY <1>1, <2>1
  <2>4. /\ SubSeq(answer, 3, 2 + size) \in Seq(Bytes!Byte)
        /\ Len(SubSeq(answer, 3, 2 + size)) = size
        /\ \A i \in 1 .. size : SubSeq(answer, 3, 2 + size)[i] = answer[2 + i]
    BY <1>1, <1>3, <2>3, SubSeqProperties
  <2>5. SubSeq(answer, 3, 2 + size) = data
    BY <1>3, <2>1, <2>4, SeqEqual
  <2> QED BY <1>6, <2>2, <2>5
<1>8. ASSUME Len(data) >= 126
      PROVE  Bytes!Rest(answer) # <<>>
  <2>1. size = 0
    BY <1>1, <1>8 DEF size
  <2>2. Len(SubSeq(answer, 3, Len(answer))) = Len(data)
    BY <1>1, <1>3, SubSeqProperties
  <2> QED BY <1>1, <1>6, <1>8, <2>1, <2>2, EmptySeq
<1> QED BY <1>4, <1>7, <1>8

\* transform echoes a short frame, and no long one, whatever the mask and
\* whatever is behind it in the buffer.
LEMMA AnswerToFrame ==
  ASSUME NEW payload \in Seq(Bytes!Byte), Len(payload) < 65536,
         NEW mask \in [1 .. 4 -> Bytes!Byte], NEW behind \in Seq(Bytes!Byte)
  PROVE  LET answer == Bytes!Answer(payload, mask, behind)
         IN  (Bytes!Message(answer) = payload /\ Bytes!Rest(answer) = <<>>) <=> Len(payload) < 126
<1> DEFINE n == Len(payload)
           h == HeaderSize(n)
           stream == Bytes!ClientFrame(payload, mask) \o behind
           k == SevenBits(n)
           key == [i \in 1 .. 4 |-> Bytes!ByteAt(stream, 2 + i)]
           data == Bytes!DecodePacket(stream)
<1>1. n \in Nat /\ Len(behind) \in Nat /\ k \in 0 .. 126 /\ h \in {2, 4}
  <2>1. n \in Nat /\ Len(behind) \in Nat
    BY LenProperties
  <2> HIDE DEF n
  <2> QED BY <2>1 DEF HeaderSize, SevenBits
<1>2. FrameIn(stream, payload, mask, n, Len(behind))
  BY FrameBytes
<1>3. Bytes!Answer(payload, mask, behind) = Bytes!EncodePacket(data)
  BY DEF Bytes!Answer
<1> HIDE DEF n, stream
<1>4. /\ stream \in Seq(Bytes!Byte) /\ Len(stream) = h + 4 + n + Len(behind)
      /\ stream[2] = 128 + k
      /\ \A i \in 1 .. 4 : stream[h + i] = mask[i]
      /\ \A i \in 1 .. n : stream[h + 4 + i] = Bytes!Xor(payload[i], mask[((i - 1) % 4) + 1])
  BY <1>2 DEF FrameIn
<1> HIDE DEF h, k
<1>5. Len(stream) >= 6 /\ Len(stream) \in Nat
  BY <1>1, <1>4
<1>6. data = Bytes!Umask(stream, 6, k, key)
  <2>1. k \in 0 .. 127 /\ Len(stream) >= 2
    BY <1>1, <1>5
  <2>2. stream \in Seq(Bytes!Byte) /\ stream[2] = 128 + k
    BY <1>4
  <2> QED BY ONLY <2>1, <2>2, Decoded DEF data, key
<1> HIDE DEF data
<1>7. ASSUME NEW i \in Nat \ {0} PROVE Bytes!ByteAt(stream, i) \in Bytes!Byte
  <2>1. i <= Len(stream) => stream[i] \in Bytes!Byte
    BY <1>4, <1>5, ElementOfSeq
  <2> QED BY <2>1 DEF Bytes!ByteAt, Bytes!Byte
<1>8. key \in [1 .. 4 -> Bytes!Byte]
  BY <1>7
<1>9. data \in Seq(Bytes!Byte) /\ Len(data) = k
  <2>1. \A i \in 1 .. k : ((i - 1) % 4) + 1 \in 1 .. 4
    BY <1>1
  <2>2. \A i \in 1 .. k : Bytes!Xor(Bytes!ByteAt(stream, 6 + i), key[((i - 1) % 4) + 1]) \in Bytes!Byte
    <3> HIDE DEF key
    <3> QED BY <1>1, <1>7, <1>8, <2>1, XorTwice
  <2>3. data \in [1 .. k -> Bytes!Byte]
    <3> HIDE DEF key
    <3> QED BY <1>6, <2>2 DEF Bytes!Umask
  <2> QED BY <1>1, <2>3
<1>10. CASE n < 126
  <2>1. h = 2 /\ k = n
    BY <1>10 DEF h, k, HeaderSize, SevenBits
  <2>2. ASSUME NEW i \in 1 .. 4 PROVE key[i] = mask[i]
    BY <1>4, <1>5, <2>1 DEF Bytes!ByteAt
  <2>3. ASSUME NEW i \in 1 .. n PROVE data[i] = payload[i]
    <3> DEFINE b == mask[((i - 1) % 4) + 1]
    <3>1. ((i - 1) % 4) + 1 \in 1 .. 4
      BY <1>1
    <3>2. key[((i - 1) % 4) + 1] = b /\ b \in Bytes!Byte
      BY <2>2, <3>1
    <3>3. 6 + i <= Len(stream)
      BY <1>1, <1>4, <2>1
    <3>4. Bytes!ByteAt(stream, 6 + i) = Bytes!Xor(payload[i], b)
      BY <1>4, <2>1, <3>3 DEF Bytes!ByteAt
    <3>5. payload[i] \in Bytes!Byte
      BY ElementOfSeq DEF n
    <3> HIDE DEF b, key
    <3>6. data[i] = Bytes!Xor(Bytes!ByteAt(stream, 6 + i), key[((i - 1) % 4) + 1])
      BY <1>6, <2>1 DEF Bytes!Umask
    <3> QED BY <3>2, <3>4, <3>5, <3>6, XorTwice
  <2>4. data = payload
    BY <1>9, <2>1, <2>3, SeqEqual DEF n
  <2> QED BY <1>3, <1>10, <2>4, Encoded DEF n
<1>11. CASE ~(n < 126)
  <2>1. Len(data) >= 126
    BY <1>9, <1>11 DEF k, SevenBits
  <2> QED BY <1>3, <1>9, <1>11, <2>1, Encoded DEF n
<1> QED BY <1>10, <1>11

\* For all payloads and masks that RFC 6455 allows in a frame with a length of
\* seven or sixteen bits: what transform answers has the payload, whatever the
\* mask and whatever is behind the frame, if and only if it is less than 126
\* bytes long. That every echo stands for one is what this says of WebSocket.
THEOREM EchoHasPayloadHolds == Spec => []EchoHasPayload
<1>1. ASSUME NEW payload \in Payloads, NEW behind \in Payloads, NEW mask \in Masks
      PROVE  LET answer == Bytes!Answer(payload, mask, behind)
             IN  (Bytes!Message(answer) = payload /\ Bytes!Rest(answer) = <<>>)
                   <=> Len(payload) < 126
  <2>1. /\ payload \in Seq(Bytes!Byte) /\ Len(payload) < 65536
        /\ behind \in Seq(Bytes!Byte) /\ mask \in [1 .. 4 -> Bytes!Byte]
    BY PayloadsAssumption, MasksAssumption DEF Bytes!Byte
  <2> QED BY <2>1, AnswerToFrame
<1>2. EchoHasPayload
  BY <1>1 DEF EchoHasPayload, Bytes!FrameEchoed
<1> QED BY <1>2, PTL
=============================================================================
