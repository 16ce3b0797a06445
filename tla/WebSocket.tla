----------------------------- MODULE WebSocket -----------------------------
(***************************************************************************)
(* epoll_websocket/epoll_websocket.c: an event loop (struct reactor) over  *)
(* one struct sockitem per connection. An item holds the callback that the *)
(* loop calls for the next event of its descriptor; recv_cb, send_cb and   *)
(* the functions they call replace the callback and the events epoll       *)
(* watches for together.                                                   *)
(*                                                                         *)
(* Connections are edge-triggered, the listening socket level-triggered. A *)
(* connection is a byte stream, cut where the network likes: it is modelled *)
(* as a sequence of parts, and a recv returns the parts that have arrived. *)
(* Message 0 is the request for the handshake, message n > 0 the client's  *)
(* n-th frame (of less than 126 bytes: decode_packet reads no other).      *)
(***************************************************************************)
EXTENDS Integers, Sequences, FiniteSets

CONSTANTS Conns,          (* connections that clients may open             *)
          Listen,         (* the item of the listening socket              *)
          MaxConns,       (* descriptors the process has for connections   *)
          MaxEvents,      (* the length of reactor.events                  *)
          BUFFER_LENGTH,  (* parts that fit in recvbuffer                  *)
          MaxFrames,      (* bound: frames a client sends                  *)
          Pipelining,     (* clients send frames without awaiting the echo *)
          Splitting,      (* the network cuts what a client sends          *)
          CutKeys,        (* clients whose key has a digest with a zero byte *)
          LongLines,      (* ... that send a line too long for linebuf      *)
          Payloads,       (* what frames may carry, see WebSocketFrame     *)
          Masks           (* ... and their masks                           *)

ASSUME ListenAssumption == Listen \notin Conns
ASSUME ConnsAssumption == MaxConns \in Nat /\ MaxEvents \in Nat \ {0}
ASSUME BufferAssumption == BUFFER_LENGTH \in Nat \ {0}
ASSUME FramesAssumption == MaxFrames \in Nat
ASSUME FlagsAssumption == Pipelining \in BOOLEAN /\ Splitting \in BOOLEAN
ASSUME ClientsAssumption == CutKeys \subseteq Conns /\ LongLines \subseteq Conns
ASSUME PayloadsAssumption ==
  \A payload \in Payloads : payload \in Seq(0 .. 255) /\ Len(payload) < 65536
ASSUME MasksAssumption == \A mask \in Masks : mask \in [1 .. 4 -> 0 .. 255]

VARIABLES
  client,      \* what each client has done: "idle", "open", "closed", "reset"
  sent,        \* frames it has sent
  wire,        \* parts on their way to the server
  answers,     \* what the server has sent back
  backlog,     \* connections that wait for accept
  inq,         \* parts in the receive queue of each connection's socket
  fin,         \* the client's end of stream has arrived
  rst,         \* the connection has been reset
  err,         \* ... and its socket has an error that no call has returned
  watch,       \* the event epoll watches for, "none" if not registered
  edge,        \* the descriptor is in epoll's list of ready ones
  item,        \* the sockitem: "none", "live" or "freed"
  callback,    \* item->callback
  status,      \* item->status
  recvbuffer,  \* item->recvbuffer, as far as it has parts of messages
  sendbuffer,  \* item->sendbuffer: the answer to send, <<>> when it is zero
  batch,       \* events the loop over events[] has still to look at
  alive        \* the process runs

clientVars == <<client, sent, wire>>
socketVars == <<inq, fin, rst, err>>
epollVars == <<watch, edge>>
itemVars == <<item, callback, status, recvbuffer, sendbuffer>>
vars == <<clientVars, answers, backlog, socketVars, epollVars, itemVars, batch, alive>>

-----------------------------------------------------------------------------
(* Messages and answers *)

Part == [msg : 0 .. MaxFrames, no : 1 .. 5]

\* The request: lines before the key, the two halves of the label
\* Sec-WebSocket-Key (the value begins in the second), the end of its value
\* and its line, the lines that follow and the empty line.
Request == [i \in 1 .. 5 |-> [msg |-> 0, no |-> i]]

\* A frame: its header with the mask, and its payload.
Frame(n) == [i \in 1 .. 2 |-> [msg |-> n, no |-> i]]

\* Answers: 101 with the right key, 101 with a wrong one, a frame that is no
\* echo; n > 0 is the echo of frame n.
Switching == 0
WrongKey == -1
Junk == -2
Answers == -2 .. MaxFrames

\* malloc does not clear recvbuffer: there may be a request, or as much of one
\* as fits, that an item freed long ago has read.
Stale == [msg : {-1}, no : 1 .. 5]
OldRequest == [i \in 1 .. (IF BUFFER_LENGTH < 5 THEN BUFFER_LENGTH ELSE 5) |->
                 [msg |-> -1, no |-> i]]
Leftovers == {<<>>, OldRequest}
Buffered == Part \cup Stale

\* handshark reads line by line, no further than the empty line, and finds
\* the label where both halves of it are side by side, old or new.
ReadTo(buf, i) == \A j \in 1 .. i - 1 : buf[j].no # 5
KeyAt(buf) == {i \in 1 .. Len(buf) - 1 :
                 /\ ReadTo(buf, i) /\ buf[i].msg <= 0 /\ buf[i + 1].msg <= 0
                 /\ buf[i].no = 2 /\ buf[i + 1].no = 3}

\* The key is what follows the first label up to the end of the line, or of
\* the buffer. Its digest is encoded up to the first zero byte (strlen).
Accept(c, buf) ==
  IF /\ c \notin CutKeys
     /\ \E i \in KeyAt(buf) : /\ \A j \in KeyAt(buf) : i <= j
                              /\ i + 2 <= Len(buf)
                              /\ buf[i + 1] = Request[3] /\ buf[i + 2] = Request[4]
  THEN Switching ELSE WrongKey

\* readline copies a line to linebuf, of 256 bytes, however long it is: one
\* before the key of the client's, or one that runs on into old bytes.
Overruns(c, buf) ==
  \E i \in 1 .. Len(buf) :
    /\ ReadTo(buf, i) /\ \A j \in KeyAt(buf) : i <= j + 2
    /\ buf[i].msg = -1 \/ (c \in LongLines /\ buf[i] = Request[1])

\* decode_packet takes the start of the buffer for a header, and what follows
\* for the payload, as far as the header says; the rest is never looked at.
Echo(buf) ==
  IF /\ Len(buf) >= 2 /\ buf[1].msg > 0
     /\ buf[1] = Frame(buf[1].msg)[1] /\ buf[2] = Frame(buf[1].msg)[2]
  THEN buf[1].msg ELSE Junk

\* The bytes of frames.
Bytes == INSTANCE WebSocketFrame

-----------------------------------------------------------------------------

\* The listening socket is registered before the loop starts.
Init ==
  /\ client = [c \in Conns |-> "idle"] /\ sent = [c \in Conns |-> 0]
  /\ wire = [c \in Conns |-> <<>>] /\ answers = [c \in Conns |-> <<>>]
  /\ backlog = {} /\ inq = [c \in Conns |-> <<>>]
  /\ fin = [c \in Conns |-> FALSE] /\ rst = [c \in Conns |-> FALSE]
  /\ err = [c \in Conns |-> FALSE]
  /\ watch = [c \in Conns |-> "none"] /\ edge = [c \in Conns |-> FALSE]
  /\ item = [c \in Conns |-> "none"] /\ callback = [c \in Conns |-> "none"]
  /\ status = [c \in Conns |-> "none"]
  /\ recvbuffer = [c \in Conns |-> <<>>] /\ sendbuffer = [c \in Conns |-> <<>>]
  /\ batch = {} /\ alive = TRUE

-----------------------------------------------------------------------------
(* Clients and the network *)

\* An arrival wakes epoll if it watches for input.
Arrival(c) == edge' = [edge EXCEPT ![c] = @ \/ watch[c] = "IN"]

\* connect, and the request.
Connect(c) ==
  /\ alive /\ client[c] = "idle"
  /\ client' = [client EXCEPT ![c] = "open"]
  /\ wire' = [wire EXCEPT ![c] = Request]
  /\ backlog' = backlog \cup {c}
  /\ UNCHANGED <<sent, answers, socketVars, epollVars, itemVars, batch, alive>>

\* ws.send: once the connection is open, and, without Pipelining, not before
\* the answer to the last frame has come.
SendFrame(c) ==
  /\ alive /\ client[c] = "open" /\ sent[c] < MaxFrames
  /\ answers[c] # <<>> /\ Head(answers[c]) = Switching
  /\ Pipelining \/ Len(answers[c]) > sent[c]
  /\ sent' = [sent EXCEPT ![c] = @ + 1]
  /\ wire' = [wire EXCEPT ![c] = @ \o Frame(sent[c] + 1)]
  /\ UNCHANGED <<client, answers, backlog, socketVars, epollVars, itemVars, batch, alive>>

CloseConnection(c) ==
  /\ alive /\ client[c] = "open"
  /\ client' = [client EXCEPT ![c] = "closed"]
  /\ UNCHANGED <<sent, wire, answers, backlog, socketVars, epollVars, itemVars, batch, alive>>

\* The next parts arrive.
Deliver(c) ==
  /\ alive
  /\ \E n \in 1 .. Len(wire[c]) :
       /\ Splitting \/ n = Len(wire[c])
       /\ inq' = [inq EXCEPT ![c] = @ \o SubSeq(wire[c], 1, n)]
       /\ wire' = [wire EXCEPT ![c] = SubSeq(@, n + 1, Len(@))]
  /\ Arrival(c)
  /\ UNCHANGED <<client, sent, answers, backlog, fin, rst, err, watch, itemVars, batch, alive>>

\* After the last part, the end of the stream.
DeliverEnd(c) ==
  /\ alive /\ client[c] = "closed" /\ wire[c] = <<>> /\ ~fin[c]
  /\ fin' = [fin EXCEPT ![c] = TRUE]
  /\ Arrival(c)
  /\ UNCHANGED <<clientVars, answers, backlog, inq, rst, err, watch, itemVars, batch, alive>>

\* The client's host resets the connection: it aborts, or is sent something
\* after it has closed. The error is ECONNRESET, and EPIPE if the end of the
\* stream came first; send raises SIGPIPE for that, and when it was returned
\* before.
ResetConnection(c) ==
  /\ alive /\ client[c] \in {"open", "closed"} /\ item[c] # "freed"
  /\ client' = [client EXCEPT ![c] = "reset"]
  /\ wire' = [wire EXCEPT ![c] = <<>>]
  /\ rst' = [rst EXCEPT ![c] = TRUE]
  /\ err' = [err EXCEPT ![c] = ~fin[c]]
  /\ Arrival(c)
  /\ UNCHANGED <<sent, answers, backlog, inq, fin, watch, itemVars, batch, alive>>

-----------------------------------------------------------------------------
(* epoll *)

Readable(c) == inq[c] # <<>> \/ fin[c] \/ rst[c]

\* Events that hold of c among those watched for. A socket is writable: an
\* answer is small and is read before the next is made.
Poll(c) == {w \in {watch[c]} \ {"none"} : w = "IN" => Readable(c)}

Ready == {c \in Conns : edge[c] /\ Poll(c) # {}} \cup (IF backlog # {} THEN {Listen} ELSE {})

\* EPOLL_CTL_ADD and EPOLL_CTL_MOD look at the descriptor at once.
Watch(c, event) ==
  /\ watch' = [watch EXCEPT ![c] = event]
  /\ edge' = [edge EXCEPT ![c] = event = "OUT" \/ Readable(c)]

\* epoll_wait: some of the ready ones, each once.
Wait ==
  /\ alive /\ batch = {}
  /\ \E some \in SUBSET Ready \ {{}} :
       /\ Cardinality(some) <= MaxEvents
       /\ batch' = {[item |-> i, events |-> IF i = Listen THEN {"IN"} ELSE Poll(i)] : i \in some}
       /\ edge' = [c \in Conns |-> edge[c] /\ c \notin some]
  /\ UNCHANGED <<clientVars, answers, backlog, socketVars, watch, itemVars, alive>>

\* The loop over events[] calls the item's callback for EPOLLIN, then again
\* for EPOLLOUT: what is left of event e is put back for the second call.
Dispatch(e) ==
  /\ alive /\ e \in batch
  /\ batch' = (batch \ {e}) \cup
              (IF e.events = {"IN", "OUT"} THEN {[e EXCEPT !.events = {"OUT"}]} ELSE {})

-----------------------------------------------------------------------------
(* The callbacks *)

\* Undefined behaviour or a signal that nobody handles ends the process.
Dies ==
  /\ alive' = FALSE
  /\ UNCHANGED <<clientVars, answers, backlog, socketVars, epollVars, itemVars, batch>>

Descriptors == {c \in Conns : item[c] = "live"}

\* Fault: accept_cb does not set the status, and malloc returns the memory
\* of an item whose handshake was over.
AcceptWithOldStatus(e) ==
  /\ e.item = Listen
  /\ Dispatch(e)
  /\ \E c \in backlog :
       /\ backlog' = backlog \ {c}
       /\ item' = [item EXCEPT ![c] = "live"]
       /\ callback' = [callback EXCEPT ![c] = "recv_cb"]
       /\ status' = [status EXCEPT ![c] = "WS_DATATRANSFORM"]
       /\ Watch(c, "IN")
  /\ UNCHANGED <<clientVars, answers, socketVars, recvbuffer, sendbuffer, alive>>

\* accept_cb takes a connection: one is waiting, and there is a descriptor.
CanAccept == backlog # {} /\ Cardinality(Descriptors) < MaxConns

\* accept_cb: one connection; if (clientfd <= 0) return -1. The memory of the
\* item is as malloc returns it; what is in sendbuffer is never sent.
AcceptCb(e) ==
  /\ e.item = Listen
  /\ Dispatch(e)
  /\ IF ~CanAccept
     THEN UNCHANGED <<backlog, epollVars, itemVars>>
     ELSE \E c \in backlog :
            /\ backlog' = backlog \ {c}
            /\ item' = [item EXCEPT ![c] = "live"]
            /\ callback' = [callback EXCEPT ![c] = "recv_cb"]
            /\ status' = [status EXCEPT ![c] = "WS_HANDSHARK"]
            /\ \E old \in Leftovers : recvbuffer' = [recvbuffer EXCEPT ![c] = old]
            /\ Watch(c, "IN")
            /\ UNCHANGED sendbuffer
  /\ UNCHANGED <<clientVars, answers, socketVars, alive>>

\* malloc fails and its result is not looked at.
AcceptNoMemory(e) == alive /\ e.item = Listen /\ CanAccept /\ Dies

\* Fault: EPOLL_CTL_MOD is forgotten.
ReplyUnwatched(c, answer) ==
  /\ recvbuffer' = [recvbuffer EXCEPT ![c] = <<>>]
  /\ sendbuffer' = [sendbuffer EXCEPT ![c] = <<answer>>]
  /\ callback' = [callback EXCEPT ![c] = "send_cb"]
  /\ status' = [status EXCEPT ![c] = "WS_DATATRANSFORM"]
  /\ UNCHANGED epollVars

\* What handshark and transform end with: the answer is put in sendbuffer,
\* recvbuffer is cleared, and send_cb waits for EPOLLOUT.
Reply(c, answer) ==
  /\ recvbuffer' = [recvbuffer EXCEPT ![c] = <<>>]
  /\ sendbuffer' = [sendbuffer EXCEPT ![c] = <<answer>>]
  /\ callback' = [callback EXCEPT ![c] = "send_cb"]
  /\ status' = [status EXCEPT ![c] = "WS_DATATRANSFORM"]
  /\ Watch(c, "OUT")

\* recv writes from the start of recvbuffer.
Overwrite(buf, got) == got \o SubSeq(buf, Len(got) + 1, Len(buf))

\* How much recv_cb takes, and what is in recvbuffer then.
Count(c) == IF Len(inq[c]) < BUFFER_LENGTH THEN Len(inq[c]) ELSE BUFFER_LENGTH
Received(c) == Overwrite(recvbuffer[c], SubSeq(inq[c], 1, Count(c)))

\* recv_cb, ret > 0. Without the key, handshark leaves everything as it is.
RecvData(c) ==
  /\ inq[c] # <<>>
  /\ inq' = [inq EXCEPT ![c] = SubSeq(@, Count(c) + 1, Len(@))]
  /\ \/ status[c] = "WS_HANDSHARK" /\ KeyAt(Received(c)) # {} /\ Reply(c, Accept(c, Received(c)))
     \/ /\ status[c] = "WS_HANDSHARK" /\ KeyAt(Received(c)) = {}
        /\ recvbuffer' = [recvbuffer EXCEPT ![c] = Received(c)]
        /\ UNCHANGED <<callback, status, sendbuffer, epollVars>>
     \/ status[c] = "WS_DATATRANSFORM" /\ Reply(c, Echo(Received(c)))
  /\ UNCHANGED item

\* Fault: the item is freed, the descriptor left open and registered.
FreeOnly(c) ==
  /\ inq[c] = <<>> /\ (fin[c] \/ rst[c])
  /\ item' = [item EXCEPT ![c] = "freed"]
  /\ UNCHANGED <<inq, epollVars, callback, status, recvbuffer, sendbuffer>>

\* recv_cb, ret = 0 or an error: EPOLL_CTL_DEL, close, free.
RecvEnd(c) ==
  /\ inq[c] = <<>> /\ (fin[c] \/ rst[c])
  /\ watch' = [watch EXCEPT ![c] = "none"]
  /\ edge' = [edge EXCEPT ![c] = FALSE]
  /\ item' = [item EXCEPT ![c] = "freed"]
  /\ UNCHANGED <<inq, callback, status, recvbuffer, sendbuffer>>

\* EAGAIN does not come up: epoll_wait reports what is readable, and nobody
\* else reads.
RecvCb(e) ==
  /\ e.item # Listen /\ item[e.item] = "live" /\ callback[e.item] = "recv_cb"
  /\ Dispatch(e)
  /\ RecvData(e.item) \/ RecvEnd(e.item)
  /\ UNCHANGED <<clientVars, answers, backlog, fin, rst, err, alive>>

\* A line longer than linebuf: what it overwrites may end the process (or do
\* no harm: then handshark goes on as in RecvData).
RecvOverrun(e) ==
  /\ alive /\ e.item # Listen /\ item[e.item] = "live" /\ callback[e.item] = "recv_cb"
  /\ status[e.item] = "WS_HANDSHARK" /\ inq[e.item] # <<>>
  /\ Overruns(e.item, Received(e.item))
  /\ Dies

\* Fault: after a short send the whole of sendbuffer is sent again.
SendAgain(e) ==
  LET c == e.item IN
  /\ c # Listen /\ item[c] = "live" /\ callback[c] = "send_cb"
  /\ Dispatch(e)
  /\ answers' = [answers EXCEPT ![c] = @ \o sendbuffer[c] \o sendbuffer[c]]
  /\ callback' = [callback EXCEPT ![c] = "recv_cb"]
  /\ sendbuffer' = [sendbuffer EXCEPT ![c] = <<>>]
  /\ Watch(c, "IN")
  /\ UNCHANGED <<clientVars, backlog, socketVars, item, status, recvbuffer, alive>>

\* Fault: send_cb puts recv_cb back without EPOLL_CTL_MOD.
SendUnwatched(e) ==
  LET c == e.item IN
  /\ c # Listen /\ item[c] = "live" /\ callback[c] = "send_cb"
  /\ Dispatch(e)
  /\ answers' = [answers EXCEPT ![c] = Append(@, Head(sendbuffer[c]))]
  /\ callback' = [callback EXCEPT ![c] = "recv_cb"]
  /\ sendbuffer' = [sendbuffer EXCEPT ![c] = <<>>]
  /\ UNCHANGED <<clientVars, backlog, socketVars, epollVars, item, status, recvbuffer, alive>>

\* send_cb: send, whose result is not looked at. On a connection that has
\* been reset it fails; it returns the socket's error if there is one, and
\* raises SIGPIPE if there is none left, which nobody handles.
SendCb(e) ==
  LET c == e.item IN
  /\ c # Listen /\ item[c] = "live" /\ callback[c] = "send_cb"
  /\ Dispatch(e)
  /\ IF rst[c] THEN UNCHANGED answers
     ELSE answers' = [answers EXCEPT ![c] = Append(@, IF sendbuffer[c] = <<>> THEN Junk
                                                      ELSE Head(sendbuffer[c]))]
  /\ alive' = ~(rst[c] /\ ~err[c])
  /\ err' = [err EXCEPT ![c] = FALSE]
  /\ callback' = [callback EXCEPT ![c] = "recv_cb"]
  /\ sendbuffer' = [sendbuffer EXCEPT ![c] = <<>>]
  /\ Watch(c, "IN")
  /\ UNCHANGED <<clientVars, backlog, inq, fin, rst, item, status, recvbuffer>>

-----------------------------------------------------------------------------

ServerStep ==
  \/ Wait
  \/ \E e \in batch : \/ AcceptCb(e) \/ RecvCb(e) \/ SendCb(e)
                      \/ AcceptNoMemory(e) \/ RecvOverrun(e)
NetworkStep(c) == Deliver(c) \/ DeliverEnd(c)

Next ==
  \/ ServerStep
  \/ \E c \in Conns : \/ NetworkStep(c) \/ Connect(c) \/ SendFrame(c)
                      \/ CloseConnection(c) \/ ResetConnection(c)

Spec == Init /\ [][Next]_vars

Report(i) == Wait /\ \E e \in batch' : e.item = i

\* The server runs when it can, TCP delivers what was sent, and epoll_wait
\* reports in turn what is ready (the kernel keeps a list, and puts what is
\* level-triggered back at its end). Clients do what they like.
FairSpec ==
  /\ Spec /\ WF_vars(ServerStep) /\ \A c \in Conns : WF_vars(NetworkStep(c))
  /\ \A i \in Conns \cup {Listen} : SF_vars(Report(i))

-----------------------------------------------------------------------------
(* Properties *)

TypeOK ==
  /\ client \in [Conns -> {"idle", "open", "closed", "reset"}]
  /\ sent \in [Conns -> 0 .. MaxFrames]
  /\ wire \in [Conns -> Seq(Part)] /\ inq \in [Conns -> Seq(Part)]
  /\ answers \in [Conns -> Seq(Answers)]
  /\ backlog \subseteq Conns
  /\ fin \in [Conns -> BOOLEAN] /\ rst \in [Conns -> BOOLEAN]
  /\ err \in [Conns -> BOOLEAN]
  /\ watch \in [Conns -> {"none", "IN", "OUT"}] /\ edge \in [Conns -> BOOLEAN]
  /\ item \in [Conns -> {"none", "live", "freed"}]
  /\ callback \in [Conns -> {"none", "recv_cb", "send_cb"}]
  /\ status \in [Conns -> {"none", "WS_HANDSHARK", "WS_DATATRANSFORM"}]
  /\ recvbuffer \in [Conns -> Seq(Buffered)] /\ sendbuffer \in [Conns -> Seq(Answers)]
  /\ batch \subseteq [item : Conns \cup {Listen}, events : SUBSET {"IN", "OUT"}]
  /\ alive \in BOOLEAN

\* The callback of an item and the event epoll watches for change together:
\* recv_cb waits for input, send_cb for room to send, with an answer ready.
CallbackMatches ==
  \A c \in Conns : item[c] = "live" =>
    \/ callback[c] = "recv_cb" /\ watch[c] = "IN" /\ sendbuffer[c] = <<>>
    \/ callback[c] = "send_cb" /\ watch[c] = "OUT" /\ Len(sendbuffer[c]) = 1

\* The loop never reads the callback of an item that has been freed, and
\* calls each callback for the event it was registered for.
BatchLive ==
  \A e \in batch : e.item # Listen => /\ item[e.item] = "live"
                                      /\ e.events = {watch[e.item]}

\* Though recv_cb reads once for an edge: whatever an established connection
\* has to read, there is an event to come for it.
ReadNotMissed ==
  \A c \in Conns :
    (item[c] = "live" /\ status[c] = "WS_DATATRANSFORM" /\ Readable(c)) =>
      edge[c] \/ \E e \in batch : e.item = c

\* The answer to the request comes first, and once.
HandshakeFirst ==
  \A c \in Conns : \A i \in 1 .. Len(answers[c]) :
    answers[c][i] \in {Switching, WrongKey} <=> i = 1

\* However frames are cut and joined: an echo is never repeated, never
\* overtakes another, and never comes before its frame.
EchoInOrder ==
  \A c \in Conns : \A i, j \in 1 .. Len(answers[c]) :
    (i < j /\ answers[c][j] > 0) => answers[c][i] < answers[c][j] /\ answers[c][j] <= sent[c]

\* A client that awaits each echo, over a network that cuts nothing, gets
\* the right key, unless its digest holds a zero byte, and then each frame
\* back, whatever malloc has left in the buffer.
LockstepEcho ==
  \A c \in Conns :
    /\ Len(answers[c]) <= sent[c] + 1
    /\ \A i \in 1 .. Len(answers[c]) :
         answers[c][i] = IF i = 1 /\ c \in CutKeys THEN WrongKey ELSE i - 1

\* A frame that the server echoes, whatever its mask and whatever has arrived
\* with it, goes back as one frame with the bytes of its payload and nothing
\* behind it, provided it has less than 126 bytes; a longer one does not.
EchoHasPayload ==
  \A c \in Conns : \A i \in 1 .. Len(answers[c]) :
    answers[c][i] > 0 => Bytes!FrameEchoed

\* A client that awaits each echo gets it unless it leaves.
EchoComes ==
  \A c \in Conns : \A n \in 1 .. MaxFrames :
    sent[c] = n ~> (Len(answers[c]) = n + 1 \/ client[c] # "open" \/ ~alive)

\* A client that waits is accepted although accept may fail for want of a
\* descriptor, as long as clients do not stay for ever: the listening socket
\* is level-triggered, and the item of a client that has gone is released.
Accepted ==
  (\A c \in Conns : []<>(client[c] # "open")) =>
    \A c \in Conns : c \in backlog ~> (watch[c] # "none" \/ ~alive)
=============================================================================
