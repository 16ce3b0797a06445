------------------------- MODULE EpollServerProofs -------------------------
(***************************************************************************)
(* Proofs about EpollServer, for any clients, ports and limits.            *)
(***************************************************************************)
EXTENDS EpollServer, TLAPS

-----------------------------------------------------------------------------
(* The inductive invariant *)

\* Ports are watched for ever, and clients' sockets while they are open.
WatchedOpen == watched = Ports \cup {c \in Clients : conn[c] = "open"}

\* A connection queues at its own port, and only until it is accepted.
QueuedAtPort ==
  \A p \in Ports : \A c \in pending[p] :
    p = PortOf[c] /\ conn[c] = "none" /\ client[c] # "idle"

\* The stream ends when the client leaves.
EndedLeft == ended = {c \in Clients : client[c] = "closed"}

\* EPOLL_CTL_ADD sees whatever came before the accept.
EarlyStays == \A c \in Clients : (c \in fresh /\ conn[c] = "none") => Readable(c)

IInv ==
  /\ TypeOK /\ WatchedOpen /\ QueuedAtPort /\ EndedLeft /\ EarlyStays
  /\ EdgeNotLost /\ NobodyForgotten /\ NeverBlocks

\* The invariant holds at the start.
LEMMA InitInv == Init => IInv
<1> SUFFICES ASSUME Init PROVE IInv
  OBVIOUS
<1> USE SocketsAssumption, DataAssumption DEF Init
<1>1. TypeOK
  BY DEF TypeOK, Sockets
<1>2. WatchedOpen /\ QueuedAtPort /\ EndedLeft
  BY DEF WatchedOpen, QueuedAtPort, EndedLeft
<1>3. EdgeNotLost /\ NobodyForgotten /\ NeverBlocks /\ EarlyStays
  BY DEF EdgeNotLost, NobodyForgotten, NeverBlocks, EarlyStays
<1> QED
  BY <1>1, <1>2, <1>3 DEF IInv

-----------------------------------------------------------------------------
(* Clients *)

LEMMA ConnectInv ==
  ASSUME IInv, NEW c \in Clients, Connect(c)
  PROVE  IInv'
<1> USE SocketsAssumption, DataAssumption DEF Connect, Arrive, clientVars
<1> DEFINE p == PortOf[c]
<1>0. p \in Ports /\ c \notin Ports
  BY DEF TypeOK
<1>1. TypeOK'
  BY <1>0 DEF IInv, TypeOK, Sockets, WatchedOpen
<1>2. WatchedOpen' /\ EndedLeft'
  BY DEF IInv, TypeOK, WatchedOpen, EndedLeft
<1>3. conn[c] = "none"
  BY DEF IInv, NobodyForgotten
<1>4. QueuedAtPort'
  BY <1>0, <1>3 DEF IInv, TypeOK, QueuedAtPort
<1>5. EdgeNotLost'
  BY <1>0 DEF IInv, EdgeNotLost, WatchedOpen
<1>6. NobodyForgotten'
  BY <1>0, <1>3 DEF IInv, TypeOK, NobodyForgotten
<1>7. NeverBlocks' /\ EarlyStays'
  BY <1>0 DEF IInv, TypeOK, NeverBlocks, Readable, EarlyStays
<1> QED
  BY <1>1, <1>2, <1>4, <1>5, <1>6, <1>7 DEF IInv

LEMMA SendInv ==
  ASSUME IInv, NEW c \in Clients, Send(c)
  PROVE  IInv'
<1> USE SocketsAssumption, DataAssumption DEF Send, Arrive, clientVars
<1>1. TypeOK'
  <2>1. MaxSends[c] \in Nat /\ sent[c] \in Nat /\ unread[c] \in Nat
    BY DEF IInv, TypeOK
  <2>2. sent' \in [Clients -> Nat] /\ unread' \in [Clients -> Nat]
    BY <2>1 DEF IInv, TypeOK
  <2>3. unread'[c] <= sent'[c] /\ sent'[c] <= MaxSends[c]
    BY <2>1 DEF IInv, TypeOK
  <2>4. \A d \in Clients \ {c} : unread'[d] = unread[d] /\ sent'[d] = sent[d]
    BY DEF IInv, TypeOK
  <2>5. \A d \in Clients : unread'[d] <= sent'[d] /\ sent'[d] <= MaxSends[d]
    BY <2>3, <2>4 DEF IInv, TypeOK
  <2>6. edge' \subseteq watched' /\ fresh' \subseteq Sockets
    BY DEF IInv, TypeOK, Sockets
  <2> QED
    BY <2>2, <2>5, <2>6 DEF IInv, TypeOK
<1>2. WatchedOpen' /\ QueuedAtPort' /\ EndedLeft'
  BY DEF IInv, TypeOK, WatchedOpen, QueuedAtPort, EndedLeft
<1>3. EdgeNotLost'
  BY DEF IInv, EdgeNotLost, WatchedOpen
<1>4. NobodyForgotten'
  BY DEF IInv, TypeOK, NobodyForgotten
<1>5. NeverBlocks' /\ EarlyStays'
  BY DEF IInv, TypeOK, NeverBlocks, Readable, EarlyStays
<1> QED
  BY <1>1, <1>2, <1>3, <1>4, <1>5 DEF IInv

LEMMA LeaveInv ==
  ASSUME IInv, NEW c \in Clients, Leave(c)
  PROVE  IInv'
<1> USE SocketsAssumption, DataAssumption DEF Leave, Arrive, clientVars
<1>1. TypeOK'
  BY DEF IInv, TypeOK, Sockets
<1>2. WatchedOpen' /\ QueuedAtPort' /\ EndedLeft'
  BY DEF IInv, TypeOK, WatchedOpen, QueuedAtPort, EndedLeft
<1>3. EdgeNotLost'
  BY DEF IInv, EdgeNotLost, WatchedOpen
<1>4. NobodyForgotten'
  BY DEF IInv, TypeOK, NobodyForgotten
<1>5. NeverBlocks' /\ EarlyStays'
  BY DEF IInv, TypeOK, NeverBlocks, Readable, EarlyStays
<1> QED
  BY <1>1, <1>2, <1>3, <1>4, <1>5 DEF IInv

-----------------------------------------------------------------------------
(* The server *)

LEMMA WaitInv ==
  ASSUME IInv, Wait
  PROVE  IInv'
<1> USE SocketsAssumption, DataAssumption DEF Wait, clientVars
<1>1. TypeOK'
  BY DEF IInv, TypeOK, Sockets
<1>2. WatchedOpen' /\ QueuedAtPort' /\ EndedLeft'
  BY DEF IInv, WatchedOpen, QueuedAtPort, EndedLeft
<1>3. EdgeNotLost' /\ NobodyForgotten'
  BY DEF IInv, EdgeNotLost, NobodyForgotten
<1>4. NeverBlocks' /\ EarlyStays'
  BY DEF IInv, Readable, NeverBlocks, EarlyStays
<1> QED
  BY <1>1, <1>2, <1>3, <1>4 DEF IInv

LEMMA AcceptInv ==
  ASSUME IInv, NEW p \in Ports, Accept(p)
  PROVE  IInv'
<1> USE SocketsAssumption, DataAssumption DEF Accept, clientVars
<1>1. CASE UNCHANGED <<pending, conn, watched, edge>>
  <2>1. TypeOK'
    BY <1>1 DEF IInv, TypeOK, Sockets
  <2>2. WatchedOpen' /\ QueuedAtPort' /\ EndedLeft'
    BY <1>1 DEF IInv, WatchedOpen, QueuedAtPort, EndedLeft
  <2>3. EdgeNotLost' /\ NobodyForgotten'
    BY <1>1 DEF IInv, EdgeNotLost, NobodyForgotten
  <2>4. NeverBlocks' /\ EarlyStays'
    BY <1>1 DEF IInv, NeverBlocks, Readable, EarlyStays
  <2> QED
    BY <2>1, <2>2, <2>3, <2>4 DEF IInv
<1>2. ASSUME NEW c \in pending[p],
             pending' = [pending EXCEPT ![p] = @ \ {c}],
             conn' = [conn EXCEPT ![c] = "open"],
             watched' = watched \cup {c},
             edge' = IF Readable(c) THEN edge \cup {c} ELSE edge
      PROVE  IInv'
  <2>0. c \in Clients /\ c \notin Ports /\ p = PortOf[c] /\ conn[c] = "none" /\ client[c] # "idle"
    BY DEF IInv, TypeOK, QueuedAtPort
  <2>1. TypeOK'
    BY <1>2, <2>0 DEF IInv, TypeOK, Sockets
  <2>2. WatchedOpen' /\ EndedLeft'
    BY <1>2, <2>0 DEF IInv, TypeOK, WatchedOpen, EndedLeft
  <2>3. QueuedAtPort'
    BY <1>2, <2>0 DEF IInv, TypeOK, QueuedAtPort
  <2>4. EdgeNotLost'
    BY <1>2, <2>0 DEF IInv, TypeOK, EdgeNotLost, EarlyStays
  <2>5. NobodyForgotten'
    BY <1>2, <2>0 DEF IInv, TypeOK, NobodyForgotten, QueuedAtPort
  <2>6. NeverBlocks' /\ EarlyStays'
    BY <1>2, <2>0 DEF IInv, TypeOK, NeverBlocks, Readable, EarlyStays
  <2> QED
    BY <2>1, <2>2, <2>3, <2>4, <2>5, <2>6 DEF IInv
<1> QED
  BY <1>1, <1>2

LEMMA RecvInv ==
  ASSUME IInv, NEW c \in Clients, Recv(c)
  PROVE  IInv'
<1> USE SocketsAssumption, DataAssumption DEF Recv, clientVars
<1>1. TypeOK'
  BY DEF IInv, TypeOK, Sockets
<1>2. WatchedOpen' /\ QueuedAtPort' /\ EndedLeft'
  BY DEF IInv, WatchedOpen, QueuedAtPort, EndedLeft
<1>3. EdgeNotLost'
  BY DEF IInv, EdgeNotLost
<1>4. NobodyForgotten'
  BY DEF IInv, TypeOK, NobodyForgotten
<1>5. NeverBlocks' /\ EarlyStays'
  BY DEF IInv, TypeOK, NeverBlocks, Readable, EarlyStays
<1> QED
  BY <1>1, <1>2, <1>3, <1>4, <1>5 DEF IInv

LEMMA DisconnectInv ==
  ASSUME IInv, NEW c \in Clients, Disconnect(c)
  PROVE  IInv'
<1> USE SocketsAssumption, DataAssumption DEF Disconnect, clientVars
<1>0. conn[c] = "open" /\ client[c] = "closed" /\ c \notin Ports
  BY DEF IInv, TypeOK, NeverBlocks, Readable, WatchedOpen, EndedLeft
<1>1. TypeOK'
  BY DEF IInv, TypeOK, Sockets
<1>2. WatchedOpen' /\ QueuedAtPort' /\ EndedLeft'
  BY <1>0 DEF IInv, TypeOK, WatchedOpen, QueuedAtPort, EndedLeft
<1>3. EdgeNotLost'
  BY <1>0 DEF IInv, TypeOK, EdgeNotLost
<1>4. NobodyForgotten'
  BY <1>0 DEF IInv, TypeOK, NobodyForgotten
<1>5. NeverBlocks' /\ EarlyStays'
  BY DEF IInv, TypeOK, NeverBlocks, Readable, EarlyStays
<1> QED
  BY <1>1, <1>2, <1>3, <1>4, <1>5 DEF IInv

-----------------------------------------------------------------------------
(* The theorems *)

LEMMA NextInv == IInv /\ [Next]_vars => IInv'
<1> SUFFICES ASSUME IInv, [Next]_vars PROVE IInv'
  OBVIOUS
<1>1. CASE UNCHANGED vars
  BY <1>1 DEF vars, clientVars, IInv, TypeOK, WatchedOpen, QueuedAtPort, EndedLeft,
              EdgeNotLost, NobodyForgotten, NeverBlocks, EarlyStays, Readable
<1>2. CASE Next
  BY <1>2, ConnectInv, SendInv, LeaveInv, WaitInv, AcceptInv, RecvInv, DisconnectInv
  DEF Next, ServerStep
<1> QED
  BY <1>1, <1>2

\* Every reachable state of a server satisfies the inductive invariant.
THEOREM Invariance == Spec => []IInv
  BY InitInv, NextInv, PTL DEF Spec

\* The state of the server has its type.
THEOREM TypeCorrect == Spec => []TypeOK
  BY Invariance, PTL DEF IInv

\* Whatever has come to a port or an open socket since it was last looked at
\* is announced.
THEOREM EdgeNotLostHolds == Spec => []EdgeNotLost
  BY Invariance, PTL DEF IInv

\* A connection is queued, open and watched, or closed after its client.
THEOREM NobodyForgottenHolds == Spec => []NobodyForgotten
  BY Invariance, PTL DEF IInv

\* The loop never blocks in accept or recv.
THEOREM NeverBlocksHolds == Spec => []NeverBlocks
  BY Invariance, PTL DEF IInv
=============================================================================
