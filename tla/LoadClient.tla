----------------------------- MODULE LoadClient -----------------------------
(***************************************************************************)
(* TCP_高并发/tcp_client.c: one loop opens a connection in each turn, up   *)
(* to a limit, and after each batch of them, and in every turn at the      *)
(* limit, looks at the events of all. The servers it connects to send,     *)
(* stop reading, close and reset as they like.                             *)
(*                                                                         *)
(* An event is about its own descriptor, clientfd, and it is clientfd that *)
(* is closed; data is sent to and received from sockfd, the connection     *)
(* opened in this turn of the loop, or descriptor 0 when none was.         *)
(***************************************************************************)
EXTENDS Integers, FiniteSets

CONSTANTS Fds,             (* descriptors the process may have for sockets *)
          MaxConnections,  (* 340000                                       *)
          Batch            (* 1000                                         *)

\* What the theorems take of the constants.
FiniteFds == IsFiniteSet(Fds) /\ Fds \subseteq Nat \ {0}
PositiveLimit == MaxConnections \in Nat \ {0}

VARIABLES
  pc,           \* where main is: "loop", "wait", "event" or "ended"
  connections,  \* its counter
  sockfd,       \* the socket of this turn, 0 if there is none
  open,         \* the open sockets
  watched,      \* those registered with epoll, for input and output
  peer,         \* what the server has done with each: "open", "closed",
                \* "reset", or "gone" when the program was told of the reset
  unread,       \* sockets with data to read
  full,         \* sockets the server does not read from: no more can be sent
  batch         \* events the loop has still to look at

netVars == <<peer, unread, full>>
vars == <<pc, connections, sockfd, open, watched, netVars, batch>>

Init ==
  /\ pc = "loop" /\ connections = 0 /\ sockfd = 0
  /\ open = {} /\ watched = {}
  /\ peer = [fd \in Fds |-> "open"] /\ unread = {} /\ full = {}
  /\ batch = {}

-----------------------------------------------------------------------------

\* After this many connections the events are looked at.
Due(count) == count % Batch = Batch - 1 \/ count >= MaxConnections

\* socket, connect, the first send, and EPOLL_CTL_ADD, whose failure leaves
\* the socket open and without events.
Connect ==
  /\ pc = "loop" /\ connections < MaxConnections
  /\ \E fd \in Fds \ open :
       /\ \A f \in Fds \ open : fd <= f
       /\ sockfd' = fd
       /\ open' = open \cup {fd}
       /\ watched' \in {watched, watched \cup {fd}}
       /\ peer' = [peer EXCEPT ![fd] = "open"]
       /\ unread' = unread \ {fd}
       /\ full' = full \ {fd}
  /\ connections' = connections + 1
  /\ pc' = IF Due(connections + 1) THEN "wait" ELSE "loop"
  /\ UNCHANGED batch

\* socket or connect fails: goto err.
ConnectFails ==
  /\ pc = "loop" /\ connections < MaxConnections
  /\ pc' = "ended"
  /\ UNCHANGED <<connections, sockfd, open, watched, netVars, batch>>

\* At the limit no socket is opened.
AtLimit ==
  /\ pc = "loop" /\ connections >= MaxConnections
  /\ sockfd' = 0
  /\ pc' = "wait"
  /\ UNCHANGED <<connections, open, watched, netVars, batch>>

CanWrite(fd) == fd \notin full \/ peer[fd] \in {"reset", "gone"}
CanRead(fd) == fd \in unread \/ peer[fd] # "open"

\* An event with its flags EPOLLOUT and EPOLLIN. Errors come with both.
Event(fd) == [fd |-> fd, out |-> CanWrite(fd), in |-> CanRead(fd)]

\* epoll_wait: the events of this moment, as many as there are connections at
\* the most; none after 100 ms or a signal.
Wait ==
  /\ pc = "wait"
  /\ \E ready \in SUBSET {fd \in watched : CanWrite(fd) \/ CanRead(fd)} :
       /\ Cardinality(ready) <= connections
       /\ batch' = {Event(fd) : fd \in ready}
  /\ pc' = "event"
  /\ UNCHANGED <<connections, sockfd, open, watched, netVars>>

\* close(clientfd)
Close(fd) ==
  /\ open' = open \ {fd}
  /\ watched' = watched \ {fd}

\* The other end of the descriptor that is read and written, if it is an open
\* socket.
SockPeer == IF sockfd \in open THEN peer[sockfd] ELSE "none"

\* EPOLLOUT: send to sockfd, which may fill its buffer; after a reset the
\* first send fails and the next one ends the program (SIGPIPE).
SendData ==
  /\ pc = "event"
  /\ \E event \in batch : event.out /\ batch' = batch \ {event}
  /\ IF SockPeer \in {"reset", "gone"}
     THEN /\ peer' = [peer EXCEPT ![sockfd] = "gone"]
          /\ pc' = IF SockPeer = "gone" THEN "ended" ELSE pc
          /\ UNCHANGED full
     ELSE full' \in {full, full \cup ({sockfd} \cap open)} /\ UNCHANGED <<pc, peer>>
  /\ UNCHANGED <<connections, sockfd, open, watched, unread>>

\* EPOLLIN and not EPOLLOUT, length > 0: the data of sockfd is printed; "quit"
\* sets isContinue to the 0 it has.
ReceiveData ==
  /\ pc = "event"
  /\ \E event \in batch : ~event.out /\ event.in /\ batch' = batch \ {event}
  /\ SockPeer # "none" /\ sockfd \in unread
  /\ unread' = unread \ {sockfd}
  /\ UNCHANGED <<pc, connections, sockfd, open, watched, peer, full>>

\* length == 0: the end of sockfd's stream; clientfd is closed.
Disconnect ==
  /\ pc = "event"
  /\ sockfd \notin unread /\ SockPeer \in {"closed", "gone"}
  /\ \E event \in batch :
       /\ ~event.out /\ event.in
       /\ batch' = batch \ {event}
       /\ Close(event.fd)
  /\ connections' = connections - 1
  /\ UNCHANGED <<pc, sockfd, netVars>>

\* length < 0: sockfd has nothing to read, was reset, is closed or is not a
\* socket; clientfd is closed and still counted.
ReceiveFails ==
  /\ pc = "event"
  /\ SockPeer = "none" \/ (sockfd \notin unread /\ SockPeer \in {"open", "reset"})
  /\ \E event \in batch :
       /\ ~event.out /\ event.in
       /\ batch' = batch \ {event}
       /\ Close(event.fd)
  /\ peer' = IF SockPeer = "reset" THEN [peer EXCEPT ![sockfd] = "gone"] ELSE peer
  /\ UNCHANGED <<pc, connections, sockfd, unread, full>>

\* i == nfds; usleep.
EventsDone ==
  /\ pc = "event" /\ batch = {}
  /\ pc' = "loop"
  /\ UNCHANGED <<connections, sockfd, open, watched, netVars, batch>>

-----------------------------------------------------------------------------
(* The servers *)

ServerSends(fd) ==
  /\ fd \in open /\ peer[fd] = "open"
  /\ unread' = unread \cup {fd}
  /\ UNCHANGED <<pc, connections, sockfd, open, watched, peer, full, batch>>

ServerReads(fd) ==
  /\ fd \in full \cap open /\ peer[fd] = "open"
  /\ full' = full \ {fd}
  /\ UNCHANGED <<pc, connections, sockfd, open, watched, peer, unread, batch>>

ServerLeaves(fd) ==
  /\ fd \in open /\ peer[fd] \in {"open", "closed"}
  /\ \/ peer[fd] = "open" /\ peer' = [peer EXCEPT ![fd] = "closed"]
        /\ UNCHANGED unread
     \/ /\ peer' = [peer EXCEPT ![fd] = "reset"]
        /\ unread' \in {unread, unread \ {fd}}
  /\ UNCHANGED <<pc, connections, sockfd, open, watched, full, batch>>

-----------------------------------------------------------------------------

MainStep ==
  \/ Connect \/ ConnectFails \/ AtLimit \/ Wait \/ SendData \/ ReceiveData
  \/ Disconnect \/ ReceiveFails \/ EventsDone

ServerStep ==
  \E fd \in Fds : ServerSends(fd) \/ ServerReads(fd) \/ ServerLeaves(fd)

Next == MainStep \/ ServerStep

Spec == Init /\ [][Next]_vars

-----------------------------------------------------------------------------
(* Properties *)

TypeOK ==
  /\ pc \in {"loop", "wait", "event", "ended"}
  /\ connections \in Nat
  /\ sockfd \in Fds \cup {0}
  /\ open \subseteq Fds /\ watched \subseteq Fds
  /\ peer \in [Fds -> {"open", "closed", "reset", "gone"}]
  /\ unread \subseteq Fds /\ full \subseteq Fds
  /\ batch \subseteq [fd : Fds, out : BOOLEAN, in : BOOLEAN]

\* A descriptor with an event the loop has not looked at is open and has no
\* other event, although the branches for other events close descriptors, the
\* one in sockfd among them: no descriptor is closed twice.
EventsOpen ==
  /\ \A event \in batch : event.fd \in open
  /\ \A e1, e2 \in batch : e1.fd = e2.fd => e1 = e2

\* The counter covers the open sockets and keeps to the limit, so that there
\* are never more sockets than that: it is lowered only with a close, and
\* some closes do not lower it.
CounterCoversOpen ==
  Cardinality(open) <= connections /\ connections <= MaxConnections

\* " Disconnect clientfd": the connection that is given up is one whose server
\* has ended it.
DisconnectsEnded ==
  [][connections' < connections =>
       \E fd \in open \ open' : peer[fd] \in {"closed", "reset", "gone"}]_vars
=============================================================================
