---------------------------- MODULE EpollServer ----------------------------
(***************************************************************************)
(* TCP_EPOLL/Tcp_server.c and TCP_高并发/tcp_server.c: one loop around     *)
(* epoll_wait accepts clients and reads what they send. The first listens  *)
(* at one port, the second at MAX_PORT of them; their loops are the same.  *)
(*                                                                         *)
(* All sockets, the listening ones too, are edge-triggered: epoll_wait     *)
(* reports an arrival once. The loop answers each report with one accept   *)
(* or one recv, whether or not more has arrived in the meantime.           *)
(***************************************************************************)
EXTENDS Integers, FiniteSets

CONSTANTS Clients,        (* clients, and the servers' sockets for them    *)
          Ports,          (* the listening sockets                         *)
          PortOf,         (* the port each client connects to              *)
          MaxFds,         (* sockets the process may have for clients      *)
          Backlog,        (* connections the kernel queues at a port       *)
          EPOLL_SIZE,     (* events of one epoll_wait                      *)
          BUFFER_LENGTH,  (* pieces of data one recv returns               *)
          MaxSends        (* bound: pieces of data each client sends       *)

ASSUME SocketsAssumption == Clients \cap Ports = {} /\ PortOf \in [Clients -> Ports]
ASSUME LimitsAssumption == MaxFds \in Nat /\ Backlog \in Nat /\ EPOLL_SIZE \in Nat \ {0}
ASSUME DataAssumption == BUFFER_LENGTH \in Nat \ {0} /\ MaxSends \in [Clients -> Nat]

Sockets == Clients \cup Ports

VARIABLES
  client,   \* what each client has done: "idle", "open" or "closed"
  sent,     \* pieces of data it has sent
  pending,  \* connections queued at each port
  unread,   \* pieces in the receive queue of each client's socket
  ended,    \* the end of its stream, or a reset, is at the end of the queue
  conn,     \* the server's socket for it: "none", "open" or "closed"
  watched,  \* sockets registered with epoll
  edge,     \* sockets in epoll's list of ready ones
  batch,    \* events the loop has still to look at
  fresh     \* history: sockets where something came since the last look

clientVars == <<client, sent>>
vars == <<clientVars, pending, unread, ended, conn, watched, edge, batch, fresh>>

Fds == {c \in Clients : conn[c] = "open"}

\* main: the ports are opened and registered; EPOLL_CTL_ADD sees whoever has
\* connected before it.
Init ==
  /\ client = [c \in Clients |-> "idle"] /\ sent = [c \in Clients |-> 0]
  /\ pending = [p \in Ports |-> {}] /\ unread = [c \in Clients |-> 0]
  /\ ended = {} /\ conn = [c \in Clients |-> "none"]
  /\ watched = Ports
  /\ edge = {} /\ batch = {} /\ fresh = {}

-----------------------------------------------------------------------------
(* Clients and TCP *)

\* Something arrives at a socket: an edge, if epoll watches it.
Arrive(s) ==
  /\ edge' = edge \cup ({s} \cap watched)
  /\ fresh' = fresh \cup {s}

Connect(c) ==
  LET p == PortOf[c] IN
  /\ client[c] = "idle" /\ Cardinality(pending[p]) <= Backlog
  /\ client' = [client EXCEPT ![c] = "open"]
  /\ pending' = [pending EXCEPT ![p] = @ \cup {c}]
  /\ Arrive(p)
  /\ UNCHANGED <<sent, unread, ended, conn, watched, batch>>

\* Data may arrive before the connection is accepted.
Send(c) ==
  /\ client[c] = "open" /\ sent[c] < MaxSends[c]
  /\ sent' = [sent EXCEPT ![c] = @ + 1]
  /\ unread' = [unread EXCEPT ![c] = @ + 1]
  /\ Arrive(c)
  /\ UNCHANGED <<client, pending, ended, conn, watched, batch>>

Leave(c) ==
  /\ client[c] = "open"
  /\ client' = [client EXCEPT ![c] = "closed"]
  /\ ended' = ended \cup {c}
  /\ Arrive(c)
  /\ UNCHANGED <<sent, pending, unread, conn, watched, batch>>

-----------------------------------------------------------------------------
(* The server *)

Readable(s) ==
  \/ s \in Clients /\ (unread[s] > 0 \/ s \in ended)
  \/ s \in Ports /\ pending[s] # {}

\* epoll_wait; its timeout of 5 ms and EINTR make the loop call it again.
Wait ==
  /\ batch = {}
  /\ \E ready \in SUBSET {s \in edge : Readable(s)} \ {{}} :
       /\ Cardinality(ready) <= EPOLL_SIZE
       /\ batch' = ready /\ edge' = edge \ ready
  /\ UNCHANGED <<clientVars, pending, unread, ended, conn, watched, fresh>>

\* Fault: EPOLL_CTL_ADD is forgotten.
AcceptUnwatched(p) ==
  /\ p \in batch \cap Ports
  /\ batch' = batch \ {p} /\ fresh' = fresh \ {p}
  /\ Cardinality(Fds) < MaxFds
  /\ \E c \in pending[p] :
       /\ pending' = [pending EXCEPT ![p] = @ \ {c}]
       /\ conn' = [conn EXCEPT ![c] = "open"]
  /\ UNCHANGED <<clientVars, unread, ended, watched, edge>>

\* Fault: whatever port is reported, accept is called on the first.
AcceptAtFirst(p) ==
  LET q == CHOOSE q \in Ports : TRUE IN
  /\ p \in batch \cap Ports /\ Cardinality(Fds) < MaxFds
  /\ batch' = batch \ {p} /\ fresh' = fresh \ {p}
  /\ \E c \in pending[q] :
       /\ pending' = [pending EXCEPT ![q] = @ \ {c}]
       /\ conn' = [conn EXCEPT ![c] = "open"]
       /\ watched' = watched \cup {c}
       /\ edge' = IF Readable(c) THEN edge \cup {c} ELSE edge
  /\ UNCHANGED <<clientVars, unread, ended>>

\* events[i].data.fd is a listening socket: accept, EPOLL_CTL_ADD, which looks
\* at the new socket at once. When accept fails, so does EPOLL_CTL_ADD of -1.
\* The order in which the kernel queues connections is left open.
Accept(p) ==
  /\ p \in batch \cap Ports
  /\ batch' = batch \ {p} /\ fresh' = fresh \ {p}
  /\ \/ Cardinality(Fds) >= MaxFds /\ UNCHANGED <<pending, conn, watched, edge>>
     \/ /\ Cardinality(Fds) < MaxFds
        /\ \E c \in pending[p] :
             /\ pending' = [pending EXCEPT ![p] = @ \ {c}]
             /\ conn' = [conn EXCEPT ![c] = "open"]
             /\ watched' = watched \cup {c}
             /\ edge' = IF Readable(c) THEN edge \cup {c} ELSE edge
  /\ UNCHANGED <<clientVars, unread, ended>>

\* Fault: the socket was registered with EPOLLONESHOT, and is not armed again.
RecvOnce(c) ==
  /\ c \in batch \cap Clients /\ unread[c] > 0
  /\ batch' = batch \ {c} /\ fresh' = fresh \ {c}
  /\ unread' = [unread EXCEPT ![c] = IF @ < BUFFER_LENGTH THEN 0 ELSE @ - BUFFER_LENGTH]
  /\ watched' = watched \ {c} /\ edge' = edge \ {c}
  /\ UNCHANGED <<clientVars, pending, ended, conn>>

\* Fault: the test of len is the wrong way round, and data closes the socket.
RecvCloses(c) ==
  /\ c \in batch \cap Clients /\ unread[c] > 0
  /\ batch' = batch \ {c} /\ fresh' = fresh \ {c}
  /\ conn' = [conn EXCEPT ![c] = "closed"]
  /\ watched' = watched \ {c} /\ edge' = edge \ {c}
  /\ UNCHANGED <<clientVars, pending, unread, ended>>

\* recv, len > 0: at most a buffer.
Recv(c) ==
  /\ c \in batch \cap Clients /\ unread[c] > 0
  /\ batch' = batch \ {c} /\ fresh' = fresh \ {c}
  /\ unread' = [unread EXCEPT ![c] = IF @ < BUFFER_LENGTH THEN 0 ELSE @ - BUFFER_LENGTH]
  /\ UNCHANGED <<clientVars, pending, ended, conn, watched, edge>>

\* recv, len <= 0: close, which takes the socket out of epoll, so that
\* EPOLL_CTL_DEL finds nothing.
Disconnect(c) ==
  /\ c \in batch \cap Clients /\ unread[c] = 0
  /\ batch' = batch \ {c} /\ fresh' = fresh \ {c}
  /\ conn' = [conn EXCEPT ![c] = "closed"]
  /\ watched' = watched \ {c} /\ edge' = edge \ {c}
  /\ UNCHANGED <<clientVars, pending, unread, ended>>

-----------------------------------------------------------------------------

ServerStep ==
  \/ Wait
  \/ \E p \in Ports : Accept(p)
  \/ \E c \in Clients : Recv(c) \/ Disconnect(c)

Next == ServerStep \/ \E c \in Clients : Connect(c) \/ Send(c) \/ Leave(c)

Spec == Init /\ [][Next]_vars

Report(s) == Wait /\ s \in batch'

\* The server runs; clients do as they like. The kernel keeps what is ready in
\* a list, and reports it in turn.
FairSpec == Spec /\ WF_vars(ServerStep) /\ \A s \in Sockets : SF_vars(Report(s))

-----------------------------------------------------------------------------
(* Properties *)

TypeOK ==
  /\ client \in [Clients -> {"idle", "open", "closed"}]
  /\ sent \in [Clients -> Nat] /\ unread \in [Clients -> Nat]
  /\ \A c \in Clients : unread[c] <= sent[c] /\ sent[c] <= MaxSends[c]
  /\ pending \in [Ports -> SUBSET Clients]
  /\ conn \in [Clients -> {"none", "open", "closed"}]
  /\ ended \subseteq Clients /\ watched \subseteq Sockets
  /\ edge \subseteq watched /\ batch \subseteq watched /\ fresh \subseteq Sockets

\* What has come to an open socket since the server last looked at it is
\* announced, even if it came before the accept: the only things that can be
\* forgotten are those that one accept or one recv has left behind.
EdgeNotLost ==
  \A s \in fresh : (s \in Ports \/ conn[s] = "open") => s \in edge \cup batch

\* A connection waits at its port, or has a socket that epoll watches, or has
\* been closed, by the client first, with nothing unread.
NobodyForgotten ==
  \A c \in Clients :
    \/ client[c] = "idle" /\ conn[c] = "none"
    \/ client[c] # "idle" /\ conn[c] = "none" /\ c \in pending[PortOf[c]]
    \/ client[c] # "idle" /\ conn[c] = "open" /\ c \in watched
    \/ client[c] = "closed" /\ conn[c] = "closed" /\ unread[c] = 0

\* The sockets of Tcp_server.c are blocking, and so are the listening ones of
\* both: the loop never calls accept or recv on one that has nothing.
NeverBlocks == \A s \in batch : Readable(s)

\* Whatever comes to a port or to an open socket, the server looks there.
LookedAt ==
  \A s \in Sockets :
    (s \in fresh /\ (s \in Ports \/ s \in Fds)) ~> s \notin fresh

\* Tcp_server.c:138: recv returns 0 when a client disconnects, and its socket
\* is closed. Not so if the end of the stream came with data or before it was
\* read: the one recv for the edge returned the data.
DisconnectClosed ==
  \A c \in Clients : (conn[c] = "open" /\ client[c] = "closed") ~> conn[c] = "closed"
=============================================================================
