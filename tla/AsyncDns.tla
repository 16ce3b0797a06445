------------------------------ MODULE AsyncDns ------------------------------
(***************************************************************************)
(* ASYNC_DNS/async_dns.c: the main thread commits a query for each domain  *)
(* (dns_async_client_commit) and does not wait; a worker thread            *)
(* (dns_async_client_callback) waits in epoll_wait for the answers, calls  *)
(* the callback of each and releases what the query holds.                 *)
(*                                                                         *)
(* The threads share no lock. They meet in the kernel: descriptors are     *)
(* numbers that socket() gives out again as soon as close() gave them      *)
(* back, and the epoll instance maps a descriptor to the struct ep_arg it  *)
(* was registered with. Each system call is a step. A query stands for the *)
(* socket and for the ep_arg made for it; None is no query, no descriptor. *)
(***************************************************************************)
EXTENDS Integers, FiniteSets

CONSTANTS NumQueries,   (* the length of domain[]                          *)
          NumFds,       (* sockets the process may have open at a time     *)
          MaxEvents,    (* ASYNC_DNS_CLIENT_NUM                            *)
          MaxDatagrams  (* bound: datagrams that reach one socket          *)

ASSUME QueriesAssumption == NumQueries \in Nat
ASSUME FdsAssumption == NumFds \in Nat
ASSUME EventsAssumption == MaxEvents \in Nat \ {0}
ASSUME DatagramsAssumption == MaxDatagrams \in Nat

Queries == 1 .. NumQueries
Fds == 1 .. NumFds
None == 0

VARIABLES
  mpc,       \* where the main thread is
  query,     \* main's loop counter: the query it commits
  sockfd,    \* main's local variable sockfd
  table,     \* the open sockets: the query each descriptor was opened for
  arrived,   \* datagrams that have reached the socket of each query
  inbox,     \* those of them that have not been read
  arg,       \* data->sockfd of the allocated ep_args, None for the others
  interest,  \* the epoll instance: the ep_arg of each registered descriptor
  added,     \* queries for which EPOLL_CTL_ADD has succeeded
  wpc,       \* where the worker is
  batch,     \* ep_args in events[i .. num_event - 1]
  data,      \* the worker's local variables data
  wfd,       \* ... and sockfd
  calls      \* how often the callback of each query has been called

mainVars == <<mpc, query, sockfd>>
kernelVars == <<table, interest>>
networkVars == <<arrived, inbox>>
workerVars == <<wpc, batch, data, wfd, calls>>
vars == <<mainVars, kernelVars, networkVars, arg, added, workerVars>>

Alive == mpc # "exited"
IsOpen(q) == \E fd \in Fds : table[fd] = q

Init ==
  /\ mpc = "init" /\ query = 1 /\ sockfd = None
  /\ table = [fd \in Fds |-> None] /\ interest = [fd \in Fds |-> None]
  /\ arrived = [q \in Queries |-> 0] /\ inbox = [q \in Queries |-> 0]
  /\ arg = [q \in Queries |-> None] /\ added = {}
  /\ wpc = "none" /\ batch = {} /\ data = None /\ wfd = None
  /\ calls = [q \in Queries |-> 0]

-----------------------------------------------------------------------------
(* main and dns_async_client_commit *)

\* dns_async_client_init: the worker is started, or main returns -1.
StartClient ==
  /\ mpc = "init"
  /\ \/ mpc' = "socket" /\ wpc' = "wait"
     \/ mpc' = "exited" /\ UNCHANGED wpc
  /\ UNCHANGED <<query, sockfd, kernelVars, networkVars, arg, added, batch,
                 data, wfd, calls>>

\* main does not look at what dns_async_client_commit returns.
NextQuery == mpc' = "socket" /\ query' = query + 1

\* socket: the lowest free descriptor.
OpenSocket ==
  /\ mpc = "socket" /\ query \in Queries
  /\ \E fd \in Fds :
       /\ table[fd] = None
       /\ \A f \in Fds : table[f] = None => fd <= f
       /\ table' = [table EXCEPT ![fd] = query]
       /\ sockfd' = fd
  /\ mpc' = "send"
  /\ UNCHANGED <<query, interest, networkVars, arg, added, workerVars>>

\* if(sockfd < 0) return -3;
SocketFails ==
  /\ mpc = "socket" /\ query \in Queries
  /\ NextQuery
  /\ UNCHANGED <<sockfd, kernelVars, networkVars, arg, added, workerVars>>

\* sendto: from here on datagrams may come back, or never.
SendRequest ==
  /\ mpc = "send"
  /\ mpc' = "alloc"
  /\ UNCHANGED <<query, sockfd, kernelVars, networkVars, arg, added, workerVars>>

\* calloc; eparg->sockfd = sockfd;
AllocArg ==
  /\ mpc = "alloc"
  /\ arg' = [arg EXCEPT ![query] = sockfd]
  /\ mpc' = "add"
  /\ UNCHANGED <<query, sockfd, kernelVars, networkVars, added, workerVars>>

\* Fault: the early return forgets the socket.
AllocArgFailsOpen ==
  /\ mpc = "alloc"
  /\ NextQuery
  /\ UNCHANGED <<sockfd, kernelVars, networkVars, arg, added, workerVars>>

\* close closes the only descriptor of the socket, which takes it out of the
\* epoll instance if it is there.
CloseFd(fd) ==
  /\ table' = [table EXCEPT ![fd] = None]
  /\ interest' = [interest EXCEPT ![fd] = None]

\* if(eparg == nullptr) { close(sockfd); return -1; }
AllocArgFails ==
  /\ mpc = "alloc"
  /\ CloseFd(sockfd)
  /\ NextQuery
  /\ UNCHANGED <<sockfd, networkVars, arg, added, workerVars>>

\* EPOLL_CTL_ADD
Register ==
  /\ mpc = "add"
  /\ interest' = [interest EXCEPT ![sockfd] = query]
  /\ added' = added \cup {query}
  /\ NextQuery
  /\ UNCHANGED <<sockfd, table, networkVars, arg, workerVars>>

\* EPOLL_CTL_ADD fails: commit returns -1 and keeps the socket and the arg.
RegisterFails ==
  /\ mpc = "add"
  /\ NextQuery
  /\ UNCHANGED <<sockfd, kernelVars, networkVars, arg, added, workerVars>>

\* getchar returns, and main with it.
KeyPressed ==
  /\ mpc = "socket" /\ query \notin Queries
  /\ mpc' = "exited"
  /\ UNCHANGED <<query, sockfd, kernelVars, networkVars, arg, added, workerVars>>

-----------------------------------------------------------------------------

\* The network: an answer or an error of the server or of the route reaches
\* a socket through which the request was sent; it may be lost, it may come
\* more than once, at any time.
Deliver(q) ==
  /\ Alive
  /\ IsOpen(q) /\ (q = query => mpc # "send")
  /\ arrived[q] < MaxDatagrams
  /\ arrived' = [arrived EXCEPT ![q] = @ + 1]
  /\ inbox' = [inbox EXCEPT ![q] = @ + 1]
  /\ UNCHANGED <<mainVars, kernelVars, arg, added, workerVars>>

-----------------------------------------------------------------------------
(* dns_async_client_callback *)

\* ep_args of the descriptors that are registered and readable.
Ready == {interest[fd] : fd \in {f \in Fds : /\ interest[f] # None
                                             /\ table[f] # None
                                             /\ inbox[table[f]] > 0}}

\* epoll_wait, level-triggered; EINTR makes the loop call it again. Any other
\* error would end the loop: EBADF, EFAULT and EINVAL, which cannot come, as epfd
\* is an epoll instance that nobody closes, and events and their number are good.
Wait ==
  /\ Alive
  /\ wpc = "wait"
  /\ \E ready \in SUBSET Ready \ {{}} :
       Cardinality(ready) <= MaxEvents /\ batch' = ready
  /\ wpc' = "handle"
  /\ UNCHANGED <<mainVars, kernelVars, networkVars, arg, added, data, wfd, calls>>

\* Reading from the socket of descriptor fd, if it still has a datagram.
Receive(fd) ==
  inbox' = [q \in Queries |-> IF fd # None /\ table[fd] = q /\ inbox[q] > 0
                              THEN inbox[q] - 1 ELSE inbox[q]]

\* Fault: after the callback the query is kept for further datagrams.
HandleAndKeep ==
  /\ Alive
  /\ wpc = "handle"
  /\ \E d \in batch :
       /\ data' = d /\ wfd' = arg[d] /\ batch' = batch \ {d}
       /\ Receive(arg[d])
       /\ calls' = [calls EXCEPT ![d] = @ + 1]
  /\ UNCHANGED <<wpc, mainVars, kernelVars, arrived, arg, added>>

\* The next event: recvfrom, whose result is not looked at, then
\* dns_parse_response and data->cb, with or without an answer.
Handle ==
  /\ Alive
  /\ wpc = "handle"
  /\ \E d \in batch :
       /\ data' = d /\ wfd' = arg[d] /\ batch' = batch \ {d}
       /\ Receive(arg[d])
       /\ calls' = [calls EXCEPT ![d] = @ + 1]
  /\ wpc' = "del"
  /\ UNCHANGED <<mainVars, kernelVars, arrived, arg, added>>

\* i == num_event
BatchDone ==
  /\ Alive
  /\ wpc = "handle" /\ batch = {}
  /\ wpc' = "wait"
  /\ UNCHANGED <<mainVars, kernelVars, networkVars, arg, added, batch, data, wfd,
                 calls>>

\* Fault: the descriptor is closed before it is taken out of the epoll.
CloseThenDel ==
  /\ Alive
  /\ \/ wpc = "del" /\ CloseFd(wfd) /\ wpc' = "close" /\ UNCHANGED arg
     \/ /\ wpc = "close" /\ wpc' = "free"
        /\ interest' = [interest EXCEPT ![wfd] = None] /\ UNCHANGED <<table, arg>>
     \/ /\ wpc = "free" /\ arg' = [arg EXCEPT ![data] = None] /\ wpc' = "handle"
        /\ UNCHANGED kernelVars
  /\ UNCHANGED <<mainVars, networkVars, added, batch, data, wfd, calls>>

\* Fault: the descriptor is closed twice.
CloseTwice ==
  /\ Alive
  /\ \/ wpc \in {"del", "close"} /\ CloseFd(wfd) /\ UNCHANGED arg
     \/ wpc = "free" /\ arg' = [arg EXCEPT ![data] = None] /\ UNCHANGED kernelVars
  /\ wpc' = CASE wpc = "del" -> "close" [] wpc = "close" -> "free" [] OTHER -> "handle"
  /\ UNCHANGED <<mainVars, networkVars, added, batch, data, wfd, calls>>

\* Fault: the ep_arg is freed before the socket is released.
FreeFirst ==
  /\ Alive
  /\ \/ wpc = "del" /\ arg' = [arg EXCEPT ![data] = None] /\ UNCHANGED kernelVars
     \/ /\ wpc = "close" /\ interest' = [interest EXCEPT ![wfd] = None]
        /\ UNCHANGED <<table, arg>>
     \/ wpc = "free" /\ CloseFd(wfd) /\ UNCHANGED arg
  /\ wpc' = CASE wpc = "del" -> "close" [] wpc = "close" -> "free" [] OTHER -> "handle"
  /\ UNCHANGED <<mainVars, networkVars, added, batch, data, wfd, calls>>

\* What follows the callback, one call at a time: EPOLL_CTL_DEL; close;
\* free(data), and back to the loop over the events.
Release ==
  /\ Alive
  /\ \/ /\ wpc = "del" /\ wpc' = "close"
        /\ interest' = [interest EXCEPT ![wfd] = None] /\ UNCHANGED <<table, arg>>
     \/ wpc = "close" /\ CloseFd(wfd) /\ wpc' = "free" /\ UNCHANGED arg
     \/ /\ wpc = "free" /\ arg' = [arg EXCEPT ![data] = None] /\ wpc' = "handle"
        /\ UNCHANGED kernelVars
  /\ UNCHANGED <<mainVars, networkVars, added, batch, data, wfd, calls>>

-----------------------------------------------------------------------------

MainStep ==
  \/ StartClient \/ OpenSocket \/ SocketFails \/ SendRequest
  \/ AllocArg \/ AllocArgFails \/ Register \/ RegisterFails

WorkerStep == Wait \/ Handle \/ BatchDone \/ Release

Next ==
  \/ MainStep
  \/ KeyPressed
  \/ \E q \in Queries : Deliver(q)
  \/ WorkerStep
  \/ ~Alive /\ UNCHANGED vars

Spec == Init /\ [][Next]_vars

\* Both threads run when they can; the network promises nothing.
FairSpec == Spec /\ WF_vars(MainStep) /\ WF_vars(WorkerStep)

-----------------------------------------------------------------------------
(* Properties *)

TypeOK ==
  /\ mpc \in {"init", "socket", "send", "alloc", "add", "exited"}
  /\ query \in 1 .. NumQueries + 1 /\ sockfd \in Fds \cup {None}
  /\ table \in [Fds -> Queries \cup {None}]
  /\ interest \in [Fds -> Queries \cup {None}]
  /\ arrived \in [Queries -> 0 .. MaxDatagrams]
  /\ inbox \in [Queries -> 0 .. MaxDatagrams]
  /\ arg \in [Queries -> Fds \cup {None}]
  /\ added \subseteq Queries
  /\ wpc \in {"none", "wait", "handle", "del", "close", "free"}
  /\ batch \subseteq Queries
  /\ data \in Queries \cup {None} /\ wfd \in Fds \cup {None}
  /\ calls \in [Queries -> Nat]

\* main works on the socket it opened.
Committing == {"send", "alloc", "add"}

\* A thread uses a descriptor only while it stands for the socket the thread
\* means: numbers are reused by main as soon as the worker has closed them.
OwnSocket ==
  /\ mpc \in Committing => table[sockfd] = query
  /\ wpc \in {"del", "close"} => table[wfd] = data
  /\ \A fd \in Fds : interest[fd] # None => table[fd] = interest[fd]

\* The worker dereferences only ep_args that are allocated and belong to the
\* descriptor that was readable.
ArgsLive ==
  /\ \A fd \in Fds : interest[fd] # None => arg[interest[fd]] = fd
  /\ \A d \in batch : arg[d] # None
  /\ wpc \in {"del", "close", "free"} => arg[data] # None

\* The callback of a query is called once at most, however many datagrams
\* the network delivers for it.
CallbackOnce == \A q \in Queries : calls[q] <= 1

\* A query that was registered stays registered until its callback: no call
\* made for another query takes it out of the epoll instance.
StaysRegistered ==
  \A q \in added : calls[q] = 0 => \E fd \in Fds : interest[fd] = q

\* A socket is open only while its query is being committed, waits for its
\* answer or is being released; only a failed EPOLL_CTL_ADD leaks it.
NoSocketLeak ==
  \A fd \in Fds : table[fd] # None =>
    \/ mpc \in Committing /\ fd = sockfd
    \/ interest[fd] # None
    \/ wpc = "close" /\ fd = wfd
    \/ table[fd] < query /\ table[fd] \notin added /\ arg[table[fd]] = fd

\* A datagram that reached the socket of a registered query, even before it
\* was registered, leads to the callback, unless the program is ended first.
AnswerCalledBack ==
  \A q \in Queries :
    (q \in added /\ inbox[q] > 0) ~> (calls[q] = 1 \/ ~Alive)
=============================================================================
