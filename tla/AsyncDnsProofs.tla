--------------------------- MODULE AsyncDnsProofs ---------------------------
(***************************************************************************)
(* Proofs about AsyncDns. The two threads share no lock, so what makes     *)
(* their use of the descriptors safe is who may touch which: main touches  *)
(* the descriptor of the query it commits until it is registered, and the  *)
(* worker that of a registered query from its event to its close. IInv     *)
(* says so: a socket that is registered belongs to a query main is done    *)
(* with, and whose callback has not been called, except for the query the  *)
(* worker is about to take out of the epoll instance.                      *)
(***************************************************************************)
EXTENDS AsyncDns, TLAPS

\* What main holds while it commits a query; all it is done with is older.
MainInv ==
  /\ mpc = "init" => wpc = "none"
  /\ mpc \in Committing =>
       query \in Queries /\ sockfd \in Fds /\ table[sockfd] = query
  /\ mpc = "add" => arg[query] = sockfd
  /\ \A q \in added : q < query
  /\ \A fd \in Fds : table[fd] <= query
  /\ \A fd \in Fds : table[fd] = query => mpc \in Committing /\ fd = sockfd
  /\ \A q \in Queries : arg[q] # None => q < query \/ (q = query /\ mpc = "add")

\* Two descriptors never stand for one socket.
TableInv ==
  \A f, g \in Fds : table[f] = table[g] /\ table[f] # None => f = g

\* The registered descriptors and the queries that wait for their callback.
InterestInv ==
  /\ \A fd \in Fds : interest[fd] # None =>
       /\ table[fd] = interest[fd] /\ arg[interest[fd]] = fd
       /\ interest[fd] \in added
       /\ calls[interest[fd]] = 0 \/ (wpc = "del" /\ interest[fd] = data)
  /\ \A q \in added : calls[q] = 0 => arg[q] # None /\ interest[arg[q]] = q
  /\ \A q \in Queries : calls[q] # 0 => q \in added /\ calls[q] = 1

\* What the worker holds.
WorkerInv ==
  /\ \A q \in Queries : inbox[q] <= arrived[q]
  /\ wpc \in {"none", "wait"} => batch = {}
  /\ \A d \in batch : d \in added /\ calls[d] = 0
  /\ wpc \in {"del", "close", "free"} =>
       data \in Queries /\ wfd \in Fds /\ arg[data] = wfd /\ calls[data] = 1
  /\ wpc = "del" => interest[wfd] = data
  /\ wpc = "close" => table[wfd] = data /\ interest[wfd] = None

IInv == TypeOK /\ MainInv /\ TableInv /\ InterestInv /\ WorkerInv

-----------------------------------------------------------------------------

LEMMA Kinds ==
  /\ Queries \subseteq Nat \ {0} /\ Fds \subseteq Nat \ {0} /\ None = 0
  /\ None \notin Queries /\ None \notin Fds
  /\ \A q \in Queries : q + 1 \in 1 .. NumQueries + 1
  /\ Queries \cup {None} \subseteq Nat
BY QueriesAssumption, FdsAssumption DEF Queries, Fds, None

\* IInv holds when the program starts.
LEMMA InitIInv == Init => IInv
BY QueriesAssumption, FdsAssumption, DatagramsAssumption
DEF Init, IInv, TypeOK, MainInv, TableInv, InterestInv, WorkerInv, Queries,
    Fds, None, Committing

\* What IInv says of the queries the two threads work on: main's is newer
\* than all that are registered, so it is never the worker's.
Context ==
  /\ query \in Nat \ {0} /\ added \subseteq Queries /\ batch \subseteq Queries
  /\ table \in [Fds -> Queries \cup {None}]
  /\ interest \in [Fds -> Queries \cup {None}]
  /\ arg \in [Queries -> Fds \cup {None}] /\ calls \in [Queries -> Nat]
  /\ inbox \in [Queries -> Nat] /\ arrived \in [Queries -> Nat]
  /\ mpc = "init" => wpc = "none"
  /\ mpc \in Committing => /\ query \in Queries /\ query \notin added
                           /\ sockfd \in Fds /\ table[sockfd] = query
                           /\ interest[sockfd] = None /\ calls[query] = 0
  /\ wpc \in {"del", "close", "free"} =>
       data # query /\ wfd \in Fds /\ data \in added
  /\ wpc \in {"del", "close"} => table[wfd] = data
  /\ mpc \in Committing /\ wpc \in {"del", "close"} => wfd # sockfd
  /\ Ready \subseteq added
  /\ \A d \in batch : d \in added /\ calls[d] = 0
  /\ \A d \in added : calls[d] = 0 => arg[d] \in Fds /\ interest[arg[d]] = d

LEMMA Facts == IInv => Context
<1> SUFFICES ASSUME IInv PROVE Context
  OBVIOUS
<1> USE Kinds DEF IInv
<1>1. wpc \in {"del", "close", "free"} =>
        data # query /\ wfd \in Fds /\ data \in added
  BY DEF TypeOK, MainInv, InterestInv, WorkerInv
<1>2. wpc \in {"del", "close"} => table[wfd] = data
  BY <1>1 DEF TypeOK, InterestInv, WorkerInv
<1>3. ASSUME mpc \in Committing
      PROVE  /\ query \in Queries /\ sockfd \in Fds /\ table[sockfd] = query
             /\ query \notin added
  BY <1>3 DEF TypeOK, MainInv
<1>4. ASSUME mpc \in Committing
      PROVE  interest[sockfd] = None /\ calls[query] = 0
  BY <1>3, <1>4 DEF TypeOK, MainInv, InterestInv
<1>5. mpc \in Committing /\ wpc \in {"del", "close"} => wfd # sockfd
  BY <1>1, <1>2, <1>3
<1>6. Ready \subseteq added
  BY DEF Ready, TypeOK, InterestInv
<1>7. \A d \in added : calls[d] = 0 =>
        arg[d] \in Fds /\ interest[arg[d]] = d
  BY DEF TypeOK, InterestInv
<1>8. /\ query \in Nat \ {0} /\ inbox \in [Queries -> Nat]
      /\ arrived \in [Queries -> Nat]
  BY QueriesAssumption, DatagramsAssumption DEF TypeOK
<1>. QED
  BY <1>1, <1>2, <1>3, <1>4, <1>5, <1>6, <1>7, <1>8
  DEF Context, TypeOK, MainInv, WorkerInv

LEMMA NextTypeOK == IInv /\ [Next]_vars => TypeOK'
<1> SUFFICES ASSUME IInv, [Next]_vars PROVE TypeOK'
  OBVIOUS
<1>0. /\ TypeOK /\ added \subseteq Queries /\ Ready \subseteq added
      /\ mpc \in Committing => query \in Queries /\ sockfd \in Fds
      /\ wpc \in {"del", "close", "free"} => wfd \in Fds /\ data \in Queries
      /\ \A q \in Queries : inbox[q] <= arrived[q]
  BY Facts DEF IInv, WorkerInv, Context
<1> USE Kinds DEF TypeOK, Committing, mainVars, kernelVars, networkVars, workerVars
<1>1. CASE StartClient
  BY <1>1, <1>0 DEF StartClient
<1>2. CASE OpenSocket
  BY <1>2, <1>0 DEF OpenSocket
<1>3. CASE SocketFails
  BY <1>3, <1>0 DEF SocketFails, NextQuery
<1>4. CASE SendRequest
  BY <1>4, <1>0 DEF SendRequest
<1>5. CASE AllocArg
  BY <1>5, <1>0 DEF AllocArg
<1>6. CASE AllocArgFails
  BY <1>6, <1>0 DEF AllocArgFails, CloseFd, NextQuery
<1>7. CASE Register
  BY <1>7, <1>0 DEF Register, NextQuery
<1>8. CASE RegisterFails
  BY <1>8, <1>0 DEF RegisterFails, NextQuery
<1>9. CASE KeyPressed
  BY <1>9, <1>0 DEF KeyPressed
<1>10. ASSUME NEW q \in Queries, Deliver(q) PROVE TypeOK'
  <2>1. arrived[q] + 1 \in 0 .. MaxDatagrams /\ inbox[q] + 1 \in 0 .. MaxDatagrams
    BY <1>0, <1>10, DatagramsAssumption DEF Deliver
  <2>. QED
    BY <1>0, <1>10, <2>1 DEF Deliver
<1>11. CASE Wait
  BY <1>11, <1>0 DEF Wait
<1>12. CASE Handle
  <2>1. \A q \in Queries : inbox[q] > 0 => inbox[q] - 1 \in 0 .. MaxDatagrams
    BY <1>0, DatagramsAssumption
  <2>2. inbox' \in [Queries -> 0 .. MaxDatagrams]
    BY <1>0, <1>12, <2>1 DEF Handle, Receive
  <2>3. calls' \in [Queries -> Nat]
    BY <1>0, <1>12 DEF Handle, Receive
  <2>. QED
    BY <1>0, <1>12, <2>2, <2>3 DEF Handle
<1>13. CASE BatchDone
  BY <1>13, <1>0 DEF BatchDone
<1>14. CASE Release
  BY <1>14, <1>0 DEF Release, CloseFd
<1>15. CASE UNCHANGED vars
  BY <1>0, <1>15 DEF vars
<1>. QED
  BY <1>1, <1>2, <1>3, <1>4, <1>5, <1>6, <1>7, <1>8, <1>9,
     <1>10, <1>11, <1>12, <1>13, <1>14, <1>15 DEF Next, MainStep, WorkerStep

LEMMA NextMainInv == IInv /\ [Next]_vars => MainInv'
<1> SUFFICES ASSUME IInv, [Next]_vars PROVE MainInv'
  OBVIOUS
<1>0. MainInv /\ Context
  BY Facts DEF IInv
<1>q. \A x \in Queries \cup {None} :
        /\ x < query + 1 <=> x <= query
        /\ x <= query => x # query + 1 /\ x <= query + 1
  <2>1. query \in Nat
    BY <1>0 DEF Context
  <2>. QED
    BY <2>1, Kinds
<1>t. \A fd \in Fds : table[fd] \in Queries \cup {None} /\ table[fd] <= query
  BY <1>0 DEF Context, MainInv
<1> USE Kinds DEF MainInv, Context, Committing, mainVars, kernelVars,
                  networkVars, workerVars
<1>1. CASE StartClient
  BY <1>1, <1>0 DEF StartClient
<1>2. CASE OpenSocket
  BY <1>2, <1>0 DEF OpenSocket
<1>3. CASE SocketFails
  <2>1. query' = query + 1 /\ mpc' = "socket"
    BY <1>3 DEF SocketFails, NextQuery
  <2>2. \A q \in added' : q < query'
    BY <1>0, <1>q, <1>3, <2>1 DEF SocketFails, NextQuery
  <2>3. \A fd \in Fds : table'[fd] <= query' /\ table'[fd] # query'
    BY <1>t, <1>q, <1>3, <2>1 DEF SocketFails, NextQuery
  <2>4. \A q \in Queries : arg'[q] # None => q < query'
    BY <1>0, <1>q, <1>3, <2>1 DEF SocketFails, NextQuery
  <2>. QED
    BY <2>1, <2>2, <2>3, <2>4
<1>4. CASE SendRequest
  BY <1>4, <1>0 DEF SendRequest
<1>5. CASE AllocArg
  BY <1>5, <1>0 DEF AllocArg
<1>6. CASE AllocArgFails
  <2>1. query' = query + 1 /\ mpc' = "socket"
    BY <1>6 DEF AllocArgFails, CloseFd, NextQuery
  <2>2. \A q \in added' : q < query'
    BY <1>0, <1>q, <1>6, <2>1 DEF AllocArgFails, CloseFd, NextQuery
  <2>3. \A fd \in Fds : table'[fd] <= query' /\ table'[fd] # query'
    <3>1. \A fd \in Fds : table'[fd] = table[fd] \/ table'[fd] = None
      BY <1>0, <1>6 DEF AllocArgFails, CloseFd
    <3>2. None <= query
      BY <1>0
    <3>. QED
      BY <1>t, <1>q, <2>1, <3>1, <3>2
  <2>4. \A q \in Queries : arg'[q] # None => q < query'
    BY <1>0, <1>q, <1>6, <2>1 DEF AllocArgFails, CloseFd, NextQuery
  <2>. QED
    BY <2>1, <2>2, <2>3, <2>4
<1>7. CASE Register
  <2>1. query' = query + 1 /\ mpc' = "socket"
    BY <1>7 DEF Register, NextQuery
  <2>2. \A q \in added' : q < query'
    BY <1>0, <1>q, <1>7, <2>1 DEF Register, NextQuery
  <2>3. \A fd \in Fds : table'[fd] <= query' /\ table'[fd] # query'
    BY <1>t, <1>q, <1>7, <2>1 DEF Register, NextQuery
  <2>4. \A q \in Queries : arg'[q] # None => q < query'
    BY <1>0, <1>q, <1>7, <2>1 DEF Register, NextQuery
  <2>. QED
    BY <2>1, <2>2, <2>3, <2>4
<1>8. CASE RegisterFails
  <2>1. query' = query + 1 /\ mpc' = "socket"
    BY <1>8 DEF RegisterFails, NextQuery
  <2>2. \A q \in added' : q < query'
    BY <1>0, <1>q, <1>8, <2>1 DEF RegisterFails, NextQuery
  <2>3. \A fd \in Fds : table'[fd] <= query' /\ table'[fd] # query'
    BY <1>t, <1>q, <1>8, <2>1 DEF RegisterFails, NextQuery
  <2>4. \A q \in Queries : arg'[q] # None => q < query'
    BY <1>0, <1>q, <1>8, <2>1 DEF RegisterFails, NextQuery
  <2>. QED
    BY <2>1, <2>2, <2>3, <2>4
<1>9. CASE KeyPressed
  BY <1>9, <1>0 DEF KeyPressed
<1>10. ASSUME NEW q \in Queries, Deliver(q) PROVE MainInv'
  BY <1>10, <1>0 DEF Deliver
<1>11. CASE Wait
  BY <1>11, <1>0 DEF Wait
<1>12. CASE Handle
  BY <1>12, <1>0 DEF Handle, Receive
<1>13. CASE BatchDone
  BY <1>13, <1>0 DEF BatchDone
<1>14. CASE Release
  <2>1. CASE wpc = "del"
    BY <1>14, <1>0, <2>1 DEF Release, CloseFd
  <2>2. CASE wpc = "close"
    <3>1. table' = [table EXCEPT ![wfd] = None] /\ UNCHANGED <<mpc, query, sockfd, arg, added>>
      BY <1>14, <2>2 DEF Release, CloseFd
    <3>2. \A fd \in Fds : table'[fd] = table[fd] \/ (fd = wfd /\ table'[fd] = None)
      BY <1>0, <2>2, <3>1
    <3>3. None < query /\ wpc' = "free" /\ mpc # "init"
      BY <1>0, <1>14, <2>2 DEF Release
    <3>. QED
      BY <1>0, <2>2, <3>1, <3>2, <3>3
  <2>3. CASE wpc = "free"
    BY <1>14, <1>0, <2>3 DEF Release, CloseFd
  <2>. QED
    BY <1>14, <2>1, <2>2, <2>3 DEF Release, CloseFd
<1>15. CASE UNCHANGED vars
  BY <1>0, <1>15 DEF vars
<1>. QED
  BY <1>1, <1>2, <1>3, <1>4, <1>5, <1>6, <1>7, <1>8, <1>9,
     <1>10, <1>11, <1>12, <1>13, <1>14, <1>15 DEF Next, MainStep, WorkerStep

LEMMA NextTableInv == IInv /\ [Next]_vars => TableInv'
<1> SUFFICES ASSUME IInv, [Next]_vars PROVE TableInv'
  OBVIOUS
<1>0. TableInv /\ MainInv /\ Context
  BY Facts DEF IInv
<1> USE Kinds DEF TableInv, MainInv, Context, Committing, mainVars, kernelVars,
                  networkVars, workerVars
<1>1. CASE StartClient
  BY <1>1, <1>0 DEF StartClient
<1>2. CASE OpenSocket
  BY <1>2, <1>0 DEF OpenSocket
<1>3. CASE SocketFails
  BY <1>3, <1>0 DEF SocketFails, NextQuery
<1>4. CASE SendRequest
  BY <1>4, <1>0 DEF SendRequest
<1>5. CASE AllocArg
  BY <1>5, <1>0 DEF AllocArg
<1>6. CASE AllocArgFails
  BY <1>6, <1>0 DEF AllocArgFails, CloseFd, NextQuery
<1>7. CASE Register
  BY <1>7, <1>0 DEF Register, NextQuery
<1>8. CASE RegisterFails
  BY <1>8, <1>0 DEF RegisterFails, NextQuery
<1>9. CASE KeyPressed
  BY <1>9, <1>0 DEF KeyPressed
<1>10. ASSUME NEW q \in Queries, Deliver(q) PROVE TableInv'
  BY <1>10, <1>0 DEF Deliver
<1>11. CASE Wait
  BY <1>11, <1>0 DEF Wait
<1>12. CASE Handle
  BY <1>12, <1>0 DEF Handle, Receive
<1>13. CASE BatchDone
  BY <1>13, <1>0 DEF BatchDone
<1>14. CASE Release
  BY <1>14, <1>0 DEF Release, CloseFd
<1>15. CASE UNCHANGED vars
  BY <1>0, <1>15 DEF vars
<1>. QED
  BY <1>1, <1>2, <1>3, <1>4, <1>5, <1>6, <1>7, <1>8, <1>9,
     <1>10, <1>11, <1>12, <1>13, <1>14, <1>15 DEF Next, MainStep, WorkerStep

LEMMA NextInterestInv == IInv /\ [Next]_vars => InterestInv'
<1> SUFFICES ASSUME IInv, [Next]_vars PROVE InterestInv'
  OBVIOUS
<1>0. /\ InterestInv /\ Context
      /\ mpc = "add" => arg[query] = sockfd
  BY Facts DEF IInv, MainInv
<1>w. /\ wpc \in {"del", "close", "free"} => arg[data] = wfd /\ calls[data] = 1
      /\ wpc = "del" => interest[wfd] = data
      /\ wpc = "close" => interest[wfd] = None
  BY DEF IInv, WorkerInv
<1> USE Kinds DEF InterestInv, Context, Committing, mainVars, kernelVars,
                  networkVars, workerVars
<1>1. CASE StartClient
  BY <1>1, <1>0 DEF StartClient
<1>2. CASE OpenSocket
  BY <1>2, <1>0 DEF OpenSocket
<1>3. CASE SocketFails
  BY <1>3, <1>0 DEF SocketFails, NextQuery
<1>4. CASE SendRequest
  BY <1>4, <1>0 DEF SendRequest
<1>5. CASE AllocArg
  BY <1>5, <1>0 DEF AllocArg
<1>6. CASE AllocArgFails
  BY <1>6, <1>0 DEF AllocArgFails, CloseFd, NextQuery
<1>7. CASE Register
  BY <1>7, <1>0 DEF Register, NextQuery
<1>8. CASE RegisterFails
  BY <1>8, <1>0 DEF RegisterFails, NextQuery
<1>9. CASE KeyPressed
  BY <1>9, <1>0 DEF KeyPressed
<1>10. ASSUME NEW q \in Queries, Deliver(q) PROVE InterestInv'
  BY <1>10, <1>0 DEF Deliver
<1>11. CASE Wait
  BY <1>11, <1>0 DEF Wait
<1>12. CASE Handle
  <2>1. PICK d \in batch : /\ wpc = "handle" /\ calls' = [calls EXCEPT ![d] = @ + 1]
                            /\ data' = d /\ wpc' = "del"
                            /\ UNCHANGED <<table, interest, arg, added>>
    BY <1>12 DEF Handle
  <2>2. d \in Queries /\ d \in added /\ calls[d] = 0
    BY <1>0
  <2>3. calls'[d] = 1 /\ \A q \in Queries \ {d} : calls'[q] = calls[q]
    BY <1>0, <2>1, <2>2
  <2>. QED
    BY <1>0, <2>1, <2>2, <2>3
<1>13. CASE BatchDone
  BY <1>13, <1>0 DEF BatchDone
<1>14. CASE Release
  <2>1. wpc \in {"del", "close", "free"} /\ data # None /\ data \in Queries
    BY <1>0, <1>14 DEF Release
  <2>2. \A q \in added : calls[q] = 0 => q # data
    BY <1>w, <2>1
  <2>3. CASE wpc = "del"
    <3>1. \A fd \in Fds \ {wfd} : interest[fd] # None => interest[fd] # data
      BY <1>0, <1>w, <2>1
    <3>2. \A q \in added : calls[q] = 0 => arg[q] # wfd
      BY <1>0, <1>w, <2>2, <2>3
    <3>3. /\ interest' = [interest EXCEPT ![wfd] = None]
          /\ UNCHANGED <<table, arg, added, calls, data>> /\ wpc' = "close"
      BY <1>14, <2>3 DEF Release
    <3>4. wfd \in Fds /\ interest'[wfd] = None
          /\ \A fd \in Fds \ {wfd} : interest'[fd] = interest[fd]
      BY <1>0, <2>1, <3>3
    <3>. QED
      BY <1>0, <2>3, <3>1, <3>2, <3>3, <3>4
  <2>4. CASE wpc = "close"
    <3>1. \A q \in added : calls[q] = 0 => arg[q] # wfd
      BY <1>0, <1>w, <2>4
    <3>2. /\ table' = [table EXCEPT ![wfd] = None]
          /\ interest' = [interest EXCEPT ![wfd] = None]
          /\ UNCHANGED <<arg, added, calls, data>> /\ wpc' = "free"
      BY <1>14, <2>4 DEF Release, CloseFd
    <3>. QED
      BY <1>0, <2>4, <3>1, <3>2
  <2>5. CASE wpc = "free"
    <3>1. \A fd \in Fds : interest[fd] # None =>
            calls[interest[fd]] = 0 /\ interest[fd] # data
      BY <1>0, <1>w, <2>1, <2>2, <2>5
    <3>2. /\ arg' = [arg EXCEPT ![data] = None]
          /\ UNCHANGED <<table, interest, added, calls>>
      BY <1>14, <2>5 DEF Release
    <3>. QED
      BY <1>0, <2>1, <2>2, <3>1, <3>2
  <2>. QED
    BY <2>1, <2>3, <2>4, <2>5
<1>15. CASE UNCHANGED vars
  BY <1>0, <1>15 DEF vars
<1>. QED
  BY <1>1, <1>2, <1>3, <1>4, <1>5, <1>6, <1>7, <1>8, <1>9,
     <1>10, <1>11, <1>12, <1>13, <1>14, <1>15 DEF Next, MainStep, WorkerStep

LEMMA NextWorkerInv == IInv /\ [Next]_vars => WorkerInv'
<1> SUFFICES ASSUME IInv, [Next]_vars PROVE WorkerInv'
  OBVIOUS
<1>0. WorkerInv /\ InterestInv /\ Context
  BY Facts DEF IInv
<1> USE Kinds DEF WorkerInv, Context, Committing, mainVars, kernelVars,
                  networkVars, workerVars
<1>1. CASE StartClient
  BY <1>1, <1>0 DEF StartClient
<1>2. CASE OpenSocket
  BY <1>2, <1>0 DEF OpenSocket
<1>3. CASE SocketFails
  BY <1>3, <1>0 DEF SocketFails, NextQuery
<1>4. CASE SendRequest
  BY <1>4, <1>0 DEF SendRequest
<1>5. CASE AllocArg
  BY <1>5, <1>0 DEF AllocArg
<1>6. CASE AllocArgFails
  BY <1>6, <1>0 DEF AllocArgFails, CloseFd, NextQuery
<1>7. CASE Register
  BY <1>7, <1>0 DEF Register, NextQuery
<1>8. CASE RegisterFails
  BY <1>8, <1>0 DEF RegisterFails, NextQuery
<1>9. CASE KeyPressed
  BY <1>9, <1>0 DEF KeyPressed
<1>10. ASSUME NEW q \in Queries, Deliver(q) PROVE WorkerInv'
  <2>1. inbox'[q] <= arrived'[q]
    BY <1>0, <1>10 DEF Deliver
  <2>. QED
    BY <1>0, <1>10, <2>1 DEF Deliver
<1>11. CASE Wait
  <2>1. \A d \in batch' : d \in added /\ calls[d] = 0
    BY <1>0, <1>11 DEF Wait, Ready, InterestInv
  <2>. QED
    BY <1>0, <1>11, <2>1 DEF Wait
<1>12. CASE Handle
  <2>1. PICK d \in batch : /\ wpc = "handle" /\ calls' = [calls EXCEPT ![d] = @ + 1]
                            /\ data' = d /\ wpc' = "del" /\ wfd' = arg[d]
                            /\ batch' = batch \ {d} /\ Receive(arg[d])
                            /\ UNCHANGED <<table, interest, arg, added, arrived>>
    BY <1>12 DEF Handle
  <2>2. d \in Queries /\ d \in added /\ calls[d] = 0
    BY <1>0
  <2>4. calls'[d] = 1 /\ \A q \in Queries \ {d} : calls'[q] = calls[q]
    BY <1>0, <2>1, <2>2
  <2>3. \A q \in Queries : inbox'[q] <= arrived'[q]
    BY <1>0, <2>1 DEF Receive
  <2>. QED
    BY <1>0, <2>1, <2>2, <2>3, <2>4
<1>13. CASE BatchDone
  BY <1>13, <1>0 DEF BatchDone
<1>14. CASE Release
  BY <1>14, <1>0 DEF Release, CloseFd
<1>15. CASE UNCHANGED vars
  BY <1>0, <1>15 DEF vars
<1>. QED
  BY <1>1, <1>2, <1>3, <1>4, <1>5, <1>6, <1>7, <1>8, <1>9,
     <1>10, <1>11, <1>12, <1>13, <1>14, <1>15 DEF Next, MainStep, WorkerStep

\* Every step of both threads and of the network keeps IInv.
LEMMA NextIInv == IInv /\ [Next]_vars => IInv'
BY NextTypeOK, NextMainInv, NextTableInv, NextInterestInv, NextWorkerInv DEF IInv

-----------------------------------------------------------------------------

\* The invariant of every run.
THEOREM Invariance == Spec => []IInv
BY InitIInv, NextIInv, PTL DEF Spec

\* Type correctness: the state of dns_async_client_commit and of its worker.
THEOREM TypeCorrect == Spec => []TypeOK
BY Invariance, PTL DEF IInv

\* No thread uses a descriptor that the other has given back and the kernel
\* given out again.
THEOREM OwnSocketHolds == Spec => []OwnSocket
<1>1. IInv => OwnSocket
  BY Facts DEF Context, OwnSocket, IInv, InterestInv, Fds
<1>. QED
  BY <1>1, Invariance, PTL

\* Neither the epoll instance nor the worker holds an ep_arg that is freed.
THEOREM ArgsLiveHolds == Spec => []ArgsLive
<1>1. IInv => ArgsLive
  BY Facts, Kinds DEF Context, ArgsLive, IInv, InterestInv, WorkerInv
<1>. QED
  BY <1>1, Invariance, PTL

\* Duplicated datagrams do not call a callback twice.
THEOREM CallbackOnceHolds == Spec => []CallbackOnce
<1>1. IInv => CallbackOnce
  BY DEF IInv, TypeOK, InterestInv, CallbackOnce
<1>. QED
  BY <1>1, Invariance, PTL

\* Nothing takes a registered query out of the epoll instance before its
\* callback.
THEOREM StaysRegisteredHolds == Spec => []StaysRegistered
<1>1. IInv => StaysRegistered
  BY Facts DEF Context, StaysRegistered
<1>. QED
  BY <1>1, Invariance, PTL

-----------------------------------------------------------------------------

\* Every way out of dns_async_client_commit and of the worker's loop closes
\* the socket, or leaves it registered, except for a failed registration.
LEMMA NextNoSocketLeak == IInv /\ NoSocketLeak /\ [Next]_vars => NoSocketLeak'
<1> SUFFICES ASSUME IInv, NoSocketLeak, [Next]_vars,
                    NEW fd \in Fds, table'[fd] # None
             PROVE  (\/ mpc \in Committing /\ fd = sockfd
                     \/ interest[fd] # None
                     \/ wpc = "close" /\ fd = wfd
                     \/ /\ table[fd] < query /\ table[fd] \notin added
                        /\ arg[table[fd]] = fd)'
  BY DEF NoSocketLeak
<1>0. /\ Context /\ (mpc = "add" => arg[query] = sockfd)
      /\ table[fd] \in Queries \cup {None} /\ table[fd] <= query
      /\ table[fd] = query => mpc \in Committing /\ fd = sockfd
      /\ wpc = "del" => interest[wfd] = data
  BY Facts DEF IInv, TypeOK, MainInv, WorkerInv, Context
<1>q. table[fd] < query + 1
  <2>1. query \in Nat
    BY <1>0 DEF Context
  <2>2. table[fd] \in Nat /\ table[fd] <= query
    BY <1>0, Kinds
  <2>. QED
    BY <2>1, <2>2
<1>2. CASE OpenSocket
  BY <1>0, <1>2, Kinds
  DEF OpenSocket, NoSocketLeak, Committing, workerVars, Context
<1>l. ASSUME ~OpenSocket
      PROVE  /\ table[fd] # None /\ table'[fd] = table[fd]
             /\ \/ mpc \in Committing /\ fd = sockfd
                \/ interest[fd] # None
                \/ wpc = "close" /\ fd = wfd
                \/ /\ table[fd] < query /\ table[fd] \notin added
                   /\ arg[table[fd]] = fd
  <2>1. table' = table \/ (\E f \in Fds : table' = [table EXCEPT ![f] = None])
    BY <1>0, <1>l DEF Next, MainStep, WorkerStep, StartClient, SocketFails, SendRequest,
       AllocArg, AllocArgFails, Register, RegisterFails, KeyPressed, Deliver, Wait,
       Handle, BatchDone, Release, CloseFd, vars, kernelVars, Context, Committing
  <2>2. table[fd] # None /\ table'[fd] = table[fd]
    BY <1>0, <2>1 DEF Context
  <2>. QED
    BY <2>2 DEF NoSocketLeak
<1> USE DEF Committing, mainVars, kernelVars, workerVars
<1>1. CASE StartClient
  BY <1>0, <1>1, <1>l DEF StartClient, OpenSocket, Context
<1>3. CASE SocketFails
  BY <1>0, <1>3, <1>l, <1>q DEF SocketFails, NextQuery, OpenSocket
<1>4. CASE SendRequest
  BY <1>4, <1>l DEF SendRequest, OpenSocket
<1>5. CASE AllocArg
  BY <1>0, <1>5, <1>l, Kinds DEF AllocArg, OpenSocket, Context
<1>6. CASE AllocArgFails
  <2>1. fd # sockfd
    BY <1>0, <1>6, <1>l DEF AllocArgFails, CloseFd, OpenSocket, Context
  <2>. QED
    BY <1>0, <1>6, <1>l, <1>q, <2>1
    DEF AllocArgFails, CloseFd, NextQuery, OpenSocket, Context
<1>7. CASE Register
  BY <1>0, <1>7, <1>l, <1>q, Kinds
  DEF Register, NextQuery, OpenSocket, Context
<1>8. CASE RegisterFails
  BY <1>0, <1>8, <1>l, <1>q
  DEF RegisterFails, NextQuery, OpenSocket, Context
<1>9. CASE KeyPressed
  BY <1>9, <1>l DEF KeyPressed, OpenSocket
<1>10. ASSUME NEW q \in Queries, Deliver(q)
       PROVE  (\/ mpc \in Committing /\ fd = sockfd
               \/ interest[fd] # None
               \/ wpc = "close" /\ fd = wfd
               \/ /\ table[fd] < query /\ table[fd] \notin added
                  /\ arg[table[fd]] = fd)'
  BY <1>2, <1>10, <1>l DEF Deliver
<1>11. CASE Wait
  BY <1>2, <1>11, <1>l DEF Wait
<1>12. CASE Handle
  BY <1>2, <1>12, <1>l DEF Handle
<1>13. CASE BatchDone
  BY <1>2, <1>13, <1>l DEF BatchDone
<1>14. CASE Release
  <2>1. CASE wpc = "del"
    BY <1>0, <1>2, <1>14, <1>l, <2>1 DEF Release, Context
  <2>2. CASE wpc = "close"
    <3>1. fd # wfd
      BY <1>0, <1>2, <1>14, <1>l, <2>2 DEF Release, CloseFd, Context
    <3>. QED
      BY <1>0, <1>2, <1>14, <1>l, <2>2, <3>1 DEF Release, CloseFd, Context
  <2>3. CASE wpc = "free"
    <3>1. /\ arg' = [arg EXCEPT ![data] = None] /\ data \in added
          /\ UNCHANGED <<mpc, query, sockfd, table, interest, added>>
      BY <1>0, <1>14, <2>3 DEF Release, Context
    <3>2. table[fd] \in Queries /\ arg \in [Queries -> Fds \cup {None}]
      BY <1>0, <1>14, <1>l DEF Context, Release, OpenSocket
    <3>3. table[fd] # data => arg'[table[fd]] = arg[table[fd]]
      BY <3>1, <3>2
    <3>. QED
      BY <1>2, <1>l, <2>3, <3>1, <3>3
  <2>. QED
    BY <1>14, <2>1, <2>2, <2>3 DEF Release
<1>15. CASE UNCHANGED vars
  BY <1>2, <1>15, <1>l DEF vars
<1>. QED
  BY <1>1, <1>2, <1>3, <1>4, <1>5, <1>6, <1>7, <1>8, <1>9,
     <1>10, <1>11, <1>12, <1>13, <1>14, <1>15 DEF Next, MainStep, WorkerStep

\* Sockets are released, one way or another, except after a failed
\* EPOLL_CTL_ADD.
THEOREM NoSocketLeakHolds == Spec => []NoSocketLeak
<1>1. Init => NoSocketLeak
  BY Kinds DEF Init, NoSocketLeak
<1>. QED
  BY <1>1, Invariance, NextNoSocketLeak, PTL DEF Spec
=============================================================================
