----------------------------- MODULE DnsClient ------------------------------
(***************************************************************************)
(* dns/dns.c: dns_client_commit asks the server for one host, waits for    *)
(* the answer and takes the addresses out of it. The functions of the      *)
(* messages are those of DnsMessage. The server and the network are the    *)
(* environment: the request or the answer may be lost, an error may come   *)
(* back in place of the answer, and the server chooses the records and how *)
(* it writes their names.                                                  *)
(***************************************************************************)
EXTENDS DnsMessage, FiniteSetsExt

CONSTANTS Hosts,  (* the hosts the program is started with                 *)
          Ids,    (* two random bytes                                      *)
          Rests,  (* what malloc may leave in a byte                       *)
          Zones   (* the sequences of records the server may answer with   *)

\* A server's names have labels of 1 to 63 bytes; its records are addresses, or
\* of a type, two bytes, whose data is a name.
Letter == 1 .. 255
Word == 0 .. 65535
Names == {name \in Seq({label \in Seq(Letter) : Len(label) \in 1 .. 63}) :
            name # <<>> /\ Len(Text(name)) <= 253}
Addresses == [type : {HostType}, data : [1 .. 4 -> 0 .. 255]]
Aliases == [type : Word \ {HostType}, data : Names]

ASSUME HostsAssumption == \A h \in Hosts : h \in Seq(Seq(Letter)) /\ h # <<>>
ASSUME IdsAssumption == Ids \subseteq [1 .. 2 -> 0 .. 255]
ASSUME RestsAssumption == Rests \subseteq 0 .. 255
ASSUME ZonesAssumption ==
  \A z \in Zones : z \in Seq(Addresses \cup Aliases) /\ Len(z) \in Word

VARIABLES
  pc,        \* where dns_client_commit is
  host,      \* its argument
  request,   \* what sendto has sent
  wire,      \* what is on its way: nothing, the request, an error or an answer
  answer,    \* the answer: the host and the request it is for, its records and
             \* how their owners are written
  response,  \* the buffer: the bytes received, followed by zeros
  ptr,       \* offset of the parser's pointer
  i,         \* records parsed
  list       \* the items found

vars == <<pc, host, request, wire, answer, response, ptr, i, list>>
parserVars == <<response, ptr, i, list>>

Init ==
  /\ pc = "socket"
  /\ host \in Hosts
  /\ request = <<>> /\ wire = "nothing"
  /\ answer = [host |-> host, request |-> <<>>, records |-> <<>>, pointers |-> TRUE]
  /\ response = <<>> /\ ptr = 0 /\ i = 0 /\ list = <<>>

-----------------------------------------------------------------------------
(* dns_client_commit *)

\* socket and connect, whose failure is only printed.
Open ==
  /\ pc = "socket"
  /\ pc' = "send"
  /\ UNCHANGED <<host, request, wire, answer, parserVars>>

\* if(sockfd < 0) return -1;
OpenFails ==
  /\ pc = "socket"
  /\ pc' = "failed"
  /\ UNCHANGED <<host, request, wire, answer, parserVars>>

\* The header, the question and the request made of them.
Requests == {BuildRequest(id, host, rest) : id \in Ids, rest \in Rests}
NamelessRequests == {BuildNameless(id) : id \in Ids}

\* sendto; when it fails the program waits for an answer all the same.
SendTo(message) ==
  /\ request' = message
  /\ wire' \in {"request", "nothing"}
  /\ pc' = "receive"
  /\ UNCHANGED <<host, answer, parserVars>>

Send ==
  /\ pc = "send"
  /\ \E message \in Requests : Len(message) <= BufferSize /\ SendTo(message)

\* The result of dns_create_question is not looked at.
SendNameless ==
  /\ pc = "send"
  /\ \E message \in NamelessRequests : SendTo(message)

Crash ==
  /\ pc' = "crashed"
  /\ UNCHANGED <<host, request, wire, answer, parserVars>>

\* The host's length is not looked at either: a request that does not fit
\* overwrites what is behind the buffer on the stack.
SendOverrun ==
  /\ pc = "send"
  /\ \E message \in Requests : Len(message) > BufferSize
  /\ Crash

\* strdup has no memory: strtok is given a null pointer, with no text left from
\* an earlier call.
CopyFails ==
  /\ pc = "send"
  /\ Crash

\* recvfrom returns: its result is not looked at, and when it is an error the
\* buffer holds zeros. The parser reads the counts and passes the questions.
Receive(message) ==
  /\ pc = "receive"
  /\ wire' = "nothing"
  /\ response' = message
  /\ ptr' = FirstRecord(message)
  /\ pc' = "records"
  /\ UNCHANGED <<host, request, answer, i, list>>

\* dns_parse_name for the record's owner.
Owner == NameAt(response, ptr)

\* The names dns_parse_name writes in this turn do not fit into the 128 bytes of
\* aname and cname with a zero behind them.
Overruns ==
  \/ Len(Owner) >= 128
  \/ ShortAt(response, ptr + 2) = CnameType /\ Len(NameAt(response, ptr + 12)) >= 128

\* What is behind the arrays on the stack is overwritten.
ReadOverrun ==
  /\ pc = "records"
  /\ i < Answers(response)
  /\ Overruns
  /\ Crash

\* No memory for the list: the parser gives up before the first record.
ListFails ==
  /\ pc = "records"
  /\ i = 0
  /\ pc' = "done"
  /\ UNCHANGED <<host, request, wire, answer, parserVars>>

\* No memory for an item: its address is copied to a null pointer.
ItemFails ==
  /\ pc = "records"
  /\ i < Answers(response)
  /\ RecordAt(response, ptr).found
  /\ Crash

\* One turn of the loop over the answers.
ReadRecord ==
  /\ pc = "records"
  /\ i < Answers(response)
  /\ ~ Overruns
  /\ LET record == RecordAt(response, ptr)
     IN  /\ ptr' = record.next
         /\ list' = IF record.found
                    THEN Append(list, [domain |-> Owner, ip |-> record.ip])
                    ELSE list
  /\ i' = i + 1
  /\ UNCHANGED <<pc, host, request, wire, answer, response>>

\* The loop has ended: the list is freed and the program with it.
Return ==
  /\ pc = "records"
  /\ i >= Answers(response)
  /\ pc' = "done"
  /\ UNCHANGED <<host, request, wire, answer, parserVars>>

-----------------------------------------------------------------------------
(* The server and the network *)

\* A name as RFC 1035 writes it without pointers.
FullName(labels) == Append(Labels(labels)[Len(labels)], 0)

Pointer(offset) == Short(49152 + offset)

\* The aliases before record k.
AliasesBefore(answered, k) ==
  {j \in 1 .. k - 1 : answered.records[j].type = CnameType}

\* The name that record k of the answer is about: the host, or the name the
\* last CNAME before it stands for.
OwnerOf(answered, k) ==
  LET before == AliasesBefore(answered, k)
  IN  IF before = {} THEN answered.host ELSE answered.records[Max(before)].data

Data(record) == IF record.type = HostType THEN record.data ELSE FullName(record.data)

\* The offsets behind the question and behind each record, where owners are
\* pointers or not.
Ends(answered) ==
  LET records == answered.records
      end[k \in 0 .. Len(records)] ==
        IF k = 0 THEN Len(answered.request)
        ELSE end[k - 1] + 10 + Len(Data(records[k]))
             + (IF answered.pointers THEN 2 ELSE Len(FullName(OwnerOf(answered, k))))
  IN  end

\* Where the owner of record k stands in full: in the question or in the data
\* of a CNAME.
OwnerOffset(answered, k) ==
  LET before == AliasesBefore(answered, k)
      alias == Max(before)
  IN  IF before = {} THEN 12
      ELSE Ends(answered)[alias] - Len(Data(answered.records[alias]))

\* A record with its type, class, time to live, length and data.
Record(answered, k) ==
  LET record == answered.records[k]
  IN  (IF answered.pointers THEN Pointer(OwnerOffset(answered, k))
                            ELSE FullName(OwnerOf(answered, k)))
      \o Short(record.type) \o Short(1) \o Short(0) \o Short(300)
      \o Short(Len(Data(record))) \o Data(record)

\* The request's id and question with the records behind them, one by one.
Written(answered) ==
  LET asked == answered.request
      records == answered.records
      text[k \in 0 .. Len(records)] ==
        IF k = 0
        THEN SubSeq(asked, 1, 2) \o Short(33152) \o Short(1) \o Short(Len(records))
             \o Short(0) \o Short(0) \o SubSeq(asked, 13, Len(asked))
        ELSE text[k - 1] \o Record(answered, k)
  IN  text
Message(answered) == Written(answered)[Len(answered.records)]

\* The server can read the question: a name that ends where the type begins.
Understood == NameEnd(request, 12) + 4 = Len(request)

\* The request or its answer is lost, or an error comes back: an ICMP message,
\* or a header without questions and answers, which the parser takes alike.
NetworkFails ==
  /\ wire = "request"
  /\ wire' \in {"nothing", "error"}
  /\ UNCHANGED <<pc, host, request, answer, parserVars>>

\* The server answers a question it can read.
Answer ==
  /\ wire = "request"
  /\ Understood
  /\ wire' = "answer"
  /\ \E records \in Zones, pointers \in BOOLEAN :
       answer' = [host |-> host, request |-> request,
                  records |-> records, pointers |-> pointers]
  /\ UNCHANGED <<pc, host, request, parserVars>>

\* recvfrom leaves out what the buffer has no room for.
ReceiveAnswer ==
  /\ wire = "answer"
  /\ LET message == Message(answer)
     IN  Receive(SubSeq(message, 1, Min({Len(message), BufferSize})))

\* Fault: an error makes the program wait again.
ReceiveErrorAgain ==
  /\ wire = "error" /\ pc = "receive"
  /\ wire' = "nothing"
  /\ UNCHANGED <<pc, host, request, answer, parserVars>>

ReceiveError == wire = "error" /\ Receive(<<>>)

-----------------------------------------------------------------------------

ClientStep ==
  \/ Open \/ OpenFails
  \/ Send \/ SendNameless \/ SendOverrun \/ CopyFails
  \/ ReceiveAnswer \/ ReceiveError
  \/ ReadRecord \/ ReadOverrun \/ ListFails \/ ItemFails \/ Return

Next == ClientStep \/ NetworkFails \/ Answer

Spec == Init /\ [][Next]_vars

\* The program runs when it can; the network promises nothing.
FairSpec == Spec /\ WF_vars(ClientStep)

-----------------------------------------------------------------------------
(* Properties *)

\* Labels whose lengths dns_parse_name reads as lengths: not as the end and not
\* as a pointer.
Readable(labels) == \A k \in DOMAIN labels : Len(labels[k]) \in 1 .. 191

\* What is asked for a host with such labels is the host: read with the function
\* the client has for responses, the request's name is the host's text, and it
\* ends where the type begins, whatever malloc had left in the name. Or malloc
\* had nothing, and the request is none that a server can read.
RequestReadBack ==
  (request # <<>> /\ Readable(host)) =>
    \/ NameAt(request, 12) = Text(host) /\ Understood
    \/ request \in NamelessRequests /\ ~ Understood

\* The answers the parser is made for: the buffer has room for them, every
\* owner is a pointer to the first 256 bytes, and every record is an address
\* or a CNAME.
Plain(answered) ==
  /\ Len(Message(answered)) <= BufferSize
  /\ answered.pointers
  /\ \A k \in DOMAIN answered.records :
       /\ answered.records[k].type \in {HostType, CnameType}
       /\ OwnerOffset(answered, k) < 256

\* While such an answer is parsed the pointer is behind the records passed, and
\* the list holds the addresses of those, each under its owner's name, in the
\* order of the answer.
RecordsInStep ==
  (pc = "records" /\ response # <<>> /\ Readable(host) /\ Plain(answer)) =>
    LET records == answer.records
        addresses == {k \in 1 .. i : records[k].type = HostType}
    IN  /\ ptr = Ends(answer)[i]
        /\ \E of \in [DOMAIN list -> addresses] :
             /\ \A m, n \in DOMAIN list : m < n => of[m] < of[n]
             /\ \A k \in addresses : \E n \in DOMAIN list : of[n] = k
             /\ \A n \in DOMAIN list :
                  list[n] = [domain |-> Text(OwnerOf(answer, of[n])),
                             ip |-> records[of[n]].data]

\* The program ends once an answer or an error has come, whatever is in it. A
\* lost one is never asked for again: the program then waits for ever.
ClientEnds == (wire \in {"answer", "error"}) ~> pc \in {"done", "crashed"}
=============================================================================
