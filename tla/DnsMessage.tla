----------------------------- MODULE DnsMessage -----------------------------
(***************************************************************************)
(* The messages of the DNS clients, ASYNC_DNS/async_dns.c and dns/dns.c,   *)
(* which hold the same functions: how a request is put together and how    *)
(* names are read out of a response. A message is a sequence of bytes; an  *)
(* offset counts from 0, as the pointers of the code do.                   *)
(*                                                                         *)
(* A host is the sequence of what lies between the dots of its text: an    *)
(* empty label stands for two dots in a row or a dot at either end.        *)
(***************************************************************************)
EXTENDS Integers, Sequences

CONSTANT Stack  (* the bytes behind the buffer of a response, as far as they  *)
                (* are not zero                                               *)

ASSUME StackAssumption == Stack \in Seq(0 .. 255)

\* The buffers of a request and of a response.
BufferSize == 1024

Dot == 46
HostType == 1      \* DNS_HOST
CnameType == 5     \* DNS_CNAME

\* The texts of a host's first k labels. The text of them all, whose length is
\* strlen(hostname), is what the program is started with.
Texts(host) ==
  LET text[k \in 0 .. Len(host)] ==
        IF k = 0 THEN <<>>
        ELSE text[k - 1] \o (IF k = 1 THEN host[k] ELSE <<Dot>> \o host[k])
  IN  text
Text(host) == Texts(host)[Len(host)]

Short(n) == <<n \div 256, n % 256>>

\* dns_create_header: a random id, the flag for recursion, one question.
Header(id) == id \o Short(256) \o Short(1) \o Short(0) \o Short(0) \o Short(0)

\* The loop over strtok in dns_create_question, after each label: an empty one
\* is passed over, another is copied behind its length, which is put in a char.
Labels(host) ==
  LET name[k \in 0 .. Len(host)] ==
        IF k = 0 THEN <<>>
        ELSE name[k - 1] \o (IF host[k] = <<>> THEN <<>>
                             ELSE <<Len(host[k]) % 256>> \o host[k])
  IN  name

\* Fault: room for the lengths and the labels, none for the end.
QuestionNameOpen(host, rest) == Labels(host)[Len(host)]

\* dns_create_question: each label is copied with its NUL, which the next one
\* overwrites. The name has strlen(hostname) + 2 bytes, whatever was written:
\* those that were not hold what malloc left there, rest.
QuestionName(host, rest) ==
  LET name == Labels(host)[Len(host)]
      ended == IF name = <<>> THEN name ELSE Append(name, 0)
  IN  [i \in 1 .. Len(Text(host)) + 2 |->
         IF i <= Len(ended) THEN ended[i] ELSE rest]

\* dns_build_requestion
BuildRequest(id, host, rest) ==
  Header(id) \o QuestionName(host, rest) \o Short(1) \o Short(1)

\* Without memory for the name dns_create_question returns early: the question
\* keeps the zeros it was filled with, no name, type 0 and class 0.
BuildNameless(id) == Header(id) \o Short(0) \o Short(0)

-----------------------------------------------------------------------------

\* The buffer of a response is filled with zeros before it is received. The
\* parser does not know where it ends, and reads what is behind it.
ByteAt(message, p) ==
  IF p < Len(message) THEN message[p + 1]
  ELSE IF p >= BufferSize /\ p < BufferSize + Len(Stack) THEN Stack[p - BufferSize + 1]
  ELSE 0

\* Bytes other than zero, and so turns of a loop that does not come back to a
\* place, there are no more.
Turns(message) == Len(message) + Len(Stack)

ShortAt(message, p) == 256 * ByteAt(message, p) + ByteAt(message, p + 1)

BytesAt(message, p, n) == [i \in 1 .. n |-> ByteAt(message, p + i - 1)]

\* is_pointer: both upper bits are set.
IsPointer(byte) == byte >= 192

\* A turn of the loop of dns_parse_name, where name is what the later turns read
\* from each offset on: a label, with a dot behind it unless a zero byte follows;
\* or a pointer, of which the second byte alone is the offset, where the name
\* goes on and with which it ends.
NameTurn(message, p, name) ==
  LET flag == ByteAt(message, p)
      next == p + flag + 1
  IN  IF flag = 0 THEN <<>>
      ELSE IF IsPointer(flag) THEN name[ByteAt(message, p + 1)]
      ELSE BytesAt(message, p + 1, flag)
           \o (IF ByteAt(message, next) # 0 THEN <<Dot>> ELSE <<>>) \o name[next]

\* What k turns read from each offset on.
Reading(message) ==
  LET name[k \in 0 .. Turns(message)] ==
        IF k = 0 THEN [p \in Nat |-> <<>>]
        ELSE [p \in Nat |-> NameTurn(message, p, name[k - 1])]
  IN  name

\* dns_parse_name
NameAt(message, ptr) == Reading(message)[Turns(message)][ptr]

\* A turn of the loop over the name of a question, which ends behind the zero
\* byte. A pointer is taken for a length.
SkipTurn(message, p, end) ==
  LET flag == ByteAt(message, p) IN IF flag = 0 THEN p + 1 ELSE end[p + flag + 1]

\* Where k turns end from each offset on.
Skipping(message) ==
  LET end[k \in 0 .. Turns(message)] ==
        IF k = 0 THEN [p \in Nat |-> p]
        ELSE [p \in Nat |-> SkipTurn(message, p, end[k - 1])]
  IN  end
NameEnd(message, ptr) == Skipping(message)[Turns(message)][ptr]

\* dns_parse_response, before its first record: the question and answer
\* counts and the offset behind the questions, each with its type and class.
FirstRecord(message) ==
  LET querys == ShortAt(message, 4)
      behind[n \in 0 .. querys] ==
        IF n = 0 THEN 12 ELSE NameEnd(message, behind[n - 1]) + 4
  IN  behind[querys]
Answers(message) == ShortAt(message, 6)

\* Fault: the length is read out of the time to live.
RecordAtTtl(message, ptr) ==
  LET type == ShortAt(message, ptr + 2)
      datalen == ShortAt(message, ptr + 8)
  IN  [found |-> type = HostType /\ datalen = 4,
       ip |-> BytesAt(message, ptr + 12, 4),
       next |-> ptr + 12 + datalen]

\* What one turn of the loop of dns_parse_response does with a record. Its
\* owner's name is passed over as two bytes whatever it is; the data of a type
\* other than A and CNAME is not passed over; an A record counts when its
\* address has four bytes.
RecordAt(message, ptr) ==
  LET type == ShortAt(message, ptr + 2)
      datalen == ShortAt(message, ptr + 10)
  IN  [found |-> type = HostType /\ datalen = 4,
       ip |-> BytesAt(message, ptr + 12, 4),
       next |-> ptr + 12 + (IF type \in {HostType, CnameType} THEN datalen ELSE 0)]
=============================================================================
