-------------------------------- MODULE Http --------------------------------
(***************************************************************************)
(* Http/http_request.c: http_send_request connects to a server, sends one  *)
(* GET request and collects the response in a loop over select and recv.   *)
(* The server sends what it likes, closes the connection or resets it at   *)
(* any time.                                                               *)
(*                                                                         *)
(* The k-th byte of the response is k, or 0 when it is a zero byte, where  *)
(* strlen and strncat stop. Time is counted in units of select's timeout.  *)
(***************************************************************************)
EXTENDS Integers, Sequences, SequencesExt

CONSTANTS BufferSize,  (* BUFFER_SIZE                                       *)
          Seconds,     (* tv: five seconds                                 *)
          MaxSent      (* bound: bytes of a response                       *)

ASSUME BufferAssumption == BufferSize \in Nat \ {0}
ASSUME SecondsAssumption == Seconds \in Nat
ASSUME SentAssumption == MaxSent \in Nat

VARIABLES
  pc,         \* where http_send_request is, or how it has ended
  connected,  \* http_create_socket has not returned -1
  peer,       \* "open", "closed" or "reset" by the server; "ended" when the
              \* program has been told of the reset
  sent,       \* what the server has sent
  inbox,      \* what of it is in the socket's buffer
  tv,         \* the time select may still wait: Linux takes off what it waited
  result,     \* the string of the response
  size        \* bytes allocated for it

serverVars == <<peer, sent, inbox>>
resultVars == <<result, size>>
vars == <<pc, connected, serverVars, tv, resultVars>>

Init ==
  /\ pc = "resolve" /\ connected = FALSE
  /\ peer = "open" /\ sent = <<>> /\ inbox = <<>>
  /\ tv = Seconds
  /\ result = <<>> /\ size = 4

-----------------------------------------------------------------------------
(* http_send_request *)

\* gethostbyname; without an address the null pointer goes to inet_addr.
Resolve ==
  /\ pc = "resolve"
  /\ pc' \in {"connect", "crashed"}
  /\ UNCHANGED <<connected, serverVars, tv, resultVars>>

\* http_create_socket
Connect ==
  /\ pc = "connect"
  /\ connected' = TRUE
  /\ pc' = "send"
  /\ UNCHANGED <<serverVars, tv, resultVars>>

\* return -1, which FD_SET takes for a descriptor: a checked build stops there,
\* in another select is given no descriptor at all and waits for the time.
ConnectFails ==
  /\ pc = "connect"
  /\ pc' \in {"select", "crashed"}
  /\ UNCHANGED <<connected, serverVars, tv, resultVars>>

\* send, whose result is not looked at: a reset that has come is reported here.
Send ==
  /\ pc = "send"
  /\ peer' = IF peer = "reset" THEN "ended" ELSE peer
  /\ pc' = "select"
  /\ UNCHANGED <<connected, sent, inbox, tv, resultVars>>

Readable == connected /\ (inbox # <<>> \/ peer # "open")

\* select waits; the time it waits is taken off tv.
Tick ==
  /\ pc = "select" /\ ~Readable /\ tv > 0
  /\ tv' = tv - 1
  /\ UNCHANGED <<pc, connected, serverVars, resultVars>>

\* select returns 0: break.
TimeOut ==
  /\ pc = "select" /\ ~Readable /\ tv = 0
  /\ pc' = "timedOut"
  /\ UNCHANGED <<connected, serverVars, tv, resultVars>>

\* select returns 1.
Select ==
  /\ pc = "select" /\ Readable
  /\ pc' = "recv"
  /\ UNCHANGED <<connected, serverVars, tv, resultVars>>

\* What strncat appends of the bytes received: those before a zero byte.
BeforeZero(bytes) ==
  LET zeros == {k \in DOMAIN bytes : bytes[k] = 0}
  IN  IF zeros = {} THEN bytes ELSE SubSeq(bytes, 1, Min(zeros) - 1)

\* Fault: the string is stored from the last block on.
RecvOver ==
  /\ pc = "recv" /\ inbox # <<>>
  /\ LET len == Min({BufferSize, Len(inbox)})
     IN  /\ result' = BeforeZero(SubSeq(inbox, 1, len))
         /\ size' = Len(result) + len + 1
         /\ inbox' = SubSeq(inbox, len + 1, Len(inbox))
  /\ pc' = "select"
  /\ UNCHANGED <<connected, peer, sent, tv>>

\* Fault: no room for the end of the string.
RecvTight ==
  /\ pc = "recv" /\ inbox # <<>>
  /\ LET len == Min({BufferSize, Len(inbox)})
     IN  /\ result' = result \o BeforeZero(SubSeq(inbox, 1, len))
         /\ size' = Len(result) + len
         /\ inbox' = SubSeq(inbox, len + 1, Len(inbox))
  /\ pc' = "select"
  /\ UNCHANGED <<connected, peer, sent, tv>>

\* recv returns len bytes: realloc to strlen(result) + len + 1, then strncat.
Recv ==
  /\ pc = "recv" /\ inbox # <<>>
  /\ LET len == Min({BufferSize, Len(inbox)})
     IN  /\ result' = result \o BeforeZero(SubSeq(inbox, 1, len))
         /\ size' = Len(result) + len + 1
         /\ inbox' = SubSeq(inbox, len + 1, Len(inbox))
  /\ pc' = "select"
  /\ UNCHANGED <<connected, peer, sent, tv>>

\* Fault: the end of the stream does not end the loop.
RecvEndAgain ==
  /\ pc = "recv" /\ inbox = <<>> /\ peer \in {"closed", "ended"}
  /\ pc' = "select"
  /\ UNCHANGED <<connected, serverVars, tv, resultVars>>

\* recv returns 0: break.
RecvEnd ==
  /\ pc = "recv" /\ inbox = <<>> /\ peer \in {"closed", "ended"}
  /\ pc' = "closed"
  /\ UNCHANGED <<connected, serverVars, tv, resultVars>>

\* recv returns -1, which is added as a length: the string loses the room for
\* its end, which strncat then writes behind the block. The allocator may
\* find out; an empty string is freed, and strncat gets a null pointer.
RecvFails ==
  /\ pc = "recv" /\ inbox = <<>> /\ peer = "reset"
  /\ peer' = "ended"
  /\ size' = Len(result)
  /\ pc' \in IF result = <<>> THEN {"crashed"} ELSE {"select", "crashed"}
  /\ UNCHANGED <<connected, sent, inbox, tv, result>>

-----------------------------------------------------------------------------
(* The server and the network *)

\* More of the response arrives.
Arrive ==
  /\ connected /\ peer = "open"
  /\ pc \notin {"send", "crashed"}
  /\ Len(sent) < MaxSent
  /\ \E byte \in {Len(sent) + 1, 0} :
       sent' = Append(sent, byte) /\ inbox' = Append(inbox, byte)
  /\ UNCHANGED <<pc, connected, peer, tv, resultVars>>

Close ==
  /\ connected /\ peer = "open"
  /\ peer' = "closed"
  /\ UNCHANGED <<pc, connected, sent, inbox, tv, resultVars>>

\* What has not been read may be lost with a reset.
Reset ==
  /\ connected /\ peer = "open"
  /\ peer' = "reset"
  /\ inbox' \in {inbox, <<>>}
  /\ UNCHANGED <<pc, connected, sent, tv, resultVars>>

-----------------------------------------------------------------------------

Ended == pc \in {"closed", "timedOut", "crashed"}

ClientStep ==
  \/ Resolve \/ Connect \/ ConnectFails \/ Send \/ Tick \/ TimeOut \/ Select
  \/ Recv \/ RecvEnd \/ RecvFails

ServerStep == Arrive \/ Close \/ Reset

Next == ClientStep \/ ServerStep

Spec == Init /\ [][Next]_vars

\* The program runs when it can and time passes; the server promises nothing.
FairSpec == Spec /\ WF_vars(ClientStep)

-----------------------------------------------------------------------------
(* Properties *)

TypeOK ==
  /\ pc \in {"resolve", "connect", "send", "select", "recv", "closed",
             "timedOut", "crashed"}
  /\ connected \in BOOLEAN
  /\ peer \in {"open", "closed", "reset", "ended"}
  /\ sent \in Seq(Nat) /\ inbox \in Seq(Nat)
  /\ tv \in 0 .. Seconds
  /\ result \in Seq(Nat) /\ size \in Nat

\* However the bytes of a response without zero bytes arrive in pieces, and
\* whatever recv takes of them: what has been collected and what is still to
\* be read is what the server has sent, in order; after a reset it is the
\* beginning of it. When the end of the stream ends the loop nothing is left.
NothingLost ==
  0 \notin Range(sent) =>
    /\ IF peer \in {"open", "closed"} THEN result \o inbox = sent
                                      ELSE IsPrefix(result, sent)
    /\ pc = "closed" => inbox = <<>>

\* The block the string is in has room for its end, until recv fails.
ResultFits == peer # "ended" => Len(result) < size

\* The program ends: the time of all the waits together is limited, because
\* select's timeout is not set again, and the end of the stream ends the loop.
RequestEnds == <>Ended
=============================================================================
