---------------------------- MODULE MCDnsClient -----------------------------
(* Values for DnsClient: letters are bytes, a host is a sequence of labels. *)
EXTENDS DnsClient

A == <<97>>
BC == <<98, 99>>
Long(c, n) == [k \in 1 .. n |-> c]

\* Hosts: one label, three labels, a host as long as its CNAMEs, one that
\* ends with a dot, one with two dots in a row, one with a label whose length
\* is a pointer's first byte, one with a label whose length is a zero byte, and
\* one whose request is one byte longer than the buffer.
MCHosts == {<<BC>>, <<A, BC, A>>, <<Long(97, 40), Long(98, 40), BC>>, <<BC, A, <<>>>>,
            <<A, <<>>, BC>>, <<BC, Long(97, 192)>>, <<Long(97, 256), BC>>,
            <<Long(97, 503), Long(98, 503)>>}
MCIds == {<<18, 52>>}
MCRests == {0, 65}

\* Behind the buffer: two bytes that are neither the end of a name nor a pointer,
\* a pointer to the question's name, and a length.
MCStack == <<1, 97, 192, 12, 3>>

Address(n) == [type |-> HostType, data |-> <<10, 0, 0, n>>]
Cname(labels) == [type |-> CnameType, data |-> labels]
Dname(labels) == [type |-> 39, data |-> labels]

\* Zones: nothing, addresses, an alias with its addresses, a chain of aliases
\* so long that the last owner is beyond the first 256 bytes, an answer that
\* begins with a DNAME record, an alias too long for the parser's arrays, and
\* more records than the buffer holds.
MCZones == {<<>>, <<Address(1)>>, <<Address(1), Address(2)>>,
            <<Cname(<<A, A>>), Address(1), Address(2)>>,
            <<Cname(<<BC>>), Cname(<<A, BC>>), Address(3)>>,
            <<Address(1), Cname(<<A>>), Address(2)>>,
            <<Cname(<<Long(99, 40), Long(100, 40), A>>),
              Cname(<<Long(101, 40), Long(102, 40), A>>),
              Cname(<<A, BC>>), Address(1)>>,
            <<Dname(<<BC, A>>), Cname(<<A, BC, A>>), Address(1)>>,
            <<Address(1), Cname(<<Long(99, 60), Long(100, 60), BC, BC, A>>), Address(1)>>,
            Append([k \in 1 .. 8 |-> Cname(<<Long(99, 60), Long(100, 60)>>)], Address(1))}
=============================================================================
