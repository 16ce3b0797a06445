# Verification of Learning_Project

The repository is a collection of small network and systems programs in C, each in a
directory of its own: worker pools, a DNS client, epoll servers, a WebSocket server, an
address book and others. The programs share no code, but they share idioms: an intrusive
doubly linked list (`LIST_INSERT`, `LIST_REMOVE`), a pool of threads around a mutex and a
condition, an event loop around epoll. This directory models them in TLA+, checks them with
TLC on small instances, and proves the most important properties for all instances with
TLAPS. `PROJECT.json` lists for each definition the lines of source it stands for.

## Inventory

| component | state | operations | hard because of | what makes it correct |
|---|---|---|---|---|
| thread pool (`pthread_pool`) | list of tasks, list of workers, mutex, condition, a `terminate` flag per worker | create, push, destroy; each worker's loop | threads; a flag and two list heads written without the lock; nodes freed by their owner | no task lost or run twice, no lost wake-up, no null task, shut-down leaves nobody asleep and touches no freed worker |
| connection pool (`mysql_pool`) | the same, and a MySQL handle per worker | the same; a task is a sequence of queries | the thread starts before its connection exists; the handle is closed by another thread | a task gets a worker that is ready; it is the thread pool with connections |
| asynchronous DNS client (`ASYNC_DNS`) | descriptors, epoll instance, a `struct ep_arg` per query | commit a query; the worker waits, calls back, releases | two threads without a lock; descriptor numbers are reused; datagrams are lost, late, duplicated | one callback per answered query; nobody uses a number that changed hands; no leak |
| epoll servers (`TCP_EPOLL`, `TCP_高并发`) | interest set, kernel queues | accept, receive, close | edge-triggered events: what is not read at an event is not reported again | whatever arrives is looked at once; the loop never blocks; no client is lost track of |
| load client (`TCP_高并发/tcp_client.c`) | open and watched sockets, a counter, the socket opened last | connect, poll, send, receive | an event is of one descriptor and is handled with another | no descriptor is closed twice; the counter covers the open connections and keeps to its limit |
| WebSocket reactor (`epoll_websocket`) | a `sockitem` per connection: callback, buffers, status | accept, receive, handshake, frame, send | one callback at a time, edge-triggered, byte streams cut anywhere | callback and interest agree; a frame is echoed; a freed item is not used |
| contacts (`Contacts`) | list of people, counter, files | insert, delete, search, print, save, load | pointer surgery; save followed by load; a process killed while it saves | the list is a sequence; load gives back what save wrote |
| synchronous DNS client and its messages (`dns`, the same functions in `ASYNC_DNS`) | a socket, the response, the parser's pointer | build a request, send, receive, parse record by record | compression pointers, records that are skipped, lost datagrams and errors | the request says what was asked; each record is parsed from where it starts; an answer ends the program |
| HTTP client (`Http`) | descriptor, result, the time left to wait | request, the loop over select and recv | timeouts, segments, errors of recv | the result is what the server sent, in a block that holds it; the request ends |
| word counter (`Count_word`) | a two-state scanner, tables of words | count | boundaries of words, fixed-size tables | each word counted as often as it occurs |
| lock (`Lock`) | a counter | increment from ten threads | atomicity | no increment is lost |
| design patterns (`设计模式`) | observer list, chain of handlers | attach, detach, notify, handle | calls from callbacks | each observer notified; a request finds its handler |

Within a program the parts interact through shared memory under a mutex (the pools), through
the kernel only (the DNS client: descriptors and the epoll instance) or through callbacks from
an event loop (the WebSocket server). The synchronous MySQL client and the design patterns
have no state worth a model; `PROJECT.json` says so for each.

## Plan

In this order, the most important first; all of it is done:

1. `TaskPool` (abstract), `ThreadPool`, `ThreadPoolProofs`.
2. `MysqlPool` on top of `ThreadPool`, `MysqlPoolProofs`.
3. `AsyncDns`, `AsyncDnsProofs`.
4. `WebSocketFrame` for the bytes of frames, `WebSocket` on top of it, `WebSocketProofs`.
5. `EpollServer`, `EpollServerProofs`.
6. `AddressBook` (abstract), `Contacts`, `ContactsProofs`: but for the counter and the entries
   that only print.
7. `DnsMessage`, the messages of both DNS clients, `DnsClient` on top of it, `DnsClientProofs`.
8. `Http` and `LoadClient`, both proved about in `ClientProofs`.

Every safety property the passing runs check is by now also a theorem. What could follow: DNS
answers with names that refer to themselves, and properties for the hazards that have none.

## Modules

### ThreadPool and TaskPool

`ThreadPool` models `pthread_pool/threadpool.c` whole: `main`, `nThreadPoolCreate`,
`nThreadPoolPushTask`, `nThreadPoolDestory`, `nThreadPoolCallback` and `task_entry`. The main
thread has a program counter `mpc`, each worker one in `wpc`. A worker's step ends wherever
another thread can tell: after taking the mutex, after testing `terminate` (which no lock
protects), when giving the mutex up. What main does under the mutex is seen by nobody in part,
so that each of its critical sections is one step, enabled while the mutex is free.
`pthread_cond_wait` is two steps, the atomic release-and-block and the return, which a signal,
a broadcast or nothing at all (a spurious wake-up) makes possible. Failures of `malloc` and
`pthread_create` are modelled where the code looks at them; the allocation of `user_data`,
whose result is not looked at, is taken to succeed. `nThreadPoolDestory` reads a worker's node
after setting its flag; if the worker has freed it, the read either finds the old pointer or
ends the process. After main returns the workers may still take steps until the process ends.

`TaskPool` is what a pool promises: a submitted task is started once at most, an executor runs
one task at a time, closing discards what has not been started. `ThreadPool` implements it
(`Implements`) under the refinement mapping that forgets lists, locks and conditions.

| run | question | bounds |
|---|---|---|
| `ThreadPool` | five invariants, the refinement of `TaskPool`, listed tasks run, destruction ends | 3 workers, 3 tasks: more tasks than the one being pushed and one being run, a worker to spare for each role in a lost wake-up; `FairSpec` |

Fairness: weak fairness of main's steps and of each worker's. The code gives no other thread a
way to keep a mutex, and glibc's scheduler runs every runnable thread; key presses, spurious
wake-ups and therefore the destruction itself are not fair. Weak fairness suffices for the
mutex because `Acquire`, once it is disabled by another holder, is not needed for the
properties: some worker takes the task.

Proved in `ThreadPoolProofs`, for every number of workers and of tasks: `TypeOK`, `NoNullTask`,
`FlagsLiveWorker`, `NoSleeperAfterBroadcast`, `TaskConservation`, `NoLostWakeup` and
`Implements`. The inductive invariant `IInv` adds to the types who holds the mutex where
(`LockInv`), what a worker holds at each point (`LocalInv`), which workers exist and are listed
(`CreatedInv`), how far the flags have been set (`FlagInv`) and that once all are set nobody is
between the test and the wait without the broadcast still to come (`QuietInv`). `NoNullTask`
is not inductive without them: the list is emptied without the mutex, and only `FlagInv` says
that by then every worker leaves rather than takes. Task conservation and the wake-up argument
(a signal moves one sleeper into `Coming` for the one task the push adds; a worker leaves
`Coming` with a task or when none is listed) are separate inductions on top of `IInv`.

### MysqlPool

`MysqlPool` extends `ThreadPool`, because `mysql_pool/Mysql_pool.c` is the same pool once more
with a connection in each worker: shared steps are `ThreadPool`'s actions with `conn` and
`stage` unchanged, and what differs is written out (the thread starts before `mysql_real_connect`
and `LIST_INSERT`; destruction closes the handle before it sets the flag; a task is a sequence
of queries; a second `getchar` keeps the process alive). A failing `mysql_init` or
`mysql_real_connect` both leave a closed handle. That a worker whose connection failed stays in
the pool and is given tasks, and that the destruction closes the handle of a task that is
running, are behaviours of the model, as they are of the code. `ImplementsPool` shows that, with
connections left out, every behaviour is one of `ThreadPool`.

| run | question | bounds |
|---|---|---|
| `MysqlPool` | readiness of the worker a task gets, destruction, refinement; every worker leaves after the destruction | 2 workers, 3 tasks, `MysqlFairSpec` |

Proved in `MysqlPoolProofs`: the refinement (`ImplementsPoolHolds`), and through it what
`ThreadPoolProofs` proves: of tasks, of wake-ups (`MysqlWakeupsHold`), and that the MySQL pool,
too, implements `TaskPool` (`MysqlImplementsTaskPoolHolds`); that destruction touches live
workers; that a task finds a ready worker, from an invariant that ties the creation loop's
position to `conn`, with the key fact that tasks are pushed only after the loop is over.

### AsyncDns

`AsyncDns` models `ASYNC_DNS/async_dns.c`: `dns_async_client_init`, `dns_async_client_commit`, the
worker `dns_async_client_callback`, and `main`. Each system call is a step. The kernel's part is
explicit: `table` gives out the lowest free descriptor and gets it back at `close`, `interest` is
the epoll instance (closing a descriptor takes it out). A query stands for the socket opened for
it and for its `ep_arg`, so that a number that changed hands is visible as a descriptor whose
query is another. The network delivers up to `MaxDatagrams` datagrams to an open socket, whenever
it likes or never; what a datagram says does not matter to the protocol, because the code does not
look at the result of `recvfrom`. epoll is level-triggered here. The `break` that ends the
worker's loop on an error of `epoll_wait` is left out: with an epoll instance that nobody closes
and a good array the kernel returns none but `EINTR`.

| run | question | bounds |
|---|---|---|
| `AsyncDns` | use of descriptors and of `ep_arg`s, one callback, registration kept, leaks; a datagram at a registered query leads to its callback | 3 queries on 3 descriptors, so that a query may get the number of an earlier one while a third is open; 2 events per wait, so that one of three ready sockets must wait; 2 datagrams per socket; `FairSpec` |

Fairness: weak fairness of each thread's steps, none of the network or of the key press.

Proved in `AsyncDnsProofs`, for every number of queries, descriptors, events and datagrams:
`TypeOK`, `OwnSocket`, `ArgsLive`, `CallbackOnce`, `StaysRegistered`, `NoSocketLeak`. There is
no lock to argue with; the invariant says who owns what: main the query it commits, the
epoll instance registered queries whose callback is still to come, the worker the query of the
event it handles, for which the order callback, `EPOLL_CTL_DEL`, `close`, `free` matters.

### WebSocket

`WebSocket` models `epoll_websocket/epoll_websocket.c`: the loop of `main` over `events[]`
(`Wait`, `Dispatch`), `accept_cb`, `recv_cb` (`RecvData`, `RecvEnd`), `send_cb`, and the functions
they call, `handshark` and `transform` with `decode_packet` and `encode_packet`. A `sockitem` is
five functions of the connection (`item`, `callback`, `status`, `recvbuffer`, `sendbuffer`). One
callback is one step: the program has one thread, and clients and network act on their own
queues in between.

A connection is a byte stream, and the code depends on where it is cut. The model keeps the cuts
that make a difference: the request is five parts (the lines before the key, the label of the key
in two halves, the rest of its value, the lines after), a frame two (header with mask, payload).
`Deliver` moves any number of parts into the receive queue, `recv` returns what is there up to
`BUFFER_LENGTH` parts. `KeyAt`, `Accept` and `Echo` say what the code makes of a buffer: a key
found or not, complete or cut; a frame, or something that is decoded as a frame without being one
(`Junk`). `handshark` takes the length of the SHA-1 digest with `strlen`, so that a key whose
digest holds a zero byte, about one in thirteen, is answered with a wrong one though the request
is whole: `CutKeys` are the clients with such a key. (If it is the first byte, nothing is encoded
and `base64_encode` writes its zero before the start of its output; the answer is wrong as well.)
`Pipelining` lets clients send without awaiting the echo, `Splitting` lets the network cut. epoll
is edge-triggered for connections (`edge`, looked at again by `EPOLL_CTL_ADD` and `EPOLL_CTL_MOD`)
and level-triggered for the listening socket.

Memory is as the code leaves it. `malloc` does not clear an item, so that its `recvbuffer` may
hold a request read into it before (`Leftovers`), which is read on into when what `recv` has
written ends before the empty line; without memory the process ends (`AcceptNoMemory`). `readline`
copies a line into the 256 bytes of `linebuf` however long it is: for a client that sends a longer
one (`LongLines`), and for one that runs on into old bytes, the process may end (`RecvOverrun`) or
go on as if nothing had happened. Two things of this kind are not modelled: a `recvbuffer` that is
full has no zero behind it, so that `strlen` runs on into `sendbuffer`; and what other than these
two outcomes an overwritten stack may lead to.

`WebSocketFrame` is what `decode_packet`, `umask` and `encode_packet` do with the bytes of a
frame. `decode_packet` tests the one-bit field `mask` where it means the length, so that of a
frame of 126 bytes or more it takes the extended length for a part of the mask; `FrameEchoed`
says that a frame comes back with its payload, in one frame with nothing behind it, exactly when
it is shorter than that. `WebSocket` instances it and puts the two together (`EchoHasPayload`):
what `WebSocket` calls the echo of frame n is one. `Payloads` and `Masks` are what clients send;
the protocol does not depend on them, and `WebSocketSafety` leaves them empty.

Abstracted: frames are shorter than 126 bytes, for the reason just given; there is always room
to send; `recv` never returns `EAGAIN`,
because epoll_wait reports what is readable and nobody else reads. A send on a connection that
was reset returns the socket's error once (`err`); when it has been returned, or the end of the
stream came first, send raises SIGPIPE, which ends the process (`alive`). Runs do not
check for deadlock: clients may all have left or be waiting.

| run | question | bounds |
|---|---|---|
| `WebSocketSafety` | callback and interest agree, no freed item used, nothing readable without an event, handshake first and once, echoes in order and never invented | 2 connections, 2 events, 2 frames each, a buffer of 4 parts (too small for the request), pipelined and split; both clients send long lines, so that they differ in nothing (`MCSymmetry`); 3.7 million states. Whether a key is right does not matter to these properties, so that `CutKeys` is empty |
| `WebSocketLockstep` | each echo comes, in order and with its payload, if clients wait and nothing is cut, and the key is right unless its digest holds a zero byte; clients are accepted | 2 clients, one of them with such a key, for 1 descriptor, 1 event, 2 frames, a buffer of 5 parts, `FairSpec`; a client whose key is wrong sends no frame, as a browser gives up the connection; payloads of 0 to 125 bytes around the boundaries of the mask and of the length, and longer ones, under 3 masks |

Fairness: weak for the server's steps and for TCP's delivery, none for what clients do. Strong
fairness of `Report(i)`, "epoll_wait reports i", for each descriptor: the kernel keeps ready
descriptors in a list, takes them from its front and puts the level-triggered ones back at the
end, so that none is passed over for ever. `Accepted` assumes that no client stays for ever:
with fewer descriptors than clients one that never leaves keeps another out.

Proved in `WebSocketProofs`, for any number of connections and frames and any buffer: `TypeOK`,
`CallbackMatches`, `BatchLive`, `ReadNotMissed`, `HandshakeFirst` and `EchoInOrder`. The first
invariant is a conjunction over connections
(`ConnInv`), so that an action is looked at for the connection it touches; its parts are the
agreement of callback, interest and `sendbuffer`, that a registered item is live, and where an
event is to come from (`AnswerComing`). `ReadNotMissed` holds although the code reads once for an
edge: after each message it registers anew twice, for output and for input again, and
registering looks at the descriptor. It is stated for established connections only; during
the handshake a request that is cut has no such second chance.

`HandshakeFirst` needs that an item still in the handshake has been answered nothing and that
the answer in the `sendbuffer` of a later one is to a frame exactly when something has been
answered (`HandInv`). `EchoInOrder` rests on an order of the parts of the byte stream (`Rank`):
what a connection has still to hand over, queue and wire together, rises in rank (`Sorted`), and
each echo, sent or ready, is of a frame that the stream has gone past (`Past`). A delivery leaves
the stream as it is (`MoveStream`), a recv takes its beginning (`DropStream`), and because
`recvbuffer` is empty whenever an established item reads, what is decoded as an echo of frame n
is frame n at the stream's beginning (`EchoDecoded`), after every frame echoed before.

Two theorems are about clients that await each answer (`LockstepEcho`, `EchoHasPayload`).
`LockstepEcho` is proved for behaviours of `Lockstep`: no `Pipelining`, no `Splitting` and a
buffer that holds a whole request. It says that the first answer has the right key, or, for a
client in `CutKeys`, a wrong one, whatever `malloc` has left in the buffer: what `recv` writes is
the whole request, whose key comes first (`KeyAt`, `Accept`). It is not inductive, since it speaks
of echoes that have been sent and says nothing of how the others stand. The invariant (`TurnInv`)
says where the one message of a connection is that is under way: on the wire, in the receive
queue, being answered (in the `sendbuffer`, with the item writable or about to be reported),
answered, or lost to a reset, and that in each of these places it is whole and the next in turn.
Each callback moves it by one place. `EchoHasPayload` is proved for every payload of less than
65536 bytes and every mask: to differ bit by bit twice from the same byte gives back the byte
(`XorTwice`, from the bits of a byte as their sum, `BitsOf` and `XorBits`); what a client sends is
the header, the mask and the masked payload (`FrameBytes`); `Decoded` and `Encoded` say what the
two functions make of it, byte by byte, for short and for long frames.

### EpollServer

`EpollServer` models the loops of `TCP_EPOLL/Tcp_server.c` and `TCP_高并发/tcp_server.c`, which
are the same but for the number of ports. Listening sockets are edge-triggered too, and the
loop answers an event with one `accept` or one `recv`. `Accept` covers the failing accept,
after which `EPOLL_CTL_ADD` of -1 fails as well. `edge` is the kernel's list of ready sockets;
`fresh` is a history variable: where something has come since the server last looked.
`client_routine` is used by code under `#if 0` only and is left out, like the timeout of
epoll_wait, after which the loop calls it again.

| run | question | bounds |
|---|---|---|
| `EpollServer` | nothing that comes is unannounced, no connection is forgotten, the loop never blocks, the server looks wherever something comes | 3 clients at 2 ports (two share one), 2 descriptors, 2 events; one client sends 2 pieces where a recv takes 1, one sends nothing; `FairSpec` |
| `EpollServerDisconnect` | violated: the socket of a client that has left is closed | 1 client, 1 piece, `FairSpec` |

Fairness is that of `WebSocket`. What the code cannot promise, and no property says, is that
every client is accepted and every byte read: what one accept or one recv leaves behind stays
until the next arrival. `EdgeNotLost` and `LookedAt` say exactly what is left.

Proved in `EpollServerProofs`: `TypeOK`, `EdgeNotLost`, `NobodyForgotten`, `NeverBlocks`, from
an invariant that adds that the watched sockets are the ports and the open ones
(`WatchedOpen`), that a connection queues at its own port until it is accepted
(`QueuedAtPort`), and that what came before the accept is still there for `EPOLL_CTL_ADD` to see
(`EarlyStays`), without which `EdgeNotLost` is not inductive.

### Contacts and AddressBook

`Contacts` models `Contacts/contacts.c`: the list with its `prev` and `next` pointers, the entries
of the menu that change something, and the files. `people`, `prev`, `next` are the pointers,
`person` what is in each node; a node is allocated while it has a person. `order` is a history
variable, the nodes in the order of the list. `ListInsert` is `LIST_INSERT` on a new node,
`ListRemove` is `List_REMOVE` with the `free` that follows. The program has one thread, but its
loops are a step per turn (`SearchNext` of `person_search`, `SaveNext` of `save_file`, `LoadNext`
of `load_file`), because the process can be killed between two (`Stop`, from anywhere), and what
`save_file` has flushed stays in the file.

A phone is a number behind some labels: `save_file` writes `phone: ` before it, `parser_token`
leaves out the space and keeps the label (`ParserToken`), and a phone with more than `MaxLabels`
overruns its array on the stack of `load_file`, which is modelled as the end of the process
(`LoadOverrun`). The end of the line, which becomes part of the phone as well, makes an empty
line in the next file; `parser_token` refuses it, so that it is left out. A name is cut at its
first comma (`BeforeComma`).

`load_file` ends its loop at `feof` and does not look at the result of `fgets`. On a file that
cannot be read, such as a directory, which `fopen` opens, `fgets` stores nothing, `feof` stays
false, and the loop turns until the process is killed (`LoadFails`, and `pc = "spin"`). It is the
only loop that need not end, and `LoopsEnd` says so.

Abstracted: `malloc` may fail at any time (in `load_file` this ends the loop), `fprintf` does
not; names and numbers that are typed fit in their arrays; a file that does not exist is an
empty one, since `load_file` does nothing either way. The pointer `scanf` writes the name
through in `delete_entry` is not initialized: the model has the outcomes that it ends the
process and that it hits memory nobody uses. `contacts.count`, which nothing reads,
`print_entry` and `search_entry` are left out. Files hold the lines `save_file` has written: one
without a comma, which a full disk or another program can leave there, is not modelled; the search
for the comma in `parser_token` has no bound and would leave the buffer.

`AddressBook` is the promise: a sequence of people, newest first; deleting removes the first of a
name; saving writes them in order into an emptied file and is over when the file holds the book;
loading adds what it reads in front. It promises no more than the code keeps: a file whose saving
was interrupted holds the first people only, and what is loaded is the person with a label more.
`Contacts` implements it with `[i \in DOMAIN order |-> person[order[i]]]` for the book.

| run | question | bounds |
|---|---|---|
| `Contacts` | types, the list is linked both ways and holds each allocated node once, the refinement of `AddressBook`, loops end | 3 nodes, so that a removal has a head, a middle and a tail; 2 names, one of which is the other with a comma and more, so that loading makes two people of one name; 1 number, 1 file, phones with 1 label at most, so that the second load overruns; reading may fail at any line; `FairSpec` |
| `ContactsLoad` | violated: load brings back the people the file was saved from | 1 node, 1 name |

Fairness: weak for the turns of the loops; the user and the signals are not fair.

Proved in `ContactsProofs`, for any memory, names, numbers and files: `TypeOK`, `ListLinked` and
`Implements`. Two lemmas carry it, `ListInsertFacts` and `ListRemoveFacts`: on a linked list the
two macros keep the list linked and are `Cons` and `RemoveAt` on the sequence it stands for. They
need facts about these two operators (`ConsFacts`, `RemoveAtFacts`). The inductive invariant
adds to types and list what the cursor of a loop has passed: none of the people before the
cursor of `person_search` has the name (`SearchInv`), so that what `Found` removes is the first;
those before the cursor of `save_file` are what the file holds (`SaveInv`), so that at the null
pointer it holds the book.

### DnsMessage and DnsClient

`DnsMessage` is what the functions of the messages compute, which `dns/dns.c` and
`ASYNC_DNS/async_dns.c` hold twice: `dns_create_header`, `dns_create_question`,
`dns_build_requestion`, `is_pointer`, `dns_parse_name` and the loops of `dns_parse_response`. A
message is a sequence of bytes, an offset counts from 0. A host is the sequence of what lies
between its dots: `strtok` passes over what is empty, and as the name is allocated for the whole
text and sent whole, bytes that nobody wrote go with it (`rest`). The length of a label is put in
a `char` (`% 256`). Without memory for the name `dns_create_question` returns early, and the
question stays as it was, all zeros (`BuildNameless`). The parser does not know where the response
ends: behind the 1024 bytes of the buffer it reads the stack, of which `Stack` is any sequence of
bytes followed by zeros (`ByteAt`). The loops over a name are functions of the number of turns
(`Reading`, `Skipping`), a turn being `NameTurn` and `SkipTurn`; as a turn passes at least one
byte, a name that does not come back to a place is read in as many turns as the message and the
stack have bytes (`Turns`).

`DnsClient` is `dns_client_commit`: open, send, receive, one step per record (`ReadRecord`),
return. Nobody looks at the result of `dns_create_question` nor at the length of the host: without
memory a request with no name and type 0 is sent (`SendNameless`), and one that does not fit in
the 1024 bytes of `request` overruns them (`SendOverrun`, the end of the process). `strdup`
without memory gives `strtok` a null pointer (`CopyFails`); the list without memory ends the
parser (`ListFails`), an item without memory the process (`ItemFails`). `recvfrom` leaves out what
the buffer of 1024 bytes has no room for. The parser writes names into arrays of 128 bytes; when
one does not fit (`Overruns`) the stack behind them is overwritten, which the model takes for the
end of the process (`ReadOverrun`). Server and network are the environment: they lose a datagram,
send back an error in its place (an ICMP message, or a header without records, which the code
takes alike), or answer with any of a set of zones, with the owners of the records as pointers or
in full.

| run | question | bounds |
|---|---|---|
| `DnsClient` | the request read back with the client's own parser says what was asked and ends where its type begins, or is one without a name, which no server can read; the parser is at the start of a record at each turn and lists the addresses under the right names; an answer or an error ends the program, by a crash if need be | 8 hosts, among them one with 2 dots in a row, one that ends in a dot, labels of 192 and 256 bytes, and one whose request is a byte longer than the buffer; 10 zones, among them chains of aliases, one so long that an owner lies beyond byte 256, one with a DNAME record, an alias too long for the arrays, and 8 aliases that do not fit in the buffer; 5 bytes of the stack, with a length and a pointer; 2 values for what malloc left; malloc, strdup and calloc may fail; `FairSpec` |

`RequestReadBack` is about hosts whose labels have 1 to 191 bytes, lengths that the parser takes
for lengths (`Readable`), and puts no bound on the host: a request that has been sent is the one
for the host, or one without a name that is not `Understood`. `RecordsInStep` is about answers
that fit in the buffer, whose owners are pointers into the first 256 bytes (`dns_parse_name` uses
the second byte of a pointer alone) and whose records are addresses or CNAMEs, since the data of
others is not passed over (`Plain`). These limits are those of the code; hosts and zones beyond
them are part of the run, and the program ends there too. Names that refer to themselves, and
counts a server has made up, are left out. Fairness: weak for the program's steps, none for the
network, so that `ClientEnds` starts from what has arrived.

Proved in `DnsClientProofs`, for any hosts, of any length, ids, leftovers, zones and bytes of the
stack that satisfy the assumptions of `DnsClient`, which say no more than what their bytes and
records are: `RequestReadBack` and `RecordsInStep`. The argument has four layers.

- The functions over `0 .. n` that stand for the loops exist and take the values their bodies say
  (`Loop`), by an induction on sets of numbers (`LeastNat`, `Induct`), as the induction theorems
  of the library take an operator and cannot be used. `Collected` says where each part of a
  concatenation built by such a loop stands.
- From it come the bytes that are sent: those of a name (`FullNameParts`), of a request
  (`RequestParts`) and of an answer (`MessageParts`), in which every record is found behind its
  predecessor.
- What the parser makes of them: where a name stands, `NameAt` is its text and `NameEnd` the offset
  behind it (`NameRead`, `NameSkipped`, from the last label back to the first); through a pointer
  the owner is read (`OwnerRead`) and the record with it (`RecordRead`).
- The invariants: `Asked`, that the request is one for the host or has no name, which a server then
  cannot read (`NamelessNotUnderstood`); and `InStep`, that the buffer holds
  the message of the answer, the pointer is `Ends[i]`, and the list holds the addresses of the first
  `i` records in their order (`Listed`). `RecordsInStep` alone is not inductive: it does not say
  what is in the buffer, nor that nothing is listed before the answer comes.

### Http

`Http` models `Http/http_request.c`: `host_to_ip`, `http_create_socket` and `http_send_request`
with its loop over `select` and `recv`. The k-th byte of the response is k, or 0 for a zero byte,
where `strncat` stops; `result` is the string, `size` what has been allocated for it. `tv` is the
timeout, from which Linux takes what `select` has waited; the code does not set it again, so that
the waits of all turns share it. A failing connect leaves the descriptor -1 (`ConnectFails`). On a
reset `recv` returns -1, which is added to the string's length as if it were one (`RecvFails`).

| run | question | bounds |
|---|---|---|
| `Http` | what has been collected and what is still to be read is what was sent, and nothing is left when the stream has ended; the block holds the string and its end until recv fails; the request ends | a buffer of 2 bytes and 5 bytes sent, so that a response takes three turns and a turn may find less or more than the buffer holds; 2 units of time; `FairSpec` |

Fairness: weak for the program's step, of which the passing of time in `select` is one; none for
the server. A server that sends for ever would keep the loop alive; `MaxSent` stands for a
response that is finite.

Proved in `ClientProofs`, for any buffer, timeout and number of bytes: `TypeOK`, `NothingLost`,
`ResultFits`. `NothingLost` is not inductive, since after a reset it says nothing of what is still
in the socket; the invariant says of each byte where it is (`Placed`): result and inbox together
are an initial part of what was sent, all of it unless the connection was reset.

### LoadClient

`LoadClient` models `main` of `TCP_高并发/tcp_client.c`: a turn opens a connection (`Connect`), and
when a batch is complete or the limit is reached looks at the events of all (`Wait`, and a step
per event). An event is of `clientfd`, and it is `clientfd` that is closed, but data is sent to
and received from `sockfd`, the socket opened in this turn or descriptor 0. `peer`, `unread` and
`full` say what the servers have done with each socket.

| run | question | bounds |
|---|---|---|
| `LoadClientDisconnect` | violated: a connection that is given up is one its server has ended | 3 descriptors, limit 3, batch 3 |

Proved in the second part of `ClientProofs`, for any finite set of descriptors and positive limit
(`FiniteFds`, `PositiveLimit`): `TypeOK`; `EventsOpen`, every event still to be looked at is of an
open descriptor and no descriptor has two, so that none is closed twice although the branches work
on another descriptor than the event's; `CounterCoversOpen`, the counter covers the open sockets
and keeps to the limit. The second is inductive because every decrement goes with a close of a
descriptor that `EventsOpen` says is open; the reverse does not hold, since closes after a failing
recv are not counted.

## What is only model-checked

Liveness under fairness (`ListedTaskRuns`, `DestroyReturns`, `WorkersLeave`,
`AnswerCalledBack`, `EchoComes`, `Accepted`, `LookedAt`, `LoopsEnd`, `ClientEnds`, `RequestEnds`)
and everything that rests on `ENABLED` is checked by TLC on the instances above and is out of the
prover's reach.
The other way round, the type invariants and `EventsOpen` and `CounterCoversOpen` of `LoadClient`
are proved for all instances and not listed in a run.

## Findings

Three runs show a disagreement between the code and what the repository says of it: the epoll
servers never notice a client that leaves right after it has sent something
(`EpollServerDisconnect`); a person who is saved and loaded has another phone (`ContactsLoad`);
the load client reports as disconnected, and closes, connections that their servers have not
ended, because the descriptor it reads from is not the event's (`LoadClientDisconnect`).
`PROJECT.json` quotes the lines.

Other things the models do because the code does, and which no run is about: the destruction of
the thread pool may read the node of a worker that has freed it; a request of the HTTP client that
is reset in the middle loses the room for the end of its string; the DNS clients wait for ever for
a datagram that was lost, parse a record whose predecessor is neither an address nor a CNAME from
the wrong place, overrun the request with a long host, and without memory ask for nothing; the
WebSocket server answers one key in thirteen wrongly, and overruns its array with a long line; the
address book spins on a file that cannot be read; of two connections that come together to an
epoll server the second waits until somebody else connects.

## Not modelled

- The word counter (`Count_word`): a pure function of one file, read in one pass with two states;
  what may go wrong there needs no interleaving to be seen.
- The lock (`Lock`): what is compiled is one atomic instruction per increment, and one thread
  that reads; the variants with a mutex and a spin lock are compiled out.
- The synchronous MySQL client (`MySQL`): one connection used in a straight line. Its query
  functions are those of the connection pool, where they run concurrently.
- The design patterns (`设计模式`): the functions that would decide or change something have an
  empty body or none.
- `contacts.count`, which nothing reads, and the entries of the menu that only print.
- Rows and images of the database, texts of requests and messages, formatting and logging, SQL
  scripts, pictures and the test page.
