# A specification of RPC-Broker

RPC-Broker is a broker for remote procedure calls in C. Servers register the
operations they offer with a broker; client stubs send their calls to the
broker, which passes each to a server and the server's answer back to the
client. These modules specify that system as the code under `src/` implements
it, check it with TLC and prove its central properties with TLAPS.

Three levels of detail are specified apart from each other, and tied together
where one rests on another:

- processes that exchange whole packets, with every order, failure and restart
  (RpcBroker, over Protocol, Network, Broker, Server, Client), which implements
  the abstract RpcService;
- below a packet: its headers, the loops that read them, and the values of
  arguments and results (Marshal, over Wire and Interface), which implements
  the abstract LocalCall;
- below a connection: select loops, threads, the lock and accept queues
  (AcceptLoops), which implements the abstract Backlogs, the view that Broker
  and Server take; and the statements that store a registration
  (RegistrationStore).

## The system

| component | state it keeps | operations |
|---|---|---|
| connections (`common/common.c`, stulibc) | the accept queue of every process | `send_req`, `get_response`, `thread_send_request` |
| broker (`broker/`) | `svc_repo`: registered services; `clnt_req_repo`: requests waiting for a response; rows in `broker.db` | `read_data`: registration, request, response, anything else; time-out of `select` |
| server (`server/`) | `isRegistered`, shared by its threads | register, listen, a thread per connection: acknowledgement, request, anything else; time-out |
| client (`client/`, generated stubs) | nothing but the call in progress and its sending thread | stub: pack, start the sending thread, listen, take the first packet; time-out |
| headers (`common/common.c`) | none | packing and look-up of headers |
| marshalling (proxies, `unpack_marshal_call.c`) | none | arguments and results to and from msgpack |

Every message travels on a TCP connection of its own, opened by `send_req` and
closed after one packet. A call takes four of them:

    client --request--> broker --request--> server
    client <--response-- broker <--response-- server

and a registration two (server to broker, acknowledgement back). A response
names neither the client nor its address: the broker finds the client through
the message id and the operation of the entry it made when it forwarded the
request.

What is hard about it:

- *Concurrency.* Broker, servers and clients are processes; a server handles
  each connection in a thread of its own, so a request can overtake the
  acknowledgement that came before it, and responses change order. A client
  sends its request in a thread that works on the stack frame of
  `send_and_receive` while the main thread opens the socket for the response.
- *Failure.* A refused connect, a truncated packet or a time-out ends the
  process (`netError(1, ...)`), so one missing listener takes the broker down
  and both repositories with it. Processes are started again with the same
  addresses, and with the same message ids, since `rand()` is never seeded.
- *Stale state.* Registrations are never removed; entries of lost requests
  stay; answers arrive after the client that waited for them has gone; the
  temporary table that carries the id of a registration outlives a failure.
- *Implicit order.* Both loops over headers use variables that an earlier
  header has set, if it was packed earlier, and, for the one that the loop's own
  body declares, if the build kept it; a getter that finds nothing says so with
  a 0 or with an unwritten variable.

What makes each part correct:

- broker: every response it gets has the entry of its request, the entry leads
  to the client that made the request, and is gone when the call is answered;
- server: a request is carried out once, by a server that offers it, and only
  a race between two of its own threads makes it drop one;
- client: a stub returns the result of the very call it made, and its sending
  thread has sent the request before its frame is gone;
- together: calls are carried out at most once and answered with their own
  result, and are answered when their service is ready and the broker stays up.

`PROJECT.json` lists the hazards with their lines.

## The modules

- **Protocol**: the packets, one record field per header, and the functions
  that build them. Arguments are abstracted to the identity of the call
  (client, run of its process, number of the call) and a result to the
  arguments it was computed from, so "is this the answer to that call" can be
  asked. `Rand[k]` is the k-th value of `rand()`, the same in every process.
- **Network**: processes and connections. `backlog[p]` is the queue of
  connections made to `p` and not yet handled, `listening` the set of
  processes with an open socket. `send_req` needs a listening peer; where the
  code would be refused, the component's action takes the branch that ends the
  process. `netError` ends a process and drops what is queued for it;
  `netErrorMidSend` does so between connect and send and leaves the peer an
  empty connection (`EOF`).
- **Lists**: `Without`, the one operator on sequences that several share.
- **Broker**: one action for each branch of `read_data`. The handler runs to
  completion before the next connection is accepted (and under one lock when
  `USE_THREADING` is defined), so it is atomic; AcceptLoops shows it.
- **Server**: `ServerRegister` and `ServerBind` in the order of `main`;
  one action for each branch of `ReadAndProcessDataOnSocket`, applicable to any
  queued connection, because each has its own thread. A request takes its
  thread two steps, `Execute` and `SendResult`: between them the result is in
  `results`, other threads go on, and the process may end (`ServerStops`).
- **Client**: `CallStub`, then `ClientBind` (main thread) and `SendRequest`
  (sending thread) in any order, then `ReceiveResponse`. When the thread has
  sent (`sent`), it reads `verbose` in the frame once more (`ThreadReturns`),
  maybe after the call has returned; only whether it prints depends on it.
  `SendDangling` is a thread that sends after its frame is gone; as the code's behaviour is undefined
  there, it may fault, send the request unharmed, send a freed buffer, or send
  the request of the call that uses the frame now.
- **RpcService**: the abstract specification. A client makes calls one after
  the other; each is performed at most once, and returns after that with its
  own result. No broker, no packets.
- **RpcBroker**: the composition, its fairness and its properties, and the
  refinement mapping to RpcService (`issued <- callNo`, `performed <-
  executions`, `returned <- replies`).
- **MCRpcBroker**: the values of the constants for TLC.
- **Wire**: a packet as a sequence of headers, each a name and a value of a
  msgpack kind. The packing functions write the packets of `protocol.h` in the
  order the code does; `get_hdr_int` returns the last match and takes positive
  integers only, `get_hdr_str` and `get_op_name` the first.
- **Interface**: signatures and results of the operations in
  `server_interface.c`. `int` is `-MaxInt-1 .. MaxInt` and wraps around.
- **Marshal**: one client, one server and the broker exchange packets of
  Wire. `unpack_service_registration_buffer` and `unpack_marshal_call_send`
  take a step per header; `locals` holds their local variables, `Unwritten`
  until they are set. `ptrOperation` is declared in the body of the server's
  loop, set in one round and read in another, where C leaves its value open:
  `slotKept`, chosen once, says whether this build keeps it, as `Round` shows; if
  not, `CallUnknown` finds no operation, or ends the server. An `int` parameter that is below zero is a null pointer
  to the stub of the server, which ends it.
- **LocalCall**: the abstract specification of a stub: enter, and leave with
  the value of the operation as `server_interface.c` defines it, with two
  exceptions: a result below zero is
  returned as 0, and a call with an argument below zero does not return.
- **AcceptLoops**: `brokerQueue` and `serverQueue` are accept queues of
  `ListenQueue` places, `brokerHands` and `serverHands` the connections that
  were accepted; `lockWaiters` and `acceptWaiters` count the threads that have
  been started and got no further. `threading` is the build: with
  `USE_THREADING` the broker starts threads, which take the lock or are refused
  it; without, `main` runs the handler itself and there is never more than one.
- **Backlogs**: the abstract specification: one queue each, from which the
  broker takes the oldest connection and a server any, in one step.
- **RegistrationStore**: `reg_svc_req`, one action per SQL statement. A
  failing statement skips the rest of its `sqlite3_exec` (`ReportError`), the
  broker may end between any two (`Restart`). `ServiceRegistration`,
  `Services` and `Variables` are the tables; a row is known by the
  registration it was written for.
- **MCMarshal**, **MCAcceptLoops**, **MCRegistrationStore**: values for TLC.
- **RpcBroker_proofs**, **Queues_proofs**, **Delivery_proofs**,
  **Entries_proofs**, **Marshal_proofs**, **AcceptLoops_proofs**,
  **RegistrationStore_proofs**, **Lists_proofs**: the theorems.

Operators marked `Mutant` change a definition the way a slip in the code would
and are used nowhere; each property is known to be violated when the definition
next to the mutant is replaced by it.

### What is assumed of code outside `src/`

stulibc is not part of the repository. From its uses we take: `netError(1, ..)`
does not return (the code after it would use sockets and lengths known to be
invalid); `netTcpClient` and `netTcpServer` report failure that way;
`netReadn` returns 0 when the connection was closed; `THREAD_RunAndForget`
starts a thread and returns; `LIST_Add` appends. A listening socket takes
connections before `accept` is called, as many as `BacklogBound` says.

`UnmatchedResponse` ends the broker: `read_data` then connects to an address
read from memory that was never written, which faults or is refused.
The time-outs of broker and client are taken only with no connection queued:
`select` reports one that is. A server's has no such guard, because its
`backlog` includes connections that its threads have accepted. A connect to a full accept queue waits for room. `AquireLock` may
refuse a lock that is taken, as the branch of `process_data_avail` for that
case expects, or wait for it; both are modelled.

`STR_Reverse` reverses in place, `STR_Join` concatenates. msgpack chooses the
kind of an integer by its sign, and zero is positive. Addition of ints wraps
around, as compilers translate it. SQLite commits each statement, and gives
ids of an INTEGER PRIMARY KEY in order as no row is deleted. The statements of
`reg_svc_req` are longer than the buffer they are formatted into; what then
happens is undefined, and taken to be one of the cases there are anyway: a
garbled statement fails, or the process ends.

## The runs

| run | instance | question |
|---|---|---|
| `faults` | 2 clients with 2 calls, 2 servers, one run of each process, everybody may be stopped or time out | is the promise kept and the bookkeeping right when processes end at any point? |
| `server_restart` | 2 clients with 1 call, 2 servers; broker and first server are stopped and started again | what do a lost repository and a stale registration do? |
| `client_restart` | 2 clients with 2 calls, 1 server; the first client is stopped and started again | where do answers to an earlier run go? |
| `live` | as `faults`, nobody is stopped, with fairness | are calls answered and registrations acknowledged? |
| `marshal` | all seven operations with all arguments, ints -3..2, strings empty and not; ids 0 and the greatest | does a call through packets behave as a call? |
| `loops` | 4 calls, accept queues of 1 place, 2 surplus threads, with `USE_THREADING` and without | do the loops handle every connection once, and go on? |
| `store` | 3 registrations of 2, 1 and 2 services; the broker ends twice | does the database hold what was acknowledged? |

The runs that are expected to find a violation are listed further down.

Two clients are the least that can be confused, two calls the least for an
answer to come late for one and early for the next, two operations and two
servers the least for a request to go to the wrong one, and two runs the least
for a restart. One server offers one operation and the other both, so the
first match in `svc_repo` matters. Message ids repeat between processes
(`Rand = <<1, 2>>`) in every run; `DistinctPrograms` lets the clients make the
same calls in different order so that operation and id together stay distinct
(`NoCollision`).

Ints of three bits have everything that matters of 32: zero, both signs, and
overflow. Queues of one place are the fullest, and four calls let broker and
server each hold one connection with another queued and one more to come; two
surplus threads are one that gets the connection and one that does not. Three
registrations let the value that a failure leaves in `Variables` meet a later
service of the same registration, and another registration; two ends of the
broker, one on either side of that. `MaxThreads`, `ListenQueue`,
`MaxRegistrations`, `MaxStops` and `MaxInt` are the bounds of these modules, and
the theorems hold for all of them.

Deadlock is not checked: a client that has finished, or waits for an answer
that was lost, stops, and so does the system.

What they show, besides types:

- `RoutedToRequester`: a response reaches only the client it answers.
- `CallAtOnePlace`: a call is waiting to be sent, in one packet, or returned,
  and never twice.
- `ResponseMatched`: in the first run of the broker there is an entry for
  every forwarded request whose response is outstanding, so the path that uses
  an unwritten Location is not taken.
- `AnsweredIsForgotten`: an answered call has no entry left.
- `AckBeforeRequest`: in its first run a server that has a request queued and
  is not registered has the acknowledgement queued before it; only the order of
  its own threads can lose the request.
- `SentFromFrame`: a thread that has not sent its request finds its frame, so
  that it sends the packet of its call to the broker, while no client restarts.
  With restarts it may not (`client_restart` takes `SendDangling`). It is no more
  than that: what the thread reads after the send may be gone, as the comment at
  `send_and_receive.c:85` fears.
- `BacklogBound`: the accept queues never hold more connections than processes
  have been started; it is what makes the unbounded queues of the model
  harmless.
- `RequestAtProvider`: requests wait only at servers that offer them.
- `PromiseKept`: the system implements `RpcService` while no client restarts,
  whatever happens to broker and servers.
- `ReadyCallAnswered`, `RegistrationCompletes`: progress, unless the broker
  goes down. It may, by the races listed below, even if nobody stops it.

And of the other levels:

- `BehavesLocally`: what a caller sees of Marshal is LocalCall: a call that
  returns has the value that the operation in `server_interface.c` returns. For
  `echo` that is not the value its declaration promises.
- `SetBeforeUse`: the headers that the array of a packet relies on come before
  it. What they set is then still there, but for `ptrOperation` in a build that
  does not keep it.
- `RegistrationUnderstood`: the broker holds location and services as the
  server has them, although they are packed in reverse.
- `ResponseAwaited`: id and operation come back from the server such that they
  match the entry of the call, and only that.
- `ServerSurvives`: in a build that keeps `ptrOperation`, nothing but an int
  below zero ends the server. One does, although `protocol.h:11` allows any
  integer as a value.
- `CallReturns`: in such a build every other call returns.
- `HandlesAsOneStep`: AcceptLoops implements Backlogs, so Broker and Server may
  take a connection for one step.
- `EveryCallAnswered`: broker and server never wait for each other although
  both hold a connection while they connect, because a server accepts in any
  number of threads; and the lock is always released.
- `ServicesAttributed`: a row of Services has the id of its own registration if
  that has a row, whatever failed before or was left in `Variables`: INSERT OR
  REPLACE overwrites it. If the INSERT of the registration failed, its services
  are written all the same, with the id of the latest registration before it, or
  no id when there is none.
- `AcknowledgedIsStored`: what was acknowledged without an error is stored
  once, completely, in order.
- `StoredIsAcknowledged`: errors do not keep a registration from being
  acknowledged.

Fairness is weak and only on threads that run anyway: the broker's loop, main
and connection threads of a server, main and sending thread of a client.
Starting, stopping, timing out and making the next call are not fair. In
AcceptLoops a connect with room, a free lock with a waiter, and each kind of
thread that can go on are fair, a refused lock is not; the client of Marshal
need make no call; of RegistrationStore only the broker's own statements are
fair.

### Where the code and its comments disagree

Five have a run that finds a counterexample.

- `same_program`: `protocol.h:44` says the response goes to the requesting
  client. Two clients that run the same program, as `client.c` is run, make
  requests with equal ids and operations, and get each other's answers.
- `late_answer`: `send_and_receive.c:64` says it waits for its response. It
  takes whatever arrives first; after a restart that may be the answer to an
  earlier run.
- `refused_ack`: `register_service.c:52` speaks of three tries. The first
  refused connect ends the broker, and a server registers before it listens.
- `negative_result`: `common.c:289` says that `get_hdr_int` gets the integer
  value of a header. It returns 0 for one below zero, and so does
  `diffirence(1, 0)`.
- `lost_operation`: `unpack_marshal_call.c:9` says that the response is sent back.
  `ptrOperation` is a variable of the loop's body (line 34), set in one round and
  read in another: in a build that does not keep it no operation is called, or
  the server faults. Builds that leave it in its place show nothing of it.

Three more follow from what passing runs check, stated there as the code has it.

- `server_interface.h:23` says of `echo` that it "returns the same output as the
  input". `server_interface.c:16` reverses it, as `client.c:30` expects, which
  prints the result as "reverse echo"; `BehavesLocally` has the reversed text.
- `broker_support.c:36` says that old requests are not purged.
  `find_client_for_response.c:29` deletes the entry that it answers:
  `AnsweredIsForgotten`.
- By the schema at `register_service.c:77` a service refers to its registration.
  When the INSERT of that fails, line 89 goes on and stores the services with
  `MAX(id)`, the id of another: `ServicesAttributed` says of which.

## The proofs

`RpcBroker_proofs` proves for all values of the constants, under
`ProtocolAssumption` and `NetworkAssumption`:

- `Invariance`: `Spec => []IInv`
- `TypeCorrect`: `Spec => []TypeOK`
- `ResponsesRouted`: `NoCollision => (Spec => []RoutedToRequester)`
- `RequestsServable`: `Spec => []RequestAtProvider`

`RoutedToRequester` is not inductive: it says nothing of the response that is
on its way to the broker, nor of the entry that will decide where it goes.
`IInv` (checked by `client_restart`) adds where everything comes from. A
request carries operation and id of the call of its client's program (`Sound`),
an entry those of some call of the client at its location (`SoundEntry`), a
response those of the call it answers. When `find_client_for_response` finds an
entry that agrees with the response, both belong to calls with the same
operation and id, and `NoCollision` makes their clients the same. The
invariant is stated with sets of sound packets and `backlog[p] \in
Seq(Sound(p))`, so that appending, taking the head, and leaving out an element
each need one fact about sequences. There is one lemma per action that changes
more than types, one per component, and one for the whole step.

`Queues_proofs` proves two things about the connections queued for a process.

Order. `AcknowledgedFirst`: `Spec => []AckBeforeRequest`. The broker puts a
registration into `svc_repo` and sends the acknowledgement in one step, and a
request can be sent to a server only afterwards; but the queue that the property
is about is changed by every sender and by each thread of the server. The
invariant `AckOK` says, of a server in its first run that is not registered, that
each request in its queue has an acknowledgement before it, and that there is one
as soon as a registration leads to it; a lemma for each action shows which queues
it leaves alone.

Number. `BacklogBounded`: `IsFiniteSet(Servers) /\ IsFiniteSet(Clients) =>
(Spec => []BacklogBound)`. The length of one queue is not inductive: what is
about to join it is a request in the broker's queue, before that an unsent call
of a client, and before that a main thread that has not called yet. `BudgetInv`
(`Budgeted`: `Spec => []BudgetInv`) says for each process `b` that all of this
together, `Tokens(b)`, injects into `StartsFor(b)`, the starts of the processes
whose work can end in a connection to `b` (`Payers`). A handler exchanges a token
for at most one other, a start adds one on each side, a stop and a lost packet only
remove. The invariant compares by injection (`Into`) and needs no finite set; the
theorem has the hypothesis because `Cardinality`, with which the property counts,
means nothing of infinite sets. The sets of a running system are finite.

`Delivery_proofs` follows a call through the system. Under two conditions,
`NoCollision` and `NoClientRestart` (`Restartable` holds no client; broker and
servers may end and be started at any time), it proves

- `ImplementsService`: `Spec => PromiseKept`, the whole system implements
  RpcService
- `CallsInOnePlace`: `Spec => []CallAtOnePlace`
- `RequestsSentFromFrames`: `Spec => []SentFromFrame`
- `Delivered`: `Spec => []DeliveryInv`, on which they rest

None of the three is inductive. That a request has not been carried out before
is only known because no other packet is about its call; that no other is, only
because its client has sent one; and that the client has sent one only because
the call before had returned, which needs that results come for the call that is
waited for. `DeliveryInv` has these parts together: `Unique` (no two packets,
with results not yet sent counted among them, are about one call), `TokensOK`
(the call of each is the last of its client, sent and not returned, and
`executions` counts 1 for a response or a result and 0 for a request),
`UnsentOK` (what has not been sent has not been carried out) and `CallerOK` (in
its only run a client has one call at most without a result, and its results are
those of its calls in order). Queues are compared by `Part(r, q, i)`: what
is in `r` was in `q`, other than at `i`, and nothing twice. With it there are three
kinds of steps: those that take packets away (`QuietStep`), those that move one
(`MoveStep`: passing on, carrying out, sending a result) and the one that adds
one (`AddStep`: sending a request); each handler needs to be shown to be of one
kind. `Execute` maps to the step of RpcService that carries out, `CallStub` and
`ReceiveResponse` to those that issue and return, and all others to stutters.

`Entries_proofs` is about `clnt_req_repo`, under the same two conditions:

- `ResponsesMatched`: `Spec => []ResponseMatched`
- `AnsweredForgotten`: `IdsDistinct => (Spec => []AnsweredIsForgotten)`, where
  `IdsDistinct` says that no client makes two calls that agree in operation and
  id (otherwise the entry of a dropped request may be deleted in place of that of
  a later one)

`MatchInv` covers each packet that is yet to come back (`Claim`) with an entry.
When an entry is deleted no other packet has its operation and id: two packets that
agree in them are of one client, by `NoCollision`, hence of its last call, hence
one. `EntryInv` says that entries are distinct and that the call of each is
`Open`: its request has left the broker's queue and its response has not been
put into the client's. It is stronger than the property in that it rules out a
second entry of the same call, which would outlive the first.

`AcceptLoops_proofs` proves `LoopsRefineBacklogs`: `Spec => HandlesAsOneStep`.
The mapping appends the queue to what was accepted, so that accepting is a
stutter. It needs to know that the broker has exactly one connection in hand
while the lock is held past accept, and none otherwise (`OneInHand`), or else
the handling of its connection would not be that of the oldest.

`RegistrationStore_proofs` proves `OwnRegistration`: `Spec =>
[]ServicesAttributed`. The invariant says that rows are of registrations up to
the present one, and that `Variables` holds the greatest id when a row of
Services is about to be written (`VariableIsMax`); the greatest id is that of the
present registration, or of the latest before it when its INSERT failed. It also proves
`AcknowledgedStored`: `Spec => []AcknowledgedIsStored`. `StoredInv` adds how far
the present registration has got: unless a statement of it failed, its row and
exactly the services before the present one are there, in order; and a
registration that was acknowledged is not the present one, so that no later row
is counted with it.

`Marshal_proofs` has the data. First, every packet is read back as it was
written, for any number of services and any values: `RequestReadBack`,
`ResponseReadBack` (with 0 for a result below zero), `RegistrationReadBack`,
`ServicesReadBack`. With them it proves of Marshal, for any ids, locations and
calls under `MarshalAssumption` (ids are what `rand()` returns, 0 to `MaxInt`;
server and client listen at different locations, as two sockets must):

- `ReadInOrder`: `Spec => []SetBeforeUse`
- `UnderstoodRegistration`: `Spec => []RegistrationUnderstood`
- `AwaitedResponse`: `Spec => []ResponseAwaited`
- `SurvivingServer`: `Spec => []ServerSurvives`
- `LocalBehaviour`: `Spec => BehavesLocally`, the refinement of LocalCall

`MarshalInv` lists the situations there are between two steps: starting,
registering, resting, asking and answering (each at the broker or at the
process behind it, with the headers read so far), down, and lost, where a build
that does not keep `ptrOperation` ends up. In each the packet is the very one that its
constructor builds from the call, which the read-back theorems turn into what the
next handler finds; so an id or an operation lost anywhere would break it.

`Lists_proofs` has the facts about `Without` and sequences that the others cite.

Model-checked only are the liveness properties, since fairness and `ENABLED` are
beyond the prover: `ReadyCallAnswered`, `RegistrationCompletes`, `CallReturns`,
`EveryCallAnswered` and `StoredIsAcknowledged`. Every invariant and every
refinement that a passing run checks has its theorem, under the conditions named
above. One of them is narrower than the run: `ResponseMatched` is checked by
`client_restart` with a client that restarts, and proved without. That the properties of the other
runs are violated is shown by the counterexamples of TLC.

## Not modelled

- The bytes of msgpack: a header is a name and a value of some kind. Header
  names here have at most 14 characters, so the limit of 20 is never met.
- Reading `broker.db` back: no code does.
- Several clients or failures at the level of headers or of statements: packets
  are independent of each other there, and RpcBroker has the failures.
- Configuration files and command lines. Their outcome is `TimedWaits`: whether
  a process waits for ever. (Servers and clients that read a configuration file
  always do, since `setWaitIndef` ignores its argument.)
- Memory management, the size of fixed buffers, and the windows build.
- `forward_request_to_server`, `forward_response_to_client` (empty, never called),
  `send_req_wait_response` (never called), and what only prints: `unpack_data`,
  `broker_support.c`, `perform_diagnostics`.
- The programs under `doc/`, which are examples and no part of the system.

## Plan

Done: the core (Protocol to RpcBroker and the proof of `IInv`), the data (Wire,
Interface, Marshal), the threads (AcceptLoops), the storage
(RegistrationStore), and the proofs listed above, which cover every safety
property of the passing runs, under the conditions given there. What would come next is to weaken their conditions: the
theorems of Delivery_proofs and Entries_proofs assume that no client restarts, and
a bound on what an earlier run of a client can still disturb would say more.
