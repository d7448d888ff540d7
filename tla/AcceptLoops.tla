---------------------------- MODULE AcceptLoops ----------------------------
(***************************************************************************)
(* How broker and server come to their connections: the select loops of    *)
(* broker.c and server.c, the threads they start, the lock of the broker,  *)
(* and the accept queues of the two sockets, which are finite: a connect   *)
(* to a process whose queue is full waits until there is room.             *)
(*                                                                         *)
(* The server is registered and nobody ends or times out; clients connect, *)
(* the broker passes their requests to the server and its responses back,  *)
(* and whoever sends holds what he is handling until he is connected.      *)
(***************************************************************************)
EXTENDS Lists

CONSTANTS
  Calls,        \* the calls clients make, each on a connection of its own
  ListenQueue,  \* length of an accept queue
  MaxThreads,   \* bound on the threads started and not yet past accept or lock
  Builds        \* the builds: whether USE_THREADING is defined in broker.h

ASSUME AcceptLoopsAssumption ==
  /\ ListenQueue \in Nat \ {0}
  /\ MaxThreads \in Nat \ {0}
  /\ Builds \subseteq BOOLEAN

VARIABLES
  threading,      \* whether this broker is built with USE_THREADING
  unsent,         \* calls whose client has not connected to the broker yet
  brokerQueue,    \* accept queue of the broker
  lockWaiters,    \* threads of the broker that wait for the lock
  lock,           \* "free", "accept" or "handle": what its holder is at
  brokerHands,    \* the connection the broker has accepted and not closed
  serverQueue,    \* accept queue of the server
  acceptWaiters,  \* threads of the server that wait in accept
  serverHands,    \* connections the threads of the server have accepted
  answered        \* calls whose response has been sent to the client

brokerVars == <<brokerQueue, lockWaiters, lock, brokerHands>>
serverVars == <<serverQueue, acceptWaiters, serverHands>>
vars == <<threading, unsent, brokerVars, serverVars, answered>>

RequestOf(x) == [type |-> "request", call |-> x]
ResponseOf(x) == [type |-> "response", call |-> x]

Connection == [type : {"request", "response"}, call : Calls]

Init ==
  /\ threading \in Builds
  /\ unsent = Calls
  /\ brokerQueue = <<>> /\ lockWaiters = 0 /\ lock = "free"
  /\ brokerHands = <<>>
  /\ serverQueue = <<>> /\ acceptWaiters = 0 /\ serverHands = <<>>
  /\ answered = {}

-----------------------------------------------------------------------------
(* Clients. *)

Connect(x) ==
  /\ x \in unsent
  /\ Len(brokerQueue) < ListenQueue
  /\ unsent' = unsent \ {x}
  /\ brokerQueue' = Append(brokerQueue, RequestOf(x))
  /\ UNCHANGED <<threading, lockWaiters, lock, brokerHands, serverVars,
                 answered>>

-----------------------------------------------------------------------------
(* The broker. *)

\* wait_for_connections calls process_data_avail itself, or starts a thread
\* that runs it; it starts another as long as the connection is not accepted.
WaitForConnections ==
  /\ brokerQueue # <<>>
  /\ lockWaiters < IF threading THEN MaxThreads ELSE 1
  /\ threading \/ lock = "free"
  /\ lockWaiters' = lockWaiters + 1
  /\ UNCHANGED <<threading, unsent, brokerQueue, lock, brokerHands, serverVars,
                 answered>>

AquireLock ==
  /\ lockWaiters > 0
  /\ lock = "free"
  /\ lock' = "accept"
  /\ lockWaiters' = lockWaiters - 1
  /\ UNCHANGED <<threading, unsent, brokerQueue, brokerHands, serverVars,
                 answered>>

\* AquireLock may fail when the lock is taken: the thread ends, and leaves the
\* connection it was started for to the others.
LockRefused ==
  /\ lockWaiters > 0
  /\ lock # "free"
  /\ lockWaiters' = lockWaiters - 1
  /\ UNCHANGED <<threading, unsent, brokerQueue, lock, brokerHands, serverVars,
                 answered>>

\* accept, with the lock held: it waits when the connection the thread was
\* started for went to an earlier one.
BrokerAccept ==
  /\ lock = "accept"
  /\ brokerQueue # <<>>
  /\ lock' = "handle"
  /\ brokerHands' = Append(brokerHands, Head(brokerQueue))
  /\ brokerQueue' = Tail(brokerQueue)
  /\ UNCHANGED <<threading, unsent, lockWaiters, serverVars, answered>>

ReleaseLock == lock' = "free"

\* The holder of the lock has connection m, sends it on, closes and releases.
Holding(m, type) ==
  /\ lock = "handle"
  /\ brokerHands # <<>>
  /\ m = Head(brokerHands)
  /\ m.type = type
  /\ brokerHands' = Tail(brokerHands)
  /\ ReleaseLock

\* Mutant: a connect that finds the queue full gives up.
PassOrDrop ==
  \E m \in Connection :
    /\ Holding(m, "request")
    /\ serverQueue' = IF Len(serverQueue) < ListenQueue
                      THEN Append(serverQueue, RequestOf(m.call))
                      ELSE serverQueue
    /\ UNCHANGED <<threading, unsent, brokerQueue, lockWaiters, acceptWaiters,
                   serverHands, answered>>

PassRequest ==
  \E m \in Connection :
    /\ Holding(m, "request")
    /\ Len(serverQueue) < ListenQueue
    /\ serverQueue' = Append(serverQueue, RequestOf(m.call))
    /\ UNCHANGED <<threading, unsent, brokerQueue, lockWaiters, acceptWaiters,
                   serverHands, answered>>

PassResponse ==
  \E m \in Connection :
    /\ Holding(m, "response")
    /\ answered' = answered \cup {m.call}
    /\ UNCHANGED <<threading, unsent, brokerQueue, lockWaiters, serverVars>>

-----------------------------------------------------------------------------
(* The server. *)

\* main starts a thread whenever select says so, which it does until the
\* connection is accepted.
StartThread ==
  /\ serverQueue # <<>>
  /\ acceptWaiters < MaxThreads
  /\ acceptWaiters' = acceptWaiters + 1
  /\ UNCHANGED <<threading, unsent, brokerVars, serverQueue, serverHands,
                 answered>>

\* Mutant: main handles the connection itself before it accepts another.
AcceptOneByOne ==
  /\ acceptWaiters > 0
  /\ serverQueue # <<>>
  /\ serverHands = <<>>
  /\ acceptWaiters' = acceptWaiters - 1
  /\ serverHands' = Append(serverHands, Head(serverQueue))
  /\ serverQueue' = Tail(serverQueue)
  /\ UNCHANGED <<threading, unsent, brokerVars, answered>>

ServerAccept ==
  /\ acceptWaiters > 0
  /\ serverQueue # <<>>
  /\ acceptWaiters' = acceptWaiters - 1
  /\ serverHands' = Append(serverHands, Head(serverQueue))
  /\ serverQueue' = Tail(serverQueue)
  /\ UNCHANGED <<threading, unsent, brokerVars, answered>>

\* A thread sends its response, and ends.
Respond(i) ==
  /\ i \in 1..Len(serverHands)
  /\ Len(brokerQueue) < ListenQueue
  /\ brokerQueue' = Append(brokerQueue, ResponseOf(serverHands[i].call))
  /\ serverHands' = Without(serverHands, i)
  /\ UNCHANGED <<threading, unsent, lockWaiters, lock, brokerHands, serverQueue,
                 acceptWaiters, answered>>

-----------------------------------------------------------------------------

\* The threads of the broker that do not wait for the lock or a connection.
ProcessDataAvail == BrokerAccept \/ PassRequest \/ PassResponse

ServerThread == \E i \in 1..Len(serverHands) : Respond(i)

Next ==
  \/ \E x \in Calls : Connect(x)
  \/ WaitForConnections
  \/ AquireLock
  \/ LockRefused
  \/ ProcessDataAvail
  \/ StartThread
  \/ ServerAccept
  \/ ServerThread

Spec == Init /\ [][Next]_vars

(* Every thread that can go on does, a connect that has room succeeds, and *)
(* a free lock is given to one of its waiters.  A refusal is not fair.     *)
FairSpec ==
  /\ Spec
  /\ WF_vars(\E x \in Calls : Connect(x))
  /\ WF_vars(WaitForConnections)
  /\ WF_vars(AquireLock)
  /\ WF_vars(ProcessDataAvail)
  /\ WF_vars(StartThread)
  /\ WF_vars(ServerAccept)
  /\ WF_vars(ServerThread)

-----------------------------------------------------------------------------
(* Properties.                                                             *)

\* In both builds the loops do what modules Broker and Server take for one
\* step: the broker handles its connections one at a time and in the order in
\* which they were made, a server in any order, and none is lost or handled
\* twice, however many surplus threads wait.
Abstract ==
  INSTANCE Backlogs WITH brokerBacklog <- brokerHands \o brokerQueue,
                         serverBacklog <- serverHands \o serverQueue

HandlesAsOneStep == Abstract!BacklogsSpec

\* Every call is answered: broker and server never wait for one another, each
\* holding a connection that the other's accept queue has no room for, and no
\* thread keeps the lock of the broker for good.
EveryCallAnswered == \A x \in Calls : <>(x \in answered)
=============================================================================
