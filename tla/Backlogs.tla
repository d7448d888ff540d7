------------------------------ MODULE Backlogs ------------------------------
(***************************************************************************)
(* The connections of broker and server as modules Broker and Server see   *)
(* them: one backlog for each process, from which the broker handles the   *)
(* oldest connection, and a server any of them, in one step.               *)
(***************************************************************************)
EXTENDS Lists

CONSTANT Calls  \* the calls clients make, each on a connection of its own

VARIABLES
  unsent,         \* calls whose client has not connected to the broker yet
  brokerBacklog,  \* connections to the broker, not handled yet
  serverBacklog,  \* connections to the server, not handled yet
  answered        \* calls whose response has been sent to the client

backlogVars == <<unsent, brokerBacklog, serverBacklog, answered>>

RequestOf(x) == [type |-> "request", call |-> x]
ResponseOf(x) == [type |-> "response", call |-> x]

Connection == [type : {"request", "response"}, call : Calls]

BacklogsInit ==
  /\ unsent = Calls
  /\ brokerBacklog = <<>>
  /\ serverBacklog = <<>>
  /\ answered = {}

Connect(x) ==
  /\ x \in unsent
  /\ unsent' = unsent \ {x}
  /\ brokerBacklog' = Append(brokerBacklog, RequestOf(x))
  /\ UNCHANGED <<serverBacklog, answered>>

\* The oldest connection is handled, and its packet sent on.
BrokerHandles ==
  /\ brokerBacklog # <<>>
  /\ brokerBacklog' = Tail(brokerBacklog)
  /\ \/ /\ Head(brokerBacklog).type = "request"
        /\ serverBacklog' =
             Append(serverBacklog, RequestOf(Head(brokerBacklog).call))
        /\ UNCHANGED answered
     \/ /\ Head(brokerBacklog).type = "response"
        /\ answered' = answered \cup {Head(brokerBacklog).call}
        /\ UNCHANGED serverBacklog
  /\ UNCHANGED unsent

\* Some connection is handled, and answered.
ServerHandles(i) ==
  /\ i \in 1..Len(serverBacklog)
  /\ serverBacklog' = Without(serverBacklog, i)
  /\ brokerBacklog' =
       Append(brokerBacklog, ResponseOf(serverBacklog[i].call))
  /\ UNCHANGED <<unsent, answered>>

BacklogsNext ==
  \/ \E x \in Calls : Connect(x)
  \/ BrokerHandles
  \/ \E i \in 1..Len(serverBacklog) : ServerHandles(i)

BacklogsSpec == BacklogsInit /\ [][BacklogsNext]_backlogVars
=============================================================================
