---------------------------- MODULE MCRpcBroker ----------------------------
(***************************************************************************)
(* Values of the constants for TLC.                                        *)
(***************************************************************************)
EXTENDS RpcBroker, TLC

CONSTANTS c1, c2, s1, s2, opA, opB

MCClients == {c1, c2}
MCServers == {s1, s2}
OneServer == {s2}
MCOps == {opA, opB}

\* One server offers both operations, the other one of them.
MCServices == [s \in Servers |-> IF s = s1 THEN {opA} ELSE {opA, opB}]

\* rand() yields the same values in every process.
MCRand == <<1, 2>>

\* The clients call the same operations in different order.
DistinctPrograms ==
  [c \in Clients |-> IF c = c1 THEN <<opA, opB>> ELSE <<opB, opA>>]

\* One call of each client.
ShortPrograms == [c \in Clients |-> IF c = c1 THEN <<opA>> ELSE <<opB>>]

\* Both clients run the same program, as client/client.c does.
SameProgram == [c \in Clients |-> <<opA, opB>>]

\* Who may be stopped, time out, or be started again.
Everybody == {broker} \cup Servers \cup Clients
BrokerAndServers == {broker} \cup Servers
BrokerAndFirst == {broker, s1}
FirstClient == {c1}
Nobody == {}
=============================================================================
