------------------------------ MODULE Protocol ------------------------------
(***************************************************************************)
(* The messages of the broker protocol (common/protocol.h) and the         *)
(* functions that build them: the registration a server sends, the         *)
(* acknowledgement the broker answers with, the request of a client stub   *)
(* and the response of a server stub.                                      *)
(*                                                                         *)
(* A packet is a sequence of one-entry maps on the wire; here it is a      *)
(* record with one field per header.  A location (address and port) is     *)
(* the process that listens there.  The arguments of a call are abstracted *)
(* to the identity of the call, and the value a server computes from them  *)
(* to the arguments it was computed from: two results are equal exactly    *)
(* when they answer the same call.                                         *)
(***************************************************************************)
EXTENDS Naturals, Sequences

CONSTANTS
  Clients,    \* locations of the clients (address and wait port of each)
  Servers,    \* locations of the servers
  Ops,        \* names of the remote operations
  Services,   \* Services[s]: the names in the services[] array of server s
  Program,    \* Program[c]: the operations client c calls, in order
  MaxCalls,   \* bound on the number of calls of one run of a client
  MaxRuns,    \* bound on the number of times one process is started
  Rand        \* Rand[k]: the k-th value of rand() in a process

ASSUME ProtocolAssumption ==
  /\ MaxCalls \in Nat
  /\ MaxRuns \in Nat
  /\ Services \in [Servers -> SUBSET Ops]
  /\ Program \in [Clients -> Seq(Ops)]
  /\ \A c \in Clients : Len(Program[c]) <= MaxCalls
  /\ Rand \in [1..MaxCalls -> Nat]

\* A call of a client stub: its client, the run of that client's process, and
\* its position among the calls of that run.
Call == [client : Clients, run : 1..MaxRuns, seq : 1..MaxCalls]

-----------------------------------------------------------------------------
(* The messages.  EOF stands for a connection whose sender dies before the *)
(* packet is written, and FAILED for a packet that cannot be unpacked.     *)

Registration ==
  [type : {"SERVICE_REGISTRATION"}, sender : Servers, services : SUBSET Ops]

Ack == [type : {"SERVICE_REGISTRATION_ACK"}, id : Nat]

Request ==
  [type : {"SERVICE_REQUEST"}, id : Nat, sender : Clients, op : Ops,
   params : Call]

Response ==
  [type : {"SERVICE_REQUEST_RESPONSE"}, id : Nat, op : Ops, reply : Call]

Broken == [type : {"EOF", "FAILED"}]

Message == Registration \cup Ack \cup Request \cup Response \cup Broken

-----------------------------------------------------------------------------
(* The constructors. *)

RegistrationOf(s) ==
  [type |-> "SERVICE_REGISTRATION", sender |-> s, services |-> Services[s]]

\* A registration carries no message-id header, so get_hdr_int yields 0.
RegistrationAck == [type |-> "SERVICE_REGISTRATION_ACK", id |-> 0]

\* rand() is never seeded: the k-th call of every process has the same id.
pack_client_request_data(x) ==
  [type |-> "SERVICE_REQUEST", id |-> Rand[x.seq], sender |-> x.client,
   op |-> Program[x.client][x.seq], params |-> x]

\* Mutant: the response is packed without its operation header.
ResponseWithoutOperation(m) ==
  [type |-> "SERVICE_REQUEST_RESPONSE", id |-> m.id, reply |-> m.params]

\* The response names neither the client nor its location, only id and op.
pack_client_response_data(m) ==
  [type |-> "SERVICE_REQUEST_RESPONSE", id |-> m.id, op |-> m.op,
   reply |-> m.params]

Eof == [type |-> "EOF"]

Garbage == [type |-> "FAILED"]
=============================================================================
