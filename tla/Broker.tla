------------------------------- MODULE Broker -------------------------------
(***************************************************************************)
(* The broker process: broker/broker.c and the functions it dispatches to. *)
(*                                                                         *)
(* wait_for_connections takes the connections one by one, and read_data    *)
(* runs to completion for each before the next is accepted (in the         *)
(* threaded build the same handler runs under one lock), so every handler  *)
(* is one action.  Both repositories live in memory only and are lost when *)
(* the process ends.                                                       *)
(***************************************************************************)
EXTENDS Network

VARIABLES
  svc_repo,      \* registered services, in order of registration
  clnt_req_repo  \* requests waiting for their response, in order of arrival

brokerVars == <<svc_repo, clnt_req_repo>>

ServiceReg == [loc : Servers, services : SUBSET Ops]
ClientReg == [loc : Clients, op : Ops, id : Nat]

BrokerTypeOK ==
  /\ svc_repo \in Seq(ServiceReg)
  /\ clnt_req_repo \in Seq(ClientReg)

BrokerInit ==
  /\ svc_repo = <<>>
  /\ clnt_req_repo = <<>>

-----------------------------------------------------------------------------

\* Mutant: the first registration is taken, whatever it offers.
FirstRegistration(op, j) == j = 1 /\ svc_repo # <<>>

\* Entry j is the first registration that offers op.
find_server_for_req(op, j) ==
  /\ j \in 1..Len(svc_repo)
  /\ op \in svc_repo[j].services
  /\ \A i \in 1..(j - 1) : op \notin svc_repo[i].services

\* No registration offers op: find_server_for_req leaves the address NULL.
NoServerFor(op) == \A j \in 1..Len(svc_repo) : op \notin svc_repo[j].services

\* Mutants: one of the two comparisons is left out.
MatchById(m, e) == m.id = e.id
MatchByOperation(m, e) == m.op = e.op

\* An entry matches a response when message id and operation agree.
Answers(m, e) == m.id = e.id /\ m.op = e.op

\* Entry j is the first one that response m answers.
find_client_for_response(m, j) ==
  /\ j \in 1..Len(clnt_req_repo)
  /\ Answers(m, clnt_req_repo[j])
  /\ \A i \in 1..(j - 1) : ~Answers(m, clnt_req_repo[i])

\* No entry matches m.
NoClientFor(m) ==
  \A j \in 1..Len(clnt_req_repo) : ~Answers(m, clnt_req_repo[j])

\* Mutant: a new request of a client replaces the one it had.
OneEntryPerClient(m) ==
  LET others == {j \in DOMAIN clnt_req_repo : clnt_req_repo[j].loc # m.sender}
      new == [loc |-> m.sender, op |-> m.op, id |-> m.id]
  IN  IF others = DOMAIN clnt_req_repo
      THEN Append(clnt_req_repo, new)
      ELSE [j \in DOMAIN clnt_req_repo |->
              IF j \in others THEN clnt_req_repo[j] ELSE new]

\* The repository with request m appended.
reg_clnt_req(m) ==
  Append(clnt_req_repo, [loc |-> m.sender, op |-> m.op, id |-> m.id])

\* Mutants: the first entry is deleted instead of the one found, and none is.
DeleteHead(j) == Tail(clnt_req_repo)
DeleteNone(j) == clnt_req_repo

\* The repository without its j-th entry.
LIST_DeleteNode(j) == Without(clnt_req_repo, j)

\* The service repository with registration m appended.
LIST_Add_svc(m) ==
  Append(svc_repo, [loc |-> m.sender, services |-> m.services])

-----------------------------------------------------------------------------

\* The packet that read_data is looking at, and the connections behind it.
Current == Head(backlog[broker])
Behind == Tail(backlog[broker])

\* The broker accepts the oldest connection, which carries a packet of type t.
Accept(t) ==
  /\ broker \in listening
  /\ backlog[broker] # <<>>
  /\ Current.type = t

\* The process ends and the repositories with it.
BrokerExit ==
  /\ svc_repo' = <<>>
  /\ clnt_req_repo' = <<>>
  /\ netError(broker)

BrokerStart ==
  /\ broker \notin listening
  /\ Launch(broker)
  /\ listening' = listening \cup {broker}
  /\ UNCHANGED <<backlog, brokerVars>>

\* Mutant: only the first registration is acknowledged.
AcknowledgeFirst ==
  /\ Accept("SERVICE_REGISTRATION")
  /\ IF svc_repo = <<>> /\ Current.sender \in listening
     THEN send_req(broker, Behind, Current.sender, RegistrationAck)
     ELSE /\ backlog' = [backlog EXCEPT ![broker] = Behind]
          /\ UNCHANGED <<listening, runs>>
  /\ svc_repo' = LIST_Add_svc(Current)
  /\ UNCHANGED clnt_req_repo

\* Mutant: the condition of the retry loop is inverted.
AcknowledgeThreeTimes ==
  /\ Accept("SERVICE_REGISTRATION")
  /\ Current.sender \in listening
  /\ svc_repo' = LIST_Add_svc(Current)
  /\ backlog' = [backlog EXCEPT ![broker] = Behind,
                   ![Current.sender] = @ \o [i \in 1..3 |-> RegistrationAck]]
  /\ UNCHANGED <<listening, runs, clnt_req_repo>>

\* read_data, SERVICE_REGISTRATION: the service is stored first and then
\* acknowledged.  send_req never returns 0, so the retry loop runs once.
RegisterService ==
  /\ Accept("SERVICE_REGISTRATION")
  /\ IF Current.sender \in listening
     THEN /\ svc_repo' = LIST_Add_svc(Current)
          /\ send_req(broker, Behind, Current.sender, RegistrationAck)
          /\ UNCHANGED clnt_req_repo
     ELSE BrokerExit

\* read_data, SERVICE_REQUEST: the request is stored before a server is looked
\* up, and stays stored when there is none; nobody tells the client.
RequestWithoutServer ==
  /\ Accept("SERVICE_REQUEST")
  /\ NoServerFor(Current.op)
  /\ clnt_req_repo' = reg_clnt_req(Current)
  /\ backlog' = [backlog EXCEPT ![broker] = Behind]
  /\ UNCHANGED <<listening, runs, svc_repo>>

ForwardRequest ==
  /\ Accept("SERVICE_REQUEST")
  /\ \E j \in 1..Len(svc_repo) :
       /\ find_server_for_req(Current.op, j)
       /\ IF svc_repo[j].loc \in listening
          THEN /\ clnt_req_repo' = reg_clnt_req(Current)
               /\ send_req(broker, Behind, svc_repo[j].loc, Current)
               /\ UNCHANGED svc_repo
          ELSE BrokerExit

\* read_data, SERVICE_REQUEST_RESPONSE: the matching entry is removed and the
\* packet forwarded to the location it holds.
ForwardResponse ==
  /\ Accept("SERVICE_REQUEST_RESPONSE")
  /\ \E j \in 1..Len(clnt_req_repo) :
       /\ find_client_for_response(Current, j)
       /\ IF clnt_req_repo[j].loc \in listening
          THEN /\ clnt_req_repo' = LIST_DeleteNode(j)
               /\ send_req(broker, Behind, clnt_req_repo[j].loc, Current)
               /\ UNCHANGED svc_repo
          ELSE BrokerExit

\* Without a match read_data uses a Location that was never written.  No freed
\* block of that size holds the address of a host name, so the connect cannot
\* succeed: the process faults, or ends in netError.
UnmatchedResponse ==
  /\ Accept("SERVICE_REQUEST_RESPONSE")
  /\ NoClientFor(Current)
  /\ BrokerExit

\* A connection closed before its packet: netReadn returns 0, netError.
TruncatedPacket ==
  /\ Accept("EOF")
  /\ BrokerExit

\* A packet that does not unpack is ignored (get_req_type returns FAILED), or
\* ends the process (extract_header finds something else than a map).
MalformedPacket ==
  /\ Accept("FAILED")
  /\ \/ BrokerExit
     \/ /\ backlog' = [backlog EXCEPT ![broker] = Behind]
        /\ UNCHANGED <<listening, runs, brokerVars>>

\* select times out with no connection waiting.
BrokerTimeout ==
  /\ broker \in TimedWaits
  /\ broker \in listening
  /\ backlog[broker] = <<>>
  /\ BrokerExit

\* The process whose connection is open while the current packet is handled.
BrokerPeer(q) ==
  \/ Accept("SERVICE_REGISTRATION") /\ q = Current.sender
  \/ /\ Accept("SERVICE_REQUEST")
     /\ \E j \in 1..Len(svc_repo) :
          find_server_for_req(Current.op, j) /\ q = svc_repo[j].loc
  \/ /\ Accept("SERVICE_REQUEST_RESPONSE")
     /\ \E j \in 1..Len(clnt_req_repo) :
          find_client_for_response(Current, j) /\ q = clnt_req_repo[j].loc

\* The broker is stopped from outside, possibly with a connection open.
BrokerKilled ==
  /\ broker \in Killable
  /\ broker \in listening
  /\ svc_repo' = <<>>
  /\ clnt_req_repo' = <<>>
  /\ \/ netError(broker)
     \/ \E q \in Servers \cup Clients :
          BrokerPeer(q) /\ netErrorMidSend(broker, q)

\* One round of wait_for_connections.
BrokerHandle ==
  \/ RegisterService
  \/ RequestWithoutServer
  \/ ForwardRequest
  \/ ForwardResponse
  \/ UnmatchedResponse
  \/ TruncatedPacket
  \/ MalformedPacket

BrokerNext ==
  \/ BrokerStart
  \/ BrokerHandle
  \/ BrokerTimeout
  \/ BrokerKilled
=============================================================================
