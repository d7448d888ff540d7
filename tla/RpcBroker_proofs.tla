-------------------------- MODULE RpcBroker_proofs --------------------------
(***************************************************************************)
(* Proofs about module RpcBroker for every set of clients, servers and     *)
(* operations, every number of calls and of restarts, and every choice of  *)
(* the processes that may be stopped, time out or be started again.        *)
(*                                                                         *)
(* The inductive invariant says where the content of every packet and of   *)
(* every repository entry comes from: a request is one that its client     *)
(* makes, a response carries the operation and id of such a request, and   *)
(* so does every entry of clnt_req_repo.  When operation and id identify   *)
(* the client, the entry that find_client_for_response finds is therefore  *)
(* one of the client that the response is for.                             *)
(***************************************************************************)
EXTENDS RpcBroker, Lists_proofs

-----------------------------------------------------------------------------
(* Packets.                                                                *)

\* The type of a packet tells which kind of record it is.
LEMMA MessageKinds ==
  ASSUME NEW m \in Message
  PROVE  /\ m.type = "SERVICE_REGISTRATION" => m \in Registration
         /\ m.type = "SERVICE_REQUEST" => m \in Request
         /\ m.type = "SERVICE_REQUEST_RESPONSE" => m \in Response
BY DEF Message, Registration, Ack, Request, Response, Broken
\* Soundness is a property of packets.
LEMMA SoundMessage ==
  ASSUME NEW p \in Procs
  PROVE  Sound(p) \subseteq Message
BY DEF Sound

-----------------------------------------------------------------------------
(* The network keeps NetInv when what is queued is sound.                  *)

\* New queues that are sound are well typed.
LEMMA QueuesTyped ==
  ASSUME NEW f, f = [p \in Procs |-> f[p]],
         \A p \in Procs : f[p] \in Seq(Sound(p))
  PROVE  f \in [Procs -> Seq(Message)]
<1>1. ASSUME NEW p \in Procs
      PROVE  f[p] \in Seq(Message)
  BY SoundMessage, SeqMonotone
<1> QED
  BY <1>1

\* send_req keeps NetInv.
LEMMA SendInv ==
  ASSUME NetInv, NEW p \in Procs, NEW q \in Procs,
         NEW rest \in Seq(Sound(p)), NEW m \in Sound(q), p # q,
         send_req(p, rest, q, m)
  PROVE  NetInv'
<1> DEFINE b == [backlog EXCEPT ![p] = rest, ![q] = Append(@, m)]
<1>1. backlog' = b /\ UNCHANGED <<listening, runs>>
  BY DEF send_req
<1>2. b[p] = rest /\ b[q] = Append(backlog[q], m)
  BY DEF NetInv, NetTypeOK
<1>3. ASSUME NEW r \in Procs, r # p, r # q
      PROVE  b[r] = backlog[r]
  BY <1>3 DEF NetInv, NetTypeOK
<1>4. Append(backlog[q], m) \in Seq(Sound(q))
  BY DEF NetInv
<1>5. b = [r \in Procs |-> b[r]]
  BY DEF NetInv, NetTypeOK
<1> HIDE DEF b
<1>6. \A r \in Procs : b[r] \in Seq(Sound(r))
  BY <1>2, <1>3, <1>4 DEF NetInv
<1>7. b \in [Procs -> Seq(Message)]
  BY <1>5, <1>6, QueuesTyped
<1> QED
  BY <1>1, <1>6, <1>7 DEF NetInv, NetTypeOK

\* Taking connections from the queue of p keeps NetInv.
LEMMA TakeInv ==
  ASSUME NetInv, NEW p \in Procs, NEW rest \in Seq(Sound(p)),
         backlog' = [backlog EXCEPT ![p] = rest],
         listening' \subseteq Procs, UNCHANGED runs
  PROVE  NetInv'
<1> DEFINE b == [backlog EXCEPT ![p] = rest]
<1>1. \A r \in Procs : b[r] = IF r = p THEN rest ELSE backlog[r]
  BY DEF NetInv, NetTypeOK
<1>2. b = [r \in Procs |-> b[r]]
  BY DEF NetInv, NetTypeOK
<1>3. backlog' = b
  OBVIOUS
<1> HIDE DEF b
<1>4. \A r \in Procs : b[r] \in Seq(Sound(r))
  BY <1>1 DEF NetInv
<1>5. b \in [Procs -> Seq(Message)]
  BY <1>2, <1>4, QueuesTyped
<1> QED
  BY <1>3, <1>4, <1>5 DEF NetInv, NetTypeOK

\* The end of a process keeps NetInv.
LEMMA ExitInv ==
  ASSUME NetInv, NEW p \in Procs, netError(p)
  PROVE  NetInv'
<1>1. <<>> \in Seq(Sound(p))
  OBVIOUS
<1>2. listening' \subseteq Procs
  BY DEF netError, NetInv, NetTypeOK
<1> QED
  BY <1>1, <1>2, TakeInv DEF netError

\* The end of a process in the middle of a send_req keeps NetInv.
LEMMA ExitMidSendInv ==
  ASSUME NetInv, NEW p \in Procs, NEW q \in Procs, p # q,
         netErrorMidSend(p, q)
  PROVE  NetInv'
<1> DEFINE b == [backlog EXCEPT ![p] = <<>>, ![q] = Append(@, Eof)]
<1>1. backlog' = b /\ runs' = runs /\ listening' \subseteq Procs
  BY DEF netErrorMidSend, NetInv, NetTypeOK
<1>2. Eof \in Sound(q)
  BY DEF Eof, Sound, Message, Broken
<1>3. /\ b[p] = <<>>
      /\ b[q] = Append(backlog[q], Eof)
      /\ \A r \in Procs \ {p, q} : b[r] = backlog[r]
  BY DEF NetInv, NetTypeOK
<1>4. Append(backlog[q], Eof) \in Seq(Sound(q))
  BY <1>2 DEF NetInv
<1>5. b = [r \in Procs |-> b[r]]
  BY DEF NetInv, NetTypeOK
<1> HIDE DEF b
<1>6. \A r \in Procs : b[r] \in Seq(Sound(r))
  <2>1. <<>> \in Seq(Sound(p))
    OBVIOUS
  <2> QED
    BY <1>3, <1>4, <2>1 DEF NetInv
<1>7. b \in [Procs -> Seq(Message)]
  BY <1>5, <1>6, QueuesTyped
<1> QED
  BY <1>1, <1>6, <1>7 DEF NetInv, NetTypeOK
-----------------------------------------------------------------------------
(* The steps of the broker.                                                *)

\* What the broker looks at is sound, and so is what is left behind it.
LEMMA CurrentSound ==
  ASSUME NetInv, NEW t, Accept(t)
  PROVE  /\ broker \in Procs
         /\ Current \in Sound(broker)
         /\ Behind \in Seq(Sound(broker))
<1>1. broker \in Procs
  BY DEF Procs
<1>2. backlog[broker] \in Seq(Sound(broker)) /\ backlog[broker] # <<>>
  BY <1>1 DEF NetInv, Accept
<1> QED
  BY <1>1, <1>2, HeadTailProperties DEF Current, Behind

\* The end of the broker.
LEMMA BrokerExitInv ==
  ASSUME NetInv, BrokerExit
  PROVE  NetInv' /\ BrokerInv'
<1>1. NetInv'
  BY ExitInv DEF BrokerExit, Procs
<1>2. <<>> \in Seq(SoundService) /\ <<>> \in Seq(SoundEntry)
  OBVIOUS
<1> QED
  BY <1>1, <1>2 DEF BrokerExit, BrokerInv

LEMMA RegisterServiceInv ==
  ASSUME NetInv, BrokerInv, RegisterService
  PROVE  NetInv' /\ BrokerInv'
<1>1. Accept("SERVICE_REGISTRATION")
  BY DEF RegisterService
<1>2. /\ Current \in Registration
      /\ Current.services = Services[Current.sender]
  BY <1>1, CurrentSound, MessageKinds DEF Accept, Sound
<1>3. CASE Current.sender \in listening
  <2>1. Current.sender \in Procs /\ Current.sender # broker
    BY <1>2, NetworkAssumption DEF Registration, Procs
  <2>2. RegistrationAck \in Sound(Current.sender)
    BY DEF RegistrationAck, Sound, Message, Ack
  <2>3. NetInv'
    BY <1>1, <1>3, <2>1, <2>2, CurrentSound, SendInv DEF RegisterService
  <2>4. [loc |-> Current.sender, services |-> Current.services] \in SoundService
    BY <1>2 DEF Registration, SoundService, ServiceReg
  <2>5. svc_repo' \in Seq(SoundService)
    BY <1>3, <2>4 DEF RegisterService, LIST_Add_svc, BrokerInv
  <2> QED
    BY <1>3, <2>3, <2>5 DEF RegisterService, BrokerInv
<1>4. CASE Current.sender \notin listening
  BY <1>4, BrokerExitInv DEF RegisterService
<1> QED
  BY <1>3, <1>4

\* The entry a request makes is sound.
LEMMA EntrySound ==
  ASSUME NetInv, BrokerInv, Accept("SERVICE_REQUEST")
  PROVE  reg_clnt_req(Current) \in Seq(SoundEntry)
<1>1. /\ Current \in Request
      /\ OfCall(Current.params, Current.op, Current.id)
      /\ Current.sender = Current.params.client
  BY CurrentSound, MessageKinds DEF Accept, Sound
<1>2. [loc |-> Current.sender, op |-> Current.op, id |-> Current.id]
        \in SoundEntry
  BY <1>1 DEF SoundEntry, ClientReg, Request, OfCall
<1> QED
  BY <1>2 DEF reg_clnt_req, BrokerInv

LEMMA RequestWithoutServerInv ==
  ASSUME NetInv, BrokerInv, RequestWithoutServer
  PROVE  NetInv' /\ BrokerInv'
<1>1. Accept("SERVICE_REQUEST")
  BY DEF RequestWithoutServer
<1>2. NetInv'
  BY <1>1, CurrentSound, TakeInv DEF RequestWithoutServer, NetInv, NetTypeOK
<1> QED
  BY <1>1, <1>2, EntrySound DEF RequestWithoutServer, BrokerInv

\* A request goes to a server that offers its operation.
LEMMA ForwardRequestInv ==
  ASSUME NetInv, BrokerInv, ForwardRequest
  PROVE  NetInv' /\ BrokerInv'
<1>1. Accept("SERVICE_REQUEST")
  BY DEF ForwardRequest
<1>2. PICK j \in 1..Len(svc_repo) :
        /\ find_server_for_req(Current.op, j)
        /\ IF svc_repo[j].loc \in listening
           THEN /\ clnt_req_repo' = reg_clnt_req(Current)
                /\ send_req(broker, Behind, svc_repo[j].loc, Current)
                /\ UNCHANGED svc_repo
           ELSE BrokerExit
  BY DEF ForwardRequest
<1>3. CASE svc_repo[j].loc \in listening
  <2>1. svc_repo[j] \in SoundService
    BY DEF BrokerInv
  <2>2. /\ svc_repo[j].loc \in Servers
        /\ svc_repo[j].loc \in Procs
        /\ svc_repo[j].loc # broker
        /\ Current.op \in Services[svc_repo[j].loc]
    BY <1>2, <2>1, NetworkAssumption
       DEF SoundService, ServiceReg, Procs, find_server_for_req
  <2>3. Current \in Sound(broker) /\ Current.type = "SERVICE_REQUEST"
    BY <1>1, CurrentSound DEF Accept
  <2>4. Current \in Sound(svc_repo[j].loc)
    BY <2>2, <2>3 DEF Sound
  <2>5. NetInv'
    BY <1>1, <1>2, <1>3, <2>2, <2>4, CurrentSound, SendInv
  <2> QED
    BY <1>1, <1>2, <1>3, <2>5, EntrySound DEF BrokerInv
<1>4. CASE svc_repo[j].loc \notin listening
  BY <1>2, <1>4, BrokerExitInv
<1> QED
  BY <1>3, <1>4
\* A response goes to the client it answers: the entry found agrees with it in
\* operation and id, and these identify the client.
LEMMA ForwardResponseInv ==
  ASSUME NetInv, BrokerInv, ForwardResponse
  PROVE  NetInv' /\ BrokerInv'
<1>1. Accept("SERVICE_REQUEST_RESPONSE")
  BY DEF ForwardResponse
<1>2. PICK j \in 1..Len(clnt_req_repo) :
        /\ find_client_for_response(Current, j)
        /\ IF clnt_req_repo[j].loc \in listening
           THEN /\ clnt_req_repo' = LIST_DeleteNode(j)
                /\ send_req(broker, Behind, clnt_req_repo[j].loc, Current)
                /\ UNCHANGED svc_repo
           ELSE BrokerExit
  BY DEF ForwardResponse
<1>3. CASE clnt_req_repo[j].loc \in listening
  <2> DEFINE e == clnt_req_repo[j]
  <2>1. e \in SoundEntry
    BY DEF BrokerInv
  <2>2. Current \in Sound(broker) /\ Current.type = "SERVICE_REQUEST_RESPONSE"
    BY <1>1, CurrentSound DEF Accept
  <2>3. /\ Current.reply \in Call
        /\ OfCall(Current.reply, Current.op, Current.id)
    BY <2>2, MessageKinds DEF Sound, Response
  <2>4. Current.id = e.id /\ Current.op = e.op
    BY <1>2 DEF find_client_for_response, Answers
  <2>5. PICK k \in 1..Len(Program[e.loc]) :
          e.op = Program[e.loc][k] /\ e.id = Rand[k]
    BY <2>1 DEF SoundEntry
  <2>6. e.loc \in Clients /\ e.loc \in Procs /\ e.loc # broker
    BY <2>1, NetworkAssumption DEF SoundEntry, ClientReg, Procs
  <2>7. NoCollision => Current.reply.client = e.loc
    <3>1. Current.reply.client \in Clients
      BY <2>3 DEF Call
    <3>2. PICK n \in 1..Len(Program[Current.reply.client]) :
            /\ Program[Current.reply.client][n] = Program[e.loc][k]
            /\ Rand[n] = Rand[k]
      BY <2>3, <2>4, <2>5 DEF OfCall
    <3> QED
      BY <2>5, <2>6, <3>1, <3>2 DEF NoCollision
  <2>8. Current \in Sound(e.loc)
    BY <2>2, <2>6, <2>7, NetworkAssumption DEF Sound
  <2>9. NetInv'
    BY <1>1, <1>2, <1>3, <2>6, <2>8, CurrentSound, SendInv
  <2>10. LIST_DeleteNode(j) \in Seq(SoundEntry)
    BY WithoutSeq DEF BrokerInv, LIST_DeleteNode
  <2> QED
    BY <1>2, <1>3, <2>9, <2>10 DEF BrokerInv
<1>4. CASE clnt_req_repo[j].loc \notin listening
  BY <1>2, <1>4, BrokerExitInv
<1> QED
  BY <1>3, <1>4

\* Every step of the broker.
LEMMA BrokerNextInv ==
  ASSUME NetInv, BrokerInv, BrokerNext
  PROVE  NetInv' /\ BrokerInv'
<1>1. CASE BrokerStart
  <2>1. broker \in Procs
    BY DEF Procs
  <2>2. runs' \in [Procs -> 0..MaxRuns] /\ listening' \subseteq Procs
    BY <1>1, <2>1, ProtocolAssumption
       DEF BrokerStart, Launch, NetInv, NetTypeOK
  <2> QED
    BY <1>1, <2>2 DEF BrokerStart, NetInv, NetTypeOK, BrokerInv, brokerVars
<1>2. CASE BrokerHandle
  <2>1. CASE UnmatchedResponse \/ TruncatedPacket
    BY <2>1, BrokerExitInv DEF UnmatchedResponse, TruncatedPacket
  <2>2. CASE MalformedPacket
    <3>1. CASE BrokerExit
      BY <3>1, BrokerExitInv
    <3>2. CASE /\ backlog' = [backlog EXCEPT ![broker] = Behind]
               /\ UNCHANGED <<listening, runs, brokerVars>>
      <4>1. NetInv'
        BY <2>2, <3>2, CurrentSound, TakeInv
           DEF MalformedPacket, NetInv, NetTypeOK
      <4> QED
        BY <3>2, <4>1 DEF BrokerInv, brokerVars
    <3> QED
      BY <2>2, <3>1, <3>2 DEF MalformedPacket
  <2> QED
    BY <1>2, <2>1, <2>2, RegisterServiceInv, RequestWithoutServerInv,
       ForwardRequestInv, ForwardResponseInv DEF BrokerHandle
<1>3. CASE BrokerTimeout
  BY <1>3, BrokerExitInv DEF BrokerTimeout
<1>4. CASE BrokerKilled
  <2>1. NetInv'
    <3>1. CASE netError(broker)
      BY <3>1, ExitInv DEF Procs
    <3>2. ASSUME NEW q \in Servers \cup Clients, netErrorMidSend(broker, q)
          PROVE  NetInv'
      BY <3>2, ExitMidSendInv, NetworkAssumption DEF Procs
    <3> QED
      BY <1>4, <3>1, <3>2 DEF BrokerKilled
  <2>2. <<>> \in Seq(SoundService) /\ <<>> \in Seq(SoundEntry)
    OBVIOUS
  <2> QED
    BY <1>4, <2>1, <2>2 DEF BrokerKilled, BrokerInv
<1> QED
  BY <1>1, <1>2, <1>3, <1>4 DEF BrokerNext

-----------------------------------------------------------------------------
(* The steps of a server.                                                  *)

\* A step of server s that leaves it with sound results keeps ServerInv.
LEMMA OneServer ==
  ASSUME ServerInv, NEW s \in Servers, NEW r \in Seq(SoundRequest),
         serverPc' \in [Servers -> {"down", "register", "bind", "serve"}],
         isRegistered' \subseteq Servers, executions' \in [Call -> Nat],
         results' = [results EXCEPT ![s] = r]
  PROVE  ServerInv'
<1>1. r \in Seq(Request)
  <2>1. SoundRequest \subseteq Request
    BY DEF SoundRequest
  <2> QED
    BY <2>1, SeqMonotone
<1>2. results' \in [Servers -> Seq(Request)]
  BY <1>1 DEF ServerInv, ServerTypeOK
<1>3. \A t \in Servers : results'[t] = IF t = s THEN r ELSE results[t]
  BY DEF ServerInv, ServerTypeOK
<1>4. \A t \in Servers : results'[t] \in Seq(SoundRequest)
  BY <1>3 DEF ServerInv
<1> QED
  BY <1>2, <1>4 DEF ServerInv, ServerTypeOK

\* A step that leaves the results alone keeps ServerInv.
LEMMA ResultsKept ==
  ASSUME ServerInv, UNCHANGED <<results, executions>>,
         serverPc' \in [Servers -> {"down", "register", "bind", "serve"}],
         isRegistered' \subseteq Servers
  PROVE  ServerInv'
BY DEF ServerInv, ServerTypeOK

\* The end of a server.
LEMMA ServerExitInv ==
  ASSUME ServerInv, NEW s \in Servers, ServerExit(s)
  PROVE  ServerInv'
<1>1. <<>> \in Seq(SoundRequest)
  OBVIOUS
<1>2. /\ serverPc' \in [Servers -> {"down", "register", "bind", "serve"}]
      /\ isRegistered' \subseteq Servers
      /\ executions' \in [Call -> Nat]
      /\ results' = [results EXCEPT ![s] = <<>>]
  BY DEF ServerExit, ServerInv, ServerTypeOK
<1> QED
  BY <1>1, <1>2, OneServer

LEMMA ServerStopsInv ==
  ASSUME NetInv, ServerInv, NEW s \in Servers, ServerStops(s)
  PROVE  NetInv' /\ ServerInv'
<1>1. s \in Procs /\ broker \in Procs /\ s # broker
  BY NetworkAssumption DEF Procs
<1>2. ServerExit(s) /\ (netError(s) \/ netErrorMidSend(s, broker))
  BY DEF ServerStops
<1> QED
  BY <1>1, <1>2, ExitInv, ExitMidSendInv, ServerExitInv

\* A thread has a sound packet, and leaves sound ones behind.
LEMMA ServingSound ==
  ASSUME NetInv, NEW s \in Servers, NEW i \in 1..Len(backlog[s])
  PROVE  /\ s \in Procs
         /\ backlog[s][i] \in Sound(s)
         /\ Accepted(s, i) \in Seq(Sound(s))
<1>1. s \in Procs /\ backlog[s] \in Seq(Sound(s))
  BY DEF Procs, NetInv
<1> QED
  BY <1>1, WithoutSeq DEF Accepted

LEMMA DiscardInv ==
  ASSUME NetInv, NEW s \in Servers, NEW i \in 1..Len(backlog[s]),
         Discard(s, i)
  PROVE  NetInv'
BY ServingSound, TakeInv DEF Discard, NetInv, NetTypeOK

\* A request that is carried out is a sound one.
LEMMA ExecuteInv ==
  ASSUME NetInv, ServerInv, NEW s \in Servers,
         NEW i \in 1..Len(backlog[s]), Execute(s, i)
  PROVE  NetInv' /\ ServerInv'
<1> DEFINE m == backlog[s][i]
<1>1. m \in SoundRequest
  BY ServingSound, MessageKinds DEF Execute, Serving, Sound, SoundRequest
<1>2. Append(results[s], m) \in Seq(SoundRequest)
  BY <1>1 DEF ServerInv
<1>3. executions' \in [Call -> Nat]
  <2>1. m.params \in Call
    BY <1>1 DEF SoundRequest, Request
  <2> QED
    BY <2>1 DEF Execute, ServerInv, ServerTypeOK
<1>4. /\ serverPc' \in [Servers -> {"down", "register", "bind", "serve"}]
      /\ isRegistered' \subseteq Servers
      /\ results' = [results EXCEPT ![s] = Append(results[s], m)]
  BY DEF Execute, ServerInv, ServerTypeOK
<1>5. NetInv'
  BY DiscardInv DEF Execute
<1> QED
  BY <1>2, <1>3, <1>4, <1>5, OneServer

\* The response to a sound request is sound on its way to the broker.
LEMMA SendResultInv ==
  ASSUME NetInv, ServerInv, NEW s \in Servers,
         NEW j \in 1..Len(results[s]), SendResult(s, j)
  PROVE  NetInv' /\ ServerInv'
<1> DEFINE m == results[s][j]
<1>1. /\ s \in Procs /\ broker \in Procs /\ broker \notin Clients
      /\ s # broker
      /\ backlog[s] \in Seq(Sound(s))
  BY NetworkAssumption DEF Procs, NetInv
<1>2. CASE broker \in listening
  <2>1. m \in Request /\ OfCall(m.params, m.op, m.id)
    <3>1. m \in SoundRequest
      BY DEF ServerInv
    <3> QED
      BY <3>1 DEF SoundRequest
  <2>2. pack_client_response_data(m) \in Sound(broker)
    BY <1>1, <2>1 DEF pack_client_response_data, Sound, Message, Response,
                      Request
  <2>3. NetInv'
    BY <1>1, <1>2, <2>2, SendInv DEF SendResult
  <2>4. Without(results[s], j) \in Seq(SoundRequest)
    BY WithoutSeq DEF ServerInv
  <2>5. /\ serverPc' \in [Servers -> {"down", "register", "bind", "serve"}]
        /\ isRegistered' \subseteq Servers
        /\ executions' \in [Call -> Nat]
        /\ results' = [results EXCEPT ![s] = Without(results[s], j)]
    BY <1>2 DEF SendResult, ServerInv, ServerTypeOK
  <2> QED
    BY <2>3, <2>4, <2>5, OneServer
<1>3. CASE broker \notin listening
  BY <1>1, <1>3, ExitInv, ServerExitInv DEF SendResult
<1> QED
  BY <1>2, <1>3

\* Every step of a server.
LEMMA ServerNextInv ==
  ASSUME NetInv, ServerInv, NEW s \in Servers, ServerNext(s)
  PROVE  NetInv' /\ ServerInv'
<1>0. /\ s \in Procs /\ broker \in Procs /\ s # broker
      /\ backlog[s] \in Seq(Sound(s))
  BY NetworkAssumption DEF Procs, NetInv
<1>1. CASE ServerStart(s)
  <2>1. runs' \in [Procs -> 0..MaxRuns]
    BY <1>0, <1>1, ProtocolAssumption
       DEF ServerStart, Launch, NetInv, NetTypeOK
  <2>2. ServerInv'
    BY <1>1, ResultsKept DEF ServerStart, ServerInv, ServerTypeOK
  <2> QED
    BY <1>1, <2>1, <2>2 DEF ServerStart, NetInv, NetTypeOK
<1>2. CASE ServerRegister(s)
  <2>1. RegistrationOf(s) \in Sound(broker)
    BY ProtocolAssumption
       DEF RegistrationOf, Sound, Message, Registration
  <2>2. NetInv'
    BY <1>0, <1>2, <2>1, SendInv, ExitInv DEF ServerRegister
  <2>3. ServerInv'
    <3>1. CASE broker \in listening
      BY <1>2, <3>1, ResultsKept DEF ServerRegister, ServerInv, ServerTypeOK
    <3>2. CASE broker \notin listening
      BY <1>2, <3>2, ServerExitInv DEF ServerRegister
    <3> QED
      BY <3>1, <3>2
  <2> QED
    BY <2>2, <2>3
<1>3. CASE ServerBind(s)
  <2>1. ServerInv'
    BY <1>3, ResultsKept DEF ServerBind, ServerInv, ServerTypeOK
  <2> QED
    BY <1>0, <1>3, <2>1 DEF ServerBind, NetInv, NetTypeOK
<1>4. CASE ServerThread(s)
  <2>1. CASE \E j \in 1..Len(results[s]) : SendResult(s, j)
    BY <2>1, SendResultInv
  <2>2. ASSUME NEW i \in 1..Len(backlog[s]), ReceiveAck(s, i)
        PROVE  NetInv' /\ ServerInv'
    <3>1. ServerInv'
      BY <2>2, ResultsKept DEF ReceiveAck, ServerInv, ServerTypeOK
    <3> QED
      BY <2>2, <3>1, DiscardInv DEF ReceiveAck
  <2>3. ASSUME NEW i \in 1..Len(backlog[s]), DropUnregistered(s, i)
        PROVE  NetInv' /\ ServerInv'
    <3>1. ServerInv'
      BY <2>3, ResultsKept
         DEF DropUnregistered, ServerInv, ServerTypeOK, serverVars
    <3> QED
      BY <2>3, <3>1, DiscardInv DEF DropUnregistered
  <2> QED
    BY <1>4, <2>1, <2>2, <2>3, ExecuteInv, ServerStopsInv
       DEF ServerThread, ServerTruncated
<1>5. CASE ServerTimeout(s) \/ ServerKilled(s)
  BY <1>5, ServerStopsInv DEF ServerTimeout, ServerKilled
<1> QED
  BY <1>1, <1>2, <1>3, <1>4, <1>5 DEF ServerNext, ServerMain
-----------------------------------------------------------------------------
(* The steps of a client.                                                  *)

\* A client's own facts, for one client.
ClientOK(c) ==
  /\ clientPc[c] \in {"down", "idle", "bind", "wait"}
  /\ callNo[c] \in 0..MaxCalls
  /\ callNo[c] <= Len(Program[c])
  /\ unsent[c] \subseteq 1..callNo[c] /\ sent[c] \subseteq 1..callNo[c]
  /\ clientPc[c] = "down" => unsent[c] = {}
  /\ clientPc[c] # "down" => runs[c] # 0
  /\ clientPc[c] \in {"bind", "wait"} => callNo[c] # 0
  /\ replies[c] \in Seq(ResultsOf(c))

ClientFunctions ==
  /\ clientPc = [c \in Clients |-> clientPc[c]]
  /\ callNo = [c \in Clients |-> callNo[c]]
  /\ unsent = [c \in Clients |-> unsent[c]]
  /\ sent = [c \in Clients |-> sent[c]]
  /\ replies = [c \in Clients |-> replies[c]]

ClientFacts == ClientFunctions /\ \A c \in Clients : ClientOK(c)

\* ClientInv is a fact about each client.
LEMMA ClientByClient == ClientInv <=> ClientFacts
<1>1. ASSUME ClientInv
      PROVE  ClientFacts
  BY <1>1 DEF ClientInv, ClientTypeOK, ClientFacts, ClientFunctions, ClientOK
<1>2. ASSUME ClientFacts
      PROVE  ClientInv
  <2>1. ASSUME NEW c \in Clients
        PROVE  replies[c] \in Seq(Call)
    <3>1. replies[c] \in Seq(ResultsOf(c)) /\ ResultsOf(c) \subseteq Call
      BY <1>2 DEF ClientFacts, ClientOK, ResultsOf
    <3> QED
      BY <3>1, SeqMonotone
  <2>2. ASSUME NEW c \in Clients
        PROVE  unsent[c] \subseteq 1..MaxCalls /\ sent[c] \subseteq 1..MaxCalls
    <3>1. /\ unsent[c] \subseteq 1..callNo[c] /\ sent[c] \subseteq 1..callNo[c]
          /\ callNo[c] \in 0..MaxCalls
      BY <1>2 DEF ClientFacts, ClientOK
    <3>2. MaxCalls \in Nat
      BY ProtocolAssumption
    <3> QED
      BY <3>1, <3>2
  <2>3. /\ clientPc \in [Clients -> {"down", "idle", "bind", "wait"}]
        /\ callNo \in [Clients -> 0..MaxCalls]
    BY <1>2 DEF ClientFacts, ClientFunctions, ClientOK
  <2>4. /\ unsent \in [Clients -> SUBSET (1..MaxCalls)]
        /\ sent \in [Clients -> SUBSET (1..MaxCalls)]
        /\ replies \in [Clients -> Seq(Call)]
    BY <1>2, <2>1, <2>2 DEF ClientFacts, ClientFunctions
  <2> QED
    BY <1>2, <2>3, <2>4 DEF ClientFacts, ClientInv, ClientTypeOK, ClientOK
<1> QED
  BY <1>1, <1>2

\* Steps of others leave a client as it is.
LEMMA ClientUnchanged ==
  ASSUME ClientInv, UNCHANGED clientVars,
         \A c \in Clients : runs[c] # 0 => runs'[c] # 0
  PROVE  ClientInv'
BY DEF ClientInv, ClientTypeOK, clientVars

\* The request of a call that the client has made is sound.
LEMMA CallSound ==
  ASSUME NetInv, ClientInv, NEW c \in Clients, NEW k \in 1..callNo[c],
         runs[c] # 0
  PROVE  pack_client_request_data(CallOf(c, k)) \in Sound(broker)
<1>1. /\ runs[c] \in 1..MaxRuns
      /\ callNo[c] \in 0..MaxCalls
      /\ callNo[c] <= Len(Program[c])
  BY ProtocolAssumption
     DEF NetInv, NetTypeOK, ClientInv, ClientTypeOK, Procs
<1>2. Program[c] \in Seq(Ops) /\ Rand \in [1..MaxCalls -> Nat] /\ MaxCalls \in Nat
  BY ProtocolAssumption
<1>3. k \in 1..MaxCalls /\ k \in 1..Len(Program[c])
  BY <1>1, <1>2
<1>4. CallOf(c, k) \in Call
  BY <1>1, <1>3 DEF CallOf, Call
<1>5. Program[c][k] \in Ops /\ Rand[k] \in Nat
  BY <1>2, <1>3
<1>6. pack_client_request_data(CallOf(c, k)) \in Request
  BY <1>4, <1>5 DEF pack_client_request_data, CallOf, Request
<1>7. broker \notin Servers
  BY NetworkAssumption
<1> QED
  BY <1>3, <1>6, <1>7
     DEF pack_client_request_data, CallOf, Sound, OfCall, Message, Request

\* A step of client c that leaves the others alone and keeps c's facts.
LEMMA OneClient ==
  ASSUME ClientInv, NEW c \in Clients,
         clientPc' = [clientPc EXCEPT ![c] = clientPc'[c]],
         callNo' = [callNo EXCEPT ![c] = callNo'[c]],
         unsent' = [unsent EXCEPT ![c] = unsent'[c]],
         sent' = [sent EXCEPT ![c] = sent'[c]],
         replies' = [replies EXCEPT ![c] = replies'[c]],
         \A d \in Clients \ {c} : runs'[d] = runs[d],
         ClientOK(c)'
  PROVE  ClientInv'
<1>1. ClientFunctions'
  BY ClientByClient DEF ClientFacts, ClientFunctions
<1>2. ASSUME NEW d \in Clients, d # c
      PROVE  ClientOK(d)'
  <2>1. ClientOK(d)
    BY ClientByClient DEF ClientFacts
  <2>2. /\ clientPc'[d] = clientPc[d] /\ callNo'[d] = callNo[d]
        /\ unsent'[d] = unsent[d] /\ sent'[d] = sent[d]
        /\ replies'[d] = replies[d] /\ runs'[d] = runs[d]
    BY <1>2, ClientByClient DEF ClientFacts, ClientFunctions
  <2> QED
    BY <2>1, <2>2 DEF ClientOK
<1>3. ClientFacts'
  BY <1>1, <1>2 DEF ClientFacts
<1>4. ClientFacts' => ClientInv'
  BY ClientByClient, PTL
<1> QED
  BY <1>3, <1>4
\* What is known of the client that makes a step.
LEMMA ClientFactsOf ==
  ASSUME NetInv, ClientInv, NEW c \in Clients
  PROVE  /\ c \in Procs /\ broker \in Procs /\ c # broker
         /\ backlog[c] \in Seq(Sound(c))
         /\ ClientOK(c) /\ ClientFunctions
BY ClientByClient, NetworkAssumption DEF ClientFacts, Procs, NetInv

\* The end of a client.
LEMMA ClientExitInv ==
  ASSUME NetInv, ClientInv, NEW c \in Clients, ClientExit(c), runs' = runs
  PROVE  ClientInv'
<1>1. ClientOK(c)'
  BY ClientFactsOf DEF ClientExit, ClientOK, ClientFunctions
<1> QED
  BY <1>1, ClientFactsOf, OneClient DEF ClientExit, ClientFunctions

LEMMA ClientStartInv ==
  ASSUME NetInv, ClientInv, NEW c \in Clients, ClientStart(c)
  PROVE  NetInv' /\ ClientInv'
<1>1. runs' \in [Procs -> 0..MaxRuns] /\ runs'[c] # 0
  BY ClientFactsOf, ProtocolAssumption
     DEF ClientStart, Launch, NetInv, NetTypeOK
<1>2. \A d \in Clients \ {c} : runs'[d] = runs[d]
  BY DEF ClientStart, Launch, NetInv, NetTypeOK, Procs
<1>3. ClientOK(c)'
  <2>1. Len(Program[c]) \in Nat /\ 0 \in 0..MaxCalls
    BY ProtocolAssumption
  <2>2. /\ clientPc'[c] = "idle" /\ callNo'[c] = 0
        /\ unsent'[c] = {} /\ sent'[c] = {} /\ replies'[c] = <<>>
    BY ClientFactsOf DEF ClientStart, ClientFunctions
  <2>3. <<>> \in Seq(ResultsOf(c))
    OBVIOUS
  <2> QED
    BY <1>1, <2>1, <2>2, <2>3 DEF ClientOK
<1>4. ClientInv'
  BY <1>2, <1>3, ClientFactsOf, OneClient DEF ClientStart, ClientFunctions
<1> QED
  BY <1>1, <1>4 DEF ClientStart, NetInv, NetTypeOK

LEMMA CallStubInv ==
  ASSUME NetInv, ClientInv, NEW c \in Clients, CallStub(c)
  PROVE  NetInv' /\ ClientInv'
<1>1. Len(Program[c]) \in Nat /\ Len(Program[c]) <= MaxCalls /\ MaxCalls \in Nat
  BY ProtocolAssumption
<1>2. /\ clientPc'[c] = "bind" /\ callNo'[c] = callNo[c] + 1
      /\ unsent'[c] = unsent[c] \cup {callNo[c] + 1} /\ sent'[c] = sent[c]
      /\ replies'[c] = replies[c] /\ runs'[c] = runs[c]
  BY ClientFactsOf DEF CallStub, ClientFunctions, netVars
<1>3. ClientOK(c)'
  BY <1>1, <1>2, ClientFactsOf DEF CallStub, ClientOK
<1>4. ClientInv'
  BY <1>3, ClientFactsOf, OneClient DEF CallStub, ClientFunctions, netVars
<1> QED
  BY <1>4 DEF CallStub, netVars, NetInv, NetTypeOK

\* What a sending thread puts on its way is sound, whether its frame is still
\* there or not.
LEMMA ClientSenderInv ==
  ASSUME NetInv, ClientInv, NEW c \in Clients, ClientSender(c)
  PROVE  NetInv' /\ ClientInv'
<1>1. ASSUME NEW k \in unsent[c]
      PROVE  k \in 1..callNo[c] /\ runs[c] # 0 /\ clientPc[c] # "down"
  BY ClientFactsOf DEF ClientOK
<1>2. ASSUME NEW k \in unsent[c], NEW m \in Sound(broker),
             send_req(c, backlog[c], broker, m), HasSent(c, k)
      PROVE  NetInv' /\ ClientInv'
  <2>1. NetInv'
    BY <1>2, ClientFactsOf, SendInv
  <2>2. ClientOK(c)'
    BY <1>1, <1>2, ClientFactsOf
       DEF ClientOK, ClientFunctions, HasSent, send_req
  <2> QED
    BY <1>2, <2>1, <2>2, ClientFactsOf, OneClient
       DEF ClientFunctions, HasSent, send_req
<1>3. ASSUME netError(c), ClientExit(c)
      PROVE  NetInv' /\ ClientInv'
  BY <1>3, ClientFactsOf, ExitInv, ClientExitInv DEF netError
<1>4. ASSUME NEW k \in unsent[c], SendRequest(c, k)
      PROVE  NetInv' /\ ClientInv'
  BY <1>1, <1>2, <1>3, <1>4, CallSound DEF SendRequest
<1>5. ASSUME NEW k \in unsent[c], SendDangling(c, k)
      PROVE  NetInv' /\ ClientInv'
  <2>1. Garbage \in Sound(broker)
    BY DEF Garbage, Sound, Message, Broken
  <2>2. FrameLive(c, callNo[c]) => callNo[c] \in 1..callNo[c]
    BY ClientFactsOf DEF FrameLive, ClientOK
  <2>3. \A j \in {i \in {callNo[c]} : FrameLive(c, i)} :
          pack_client_request_data(CallOf(c, j)) \in Sound(broker)
    BY <1>1, <2>2, CallSound
  <2>4. pack_client_request_data(CallOf(c, k)) \in Sound(broker)
    BY <1>1, CallSound
  <2> QED
    BY <1>2, <1>3, <1>5, <2>1, <2>3, <2>4 DEF SendDangling
<1>6. ASSUME NEW k \in sent[c], ThreadReturns(c, k)
      PROVE  NetInv' /\ ClientInv'
  <2>1. ClientOK(c)'
    BY <1>6, ClientFactsOf DEF ThreadReturns, ClientOK, ClientFunctions, netVars
  <2>2. ClientInv'
    BY <1>6, <2>1, ClientFactsOf, OneClient
       DEF ThreadReturns, ClientFunctions, netVars
  <2> QED
    BY <1>6, <2>2 DEF ThreadReturns, netVars, NetInv, NetTypeOK
<1> QED
  BY <1>4, <1>5, <1>6 DEF ClientSender

\* What a stub returns is a result of its client.
LEMMA ReceiveResponseInv ==
  ASSUME NetInv, ClientInv, NEW c \in Clients, ReceiveResponse(c)
  PROVE  NetInv' /\ ClientInv'
<1> DEFINE m == Head(backlog[c])
<1>1. m \in Sound(c) /\ m.type = "SERVICE_REQUEST_RESPONSE"
  BY ClientFactsOf, HeadTailProperties DEF ReceiveResponse
<1>2. m.reply \in ResultsOf(c)
  BY <1>1, MessageKinds DEF Sound, Response, ResultsOf
<1>3. <<>> \in Seq(Sound(c))
  OBVIOUS
<1>4. NetInv'
  BY <1>3, ClientFactsOf, TakeInv DEF ReceiveResponse, NetInv, NetTypeOK
<1>5. Append(replies[c], m.reply) \in Seq(ResultsOf(c))
  BY <1>2, ClientFactsOf DEF ClientOK
<1>6. /\ clientPc'[c] = "idle" /\ replies'[c] = Append(replies[c], m.reply)
      /\ UNCHANGED <<runs, callNo, unsent, sent>>
  BY ClientFactsOf DEF ReceiveResponse, ClientFunctions
<1>7. ClientOK(c)'
  BY <1>5, <1>6, ClientFactsOf DEF ClientOK, ReceiveResponse
<1> QED
  BY <1>4, <1>7, ClientFactsOf, OneClient DEF ReceiveResponse, ClientFunctions

\* Every step of a client.
LEMMA ClientNextInv ==
  ASSUME NetInv, ClientInv, NEW c \in Clients, ClientNext(c)
  PROVE  NetInv' /\ ClientInv'
<1>1. CASE ClientBind(c)
  <2>1. ClientOK(c)'
    BY <1>1, ClientFactsOf DEF ClientBind, ClientOK, ClientFunctions
  <2>2. ClientInv'
    BY <1>1, <2>1, ClientFactsOf, OneClient DEF ClientBind, ClientFunctions
  <2> QED
    BY <1>1, <2>2, ClientFactsOf DEF ClientBind, NetInv, NetTypeOK
<1>2. CASE netError(c) /\ ClientExit(c)
  BY <1>2, ClientFactsOf, ExitInv, ClientExitInv DEF netError
<1>3. CASE ClientStops(c)
  BY <1>2, <1>3, ClientFactsOf, ExitMidSendInv, ClientExitInv
     DEF ClientStops, netErrorMidSend
<1> QED
  BY <1>1, <1>2, <1>3, ClientStartInv, CallStubInv, ClientSenderInv,
     ReceiveResponseInv
     DEF ClientNext, ClientMain, ClientTruncated, ClientTimeout, ClientFinish,
         ClientKilled
-----------------------------------------------------------------------------
(* The theorems.                                                           *)

LEMMA InitInv == Init => IInv
<1> SUFFICES ASSUME Init PROVE IInv
  OBVIOUS
<1>1. NetInv
  <2>1. \A p \in Procs : backlog[p] = <<>>
    BY DEF Init, NetInit
  <2>2. \A S : <<>> \in Seq(S)
    OBVIOUS
  <2> QED
    BY <2>1, <2>2, ProtocolAssumption DEF Init, NetInit, NetInv, NetTypeOK
<1>2. BrokerInv
  BY DEF Init, BrokerInit, BrokerInv
<1>3. ServerInv
  <2>1. <<>> \in Seq(Request) /\ <<>> \in Seq(SoundRequest)
    OBVIOUS
  <2> QED
    BY <2>1 DEF Init, ServerInit, ServerTypeOK, ServerInv
<1>4. ClientInv
  <2>1. ClientFunctions
    BY DEF Init, ClientInit, ClientFunctions
  <2>2. ASSUME NEW c \in Clients
        PROVE  ClientOK(c)
    <3>1. Len(Program[c]) \in Nat /\ MaxCalls \in Nat
      BY ProtocolAssumption
    <3>2. <<>> \in Seq(ResultsOf(c))
      OBVIOUS
    <3> QED
      BY <3>1, <3>2 DEF Init, ClientInit, ClientOK
  <2> QED
    BY <2>1, <2>2, ClientByClient DEF ClientFacts
<1> QED
  BY <1>1, <1>2, <1>3, <1>4 DEF IInv

\* Nobody but a client itself starts it.
LEMMA RunsKept ==
  ASSUME NetInv, BrokerNext \/ \E s \in Servers : ServerNext(s),
         NEW c \in Clients
  PROVE  runs'[c] = runs[c]
<1>1. c \in Procs /\ c # broker /\ c \notin Servers /\ broker \in Procs
  BY NetworkAssumption DEF Procs
<1>2. ASSUME NEW p \in Procs, p # c, Launch(p)
      PROVE  runs'[c] = runs[c]
  BY <1>1, <1>2 DEF Launch, NetInv, NetTypeOK
<1>3. CASE BrokerNext
  <2>1. BrokerStart \/ runs' = runs
    BY <1>3
       DEF BrokerNext, BrokerHandle, BrokerTimeout, BrokerKilled, BrokerExit,
           RegisterService, RequestWithoutServer, ForwardRequest,
           ForwardResponse, UnmatchedResponse, TruncatedPacket,
           MalformedPacket, netError, netErrorMidSend, send_req
  <2> QED
    BY <1>1, <1>2, <2>1 DEF BrokerStart
<1>4. ASSUME NEW s \in Servers, ServerNext(s)
      PROVE  runs'[c] = runs[c]
  <2>1. ServerStart(s) \/ runs' = runs
    BY <1>4
       DEF ServerNext, ServerMain, ServerRegister, ServerBind, ServerThread,
           ReceiveAck, Execute, SendResult, DropUnregistered,
           ServerTruncated, ServerStops, Discard,
           ServerTimeout, ServerKilled, netError, netErrorMidSend, send_req
  <2>2. s \in Procs /\ s # c
    BY <1>1 DEF Procs
  <2> QED
    BY <1>2, <2>1, <2>2 DEF ServerStart
<1> QED
  BY <1>3, <1>4

LEMMA NextInv == IInv /\ [Next]_vars => IInv'
<1> SUFFICES ASSUME IInv, [Next]_vars PROVE IInv'
  OBVIOUS
<1> USE DEF IInv
<1>1. CASE BrokerStep
  <2>1. NetInv' /\ BrokerInv'
    BY <1>1, BrokerNextInv DEF BrokerStep
  <2>2. ServerInv' /\ ClientInv'
    BY <1>1, RunsKept, ClientUnchanged
       DEF BrokerStep, ServerInv, ServerTypeOK, serverVars
  <2> QED
    BY <2>1, <2>2
<1>2. ASSUME NEW s \in Servers, ServerStep(s)
      PROVE  IInv'
  <2>1. NetInv' /\ ServerInv'
    BY <1>2, ServerNextInv DEF ServerStep
  <2>2. BrokerInv' /\ ClientInv'
    BY <1>2, RunsKept, ClientUnchanged DEF ServerStep, BrokerInv, brokerVars
  <2> QED
    BY <2>1, <2>2
<1>3. ASSUME NEW c \in Clients, ClientStep(c)
      PROVE  IInv'
  <2>1. NetInv' /\ ClientInv'
    BY <1>3, ClientNextInv DEF ClientStep
  <2>2. BrokerInv' /\ ServerInv'
    BY <1>3 DEF ClientStep, BrokerInv, brokerVars, ServerInv, ServerTypeOK,
                serverVars
  <2> QED
    BY <2>1, <2>2
<1>4. CASE UNCHANGED vars
  BY <1>4 DEF vars, netVars, brokerVars, serverVars, clientVars, NetInv,
              NetTypeOK, BrokerInv, ServerInv, ServerTypeOK, ClientInv,
              ClientTypeOK
<1> QED
  BY <1>1, <1>2, <1>3, <1>4 DEF Next

\* Wherever a packet or an entry is found, its content stems from a call of
\* its client or from the services array of its server.
THEOREM Invariance == Spec => []IInv
BY InitInv, NextInv, PTL DEF Spec

\* Every variable keeps its type, for every number of processes and restarts.
THEOREM TypeCorrect == Spec => []TypeOK
<1>1. IInv => TypeOK
  <2>1. SoundService \subseteq ServiceReg /\ SoundEntry \subseteq ClientReg
    BY DEF SoundService, SoundEntry
  <2>2. BrokerInv => BrokerTypeOK
    BY <2>1, SeqMonotone DEF BrokerInv, BrokerTypeOK
  <2> QED
    BY <2>2 DEF IInv, TypeOK, NetInv, ServerInv, ClientInv
<1> QED
  BY <1>1, Invariance, PTL

\* A response reaches only the client whose call it answers, whichever
\* processes end, are started again, or answer late, when no two clients make
\* calls that agree in operation and message id.
THEOREM ResponsesRouted == NoCollision => (Spec => []RoutedToRequester)
<1> SUFFICES ASSUME NoCollision PROVE Spec => []RoutedToRequester
  OBVIOUS
<1>1. IInv => RoutedToRequester
  <2> SUFFICES ASSUME IInv, NEW c \in Clients
               PROVE  /\ \A i \in DOMAIN backlog[c] :
                           backlog[c][i].type = "SERVICE_REQUEST_RESPONSE"
                             => backlog[c][i].reply.client = c
                      /\ \A i \in DOMAIN replies[c] :
                           replies[c][i].client = c
    BY DEF RoutedToRequester
  <2>1. backlog[c] \in Seq(Sound(c)) /\ replies[c] \in Seq(ResultsOf(c))
    BY DEF IInv, NetInv, ClientInv, Procs
  <2>2. \A i \in DOMAIN backlog[c] : backlog[c][i] \in Sound(c)
    BY <2>1
  <2>3. \A i \in DOMAIN replies[c] : replies[c][i] \in ResultsOf(c)
    BY <2>1
  <2> QED
    BY <2>2, <2>3 DEF Sound, ResultsOf
<1> QED
  BY <1>1, Invariance, PTL

\* A request waits only at servers that offer its operation, also when servers
\* and broker are started again.
THEOREM RequestsServable == Spec => []RequestAtProvider
<1>1. IInv => RequestAtProvider
  <2> SUFFICES ASSUME IInv, NEW s \in Servers, NEW i \in DOMAIN backlog[s],
                      backlog[s][i].type = "SERVICE_REQUEST"
               PROVE  backlog[s][i].op \in Services[s]
    BY DEF RequestAtProvider
  <2>1. backlog[s][i] \in Sound(s)
    BY DEF IInv, NetInv, Procs
  <2> QED
    BY <2>1 DEF Sound
<1> QED
  BY <1>1, Invariance, PTL
=============================================================================
