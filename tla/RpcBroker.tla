----------------------------- MODULE RpcBroker -----------------------------
(***************************************************************************)
(* The whole system: one broker, the servers and the clients, joined by    *)
(* the connections of module Network.  Each component's next-state         *)
(* relation leaves the variables of the others alone.                      *)
(***************************************************************************)
EXTENDS Broker, Server, Client

vars == <<netVars, brokerVars, serverVars, clientVars>>

TypeOK == NetTypeOK /\ BrokerTypeOK /\ ServerTypeOK /\ ClientTypeOK

Init == NetInit /\ BrokerInit /\ ServerInit /\ ClientInit

BrokerStep == BrokerNext /\ UNCHANGED <<serverVars, clientVars>>

ServerStep(s) == ServerNext(s) /\ UNCHANGED <<brokerVars, clientVars>>

ClientStep(c) == ClientNext(c) /\ UNCHANGED <<brokerVars, serverVars>>

Next ==
  \/ BrokerStep
  \/ \E s \in Servers : ServerStep(s)
  \/ \E c \in Clients : ClientStep(c)

Spec == Init /\ [][Next]_vars

(* Every thread that can run does: the broker's loop, the main thread and  *)
(* the connection threads of a server, the main and the sending thread of  *)
(* a client.  Nothing makes anybody start or stop a process, make the next *)
(* call, or let a timeout pass.                                            *)
Fairness ==
  /\ WF_vars(BrokerHandle /\ UNCHANGED <<serverVars, clientVars>>)
  /\ \A s \in Servers :
       /\ WF_vars(ServerMain(s) /\ UNCHANGED <<brokerVars, clientVars>>)
       /\ WF_vars(ServerThread(s) /\ UNCHANGED <<brokerVars, clientVars>>)
  /\ \A c \in Clients :
       /\ WF_vars(ClientMain(c) /\ UNCHANGED <<brokerVars, serverVars>>)
       /\ WF_vars(ClientSender(c) /\ UNCHANGED <<brokerVars, serverVars>>)

FairSpec == Spec /\ Fairness

-----------------------------------------------------------------------------
(* Where a call is.                                                        *)

\* The positions of q at which a message of type t is about call x.
RequestsOf(q, x) ==
  {i \in DOMAIN q : q[i].type = "SERVICE_REQUEST" /\ q[i].params = x}

ResponsesOf(q, x) ==
  {i \in DOMAIN q : q[i].type = "SERVICE_REQUEST_RESPONSE" /\ q[i].reply = x}

\* Everything that still stands for call x: the thread that will send it, its
\* packets in flight, the thread that will send its result, and the result at
\* the client that took it.
Traces(x) ==
     {<<x.client, "unsent", k>> :
        k \in {n \in unsent[x.client] : CallOf(x.client, n) = x}}
  \cup (UNION {{<<p, "request", i>> : i \in RequestsOf(backlog[p], x)}
                 : p \in Procs})
  \cup (UNION {{<<p, "response", i>> : i \in ResponsesOf(backlog[p], x)}
                 : p \in Procs})
  \cup (UNION {{<<s, "result", i>> : i \in RequestsOf(results[s], x)}
                 : s \in Servers})
  \cup (UNION {{<<c, "reply", i>> : i \in {j \in DOMAIN replies[c] :
                                             replies[c][j] = x}}
                 : c \in Clients})

\* The entry of clnt_req_repo that the request of call x makes.
EntryOf(x) ==
  [loc |-> x.client, op |-> Program[x.client][x.seq], id |-> Rand[x.seq]]

\* Entries waiting for a response with this operation and id, and the packets
\* beyond the broker that will ask for one.
Entries(op, id) ==
  {j \in DOMAIN clnt_req_repo :
     clnt_req_repo[j].op = op /\ clnt_req_repo[j].id = id}

Asking(q, type, op, id) ==
  {i \in DOMAIN q : q[i].type = type /\ q[i].op = op /\ q[i].id = id}

Claims(op, id) ==
  (UNION {    {<<s, "request", i>> :
                 i \in Asking(backlog[s], "SERVICE_REQUEST", op, id)}
         \cup {<<s, "result", i>> :
                 i \in Asking(results[s], "SERVICE_REQUEST", op, id)}
            : s \in Servers})
  \cup {<<broker, "response", i>> :
          i \in Asking(backlog[broker], "SERVICE_REQUEST_RESPONSE", op, id)}

-----------------------------------------------------------------------------
(* Properties.                                                             *)

\* Two clients never make calls that agree in operation and message id.  It is
\* a condition on the programs the clients run: nothing in the code sees to it,
\* as rand() is unseeded (pack_client_request_data.c:25).
NoCollision ==
  \A c1, c2 \in Clients :
    \A k1 \in 1..Len(Program[c1]), k2 \in 1..Len(Program[c2]) :
      Rand[k1] = Rand[k2] /\ Program[c1][k1] = Program[c2][k2] => c1 = c2

\* A response reaches only the client whose call it answers: what the broker
\* has forwarded to c, and what c's stubs have returned, stems from a request
\* of c.  It rests on the pairs of operation and id that find_client_for_
\* response compares, and on every entry having been made from its request.
RoutedToRequester ==
  \A c \in Clients :
    /\ \A i \in DOMAIN backlog[c] :
         backlog[c][i].type = "SERVICE_REQUEST_RESPONSE"
           => backlog[c][i].reply.client = c
    /\ \A i \in DOMAIN replies[c] : replies[c][i].client = c

\* The server that carries out a request offers its operation, so that the
\* dispatch of call_marshelResponse_send finds it (server/generate_proxy.pl:74;
\* otherwise nothing is sent and the client waits forever).  It joins the
\* registration a server sent, the look-up in find_server_for_req and the port
\* a server is started on again.
RequestAtProvider ==
  \A s \in Servers : \A i \in DOMAIN backlog[s] :
    backlog[s][i].type = "SERVICE_REQUEST" => backlog[s][i].op \in Services[s]

\* While no client has restarted, a call is in one place at most: waiting to
\* be sent, in one packet, or returned.  No step of broker, server or client
\* duplicates a request or a response, whichever of them ends in between.
CallAtOnePlace == \A x \in Call : Cardinality(Traces(x)) <= 1

\* In its first run the broker holds, for every operation and id, an entry for
\* each request it has forwarded whose response it has not, so that no response
\* of its servers ever finds none (broker.c:199-211, and the Location that
\* read_data would otherwise use unwritten).
ResponseMatched ==
  broker \in listening /\ runs[broker] = 1 =>
    \A op \in Ops : \A k \in 1..MaxCalls :
      Cardinality(Claims(op, Rand[k])) <= Cardinality(Entries(op, Rand[k]))

\* A call that has been answered has no entry left, although it is "currently not
\* purged of old, already serviced requests" by a comment (broker_support.c:36);
\* so no later response is sent to a client that has stopped waiting for it.
AnsweredIsForgotten ==
  \A c \in Clients :
    \A x \in {replies[c][i] : i \in DOMAIN replies[c]}
             \cup {backlog[c][i].reply :
                     i \in {n \in DOMAIN backlog[c] :
                              backlog[c][n].type = "SERVICE_REQUEST_RESPONSE"}} :
      \A j \in DOMAIN clnt_req_repo : clnt_req_repo[j] # EntryOf(x)

\* The broker forwards a request to a server in its first run only when that
\* server has its acknowledgement, or finds it among its connections: the
\* registration is acknowledged before the next connection is looked at
\* (broker.c:206-207).  Which of the two a thread reads first is left open.
AckBeforeRequest ==
  \A s \in Servers :
    runs[s] <= 1 /\ s \notin isRegistered =>
      \A i \in DOMAIN backlog[s] :
        backlog[s][i].type = "SERVICE_REQUEST" =>
          \E j \in 1..(i - 1) :
            backlog[s][j].type = "SERVICE_REGISTRATION_ACK"

\* While no client has restarted, a sending thread that has not sent yet finds
\* the frame of send_and_receive, whose address it was given
\* (send_and_receive.c:83), in place: packet, address and port, which decide what
\* is sent and where (common.c:20), are the ones of its call, which cannot return
\* before.  It is not so of verbose, which the thread reads after the send
\* (common.c:21, ThreadReturns), when the frame may be gone.
SentFromFrame == \A c \in Clients : \A k \in unsent[c] : FrameLive(c, k)

\* How often the processes of P have been started altogether.
Starts(P) == Cardinality(UNION {{p} \X (1..runs[p]) : p \in P})

\* Nobody needs a longer accept queue than this: a run of a server has one
\* registration, and a run of a client one packet in flight, however the
\* processes end and are started again; so a backlog of one connection for
\* each process is enough while nobody restarts.
BacklogBound ==
  /\ Len(backlog[broker]) <= Starts(Servers \cup Clients)
  /\ \A s \in Servers : Len(backlog[s]) <= runs[s] + Starts(Clients)
  /\ \A c \in Clients : Len(backlog[c]) <= runs[c]

\* Carried out at most once, and returned only after it was: the promise of
\* RpcService, while no client has restarted.
Promise == INSTANCE RpcService
             WITH issued <- callNo, performed <- executions,
                  returned <- replies

PromiseKept == Promise!ServiceSpec

-----------------------------------------------------------------------------
(* The inductive invariant behind RoutedToRequester and RequestAtProvider: *)
(* where the content of every packet and of every entry comes from.        *)

\* The pair of operation and id is the one of the call x of its program.
OfCall(x, op, id) ==
  /\ x.seq \in 1..Len(Program[x.client])
  /\ op = Program[x.client][x.seq]
  /\ id = Rand[x.seq]

\* The packets that may be queued for p.
Sound(p) ==
  {m \in Message :
     /\ m.type = "SERVICE_REGISTRATION" => m.services = Services[m.sender]
     /\ m.type = "SERVICE_REQUEST" =>
          /\ OfCall(m.params, m.op, m.id)
          /\ m.sender = m.params.client
          /\ p \in Servers => m.op \in Services[p]
     /\ m.type = "SERVICE_REQUEST_RESPONSE" =>
          /\ OfCall(m.reply, m.op, m.id)
          /\ NoCollision /\ p \in Clients => m.reply.client = p}

NetInv ==
  /\ NetTypeOK
  /\ \A p \in Procs : backlog[p] \in Seq(Sound(p))

SoundService == {r \in ServiceReg : r.services = Services[r.loc]}

SoundEntry ==
  {e \in ClientReg :
     \E k \in 1..Len(Program[e.loc]) : e.op = Program[e.loc][k] /\ e.id = Rand[k]}

BrokerInv ==
  /\ svc_repo \in Seq(SoundService)
  /\ clnt_req_repo \in Seq(SoundEntry)

\* The requests that a server may have carried out.
SoundRequest == {m \in Request : OfCall(m.params, m.op, m.id)}

ServerInv ==
  /\ ServerTypeOK
  /\ \A s \in Servers : results[s] \in Seq(SoundRequest)

ResultsOf(c) == {x \in Call : NoCollision => x.client = c}

ClientInv ==
  /\ ClientTypeOK
  /\ \A c \in Clients :
       /\ callNo[c] <= Len(Program[c])
       /\ unsent[c] \subseteq 1..callNo[c] /\ sent[c] \subseteq 1..callNo[c]
       /\ clientPc[c] = "down" => unsent[c] = {}
       /\ clientPc[c] # "down" => runs[c] # 0
       /\ clientPc[c] \in {"bind", "wait"} => callNo[c] # 0
       /\ replies[c] \in Seq(ResultsOf(c))

\* Every packet, registration and entry is what its constructor made of a call
\* or a server, and every response for a client answers a call of that client
\* where operation and id identify the client.
IInv == NetInv /\ BrokerInv /\ ServerInv /\ ClientInv

-----------------------------------------------------------------------------
(* Liveness.                                                               *)

\* The server that the broker would choose for op has its acknowledgement.
ServiceReady(op) ==
  \E j \in 1..Len(svc_repo) :
    find_server_for_req(op, j) /\ svc_repo[j].loc \in isRegistered

\* A call made when its service is ready returns, unless the broker goes down.
ReadyCallAnswered ==
  \A c \in Clients : \A k \in 1..Len(Program[c]) :
    (k \in unsent[c] /\ ServiceReady(Program[c][k]))
      ~> (Len(replies[c]) >= k \/ broker \notin listening)

\* A server that has sent its registration gets its acknowledgement, unless
\* the broker goes down.
RegistrationCompletes ==
  \A s \in Servers :
    (serverPc[s] = "bind")
      ~> (s \in isRegistered \/ broker \notin listening)
-----------------------------------------------------------------------------
(* What comments of the code say and the code does not do.                 *)

\* "Sends a packet of data and waits for its response"
\* (send_and_receive.c:64): the k-th result of a run answers its k-th call.
OwnReply ==
  \A c \in Clients : \A k \in DOMAIN replies[c] : replies[c][k] = CallOf(c, k)

\* "Tried 3 times to ACK register with server and have gaven up"
\* (register_service.c:52): a server that refuses the acknowledgement is tried
\* again and given up, and the broker goes on.
RefusedAckSurvived ==
  [][(/\ Accept("SERVICE_REGISTRATION")
      /\ Current.sender \notin listening) => broker \in listening']_vars
=============================================================================
