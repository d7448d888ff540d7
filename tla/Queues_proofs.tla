--------------------------- MODULE Queues_proofs ---------------------------
(***************************************************************************)
(* Proofs about the connections queued for a process: in which order they  *)
(* are, and how many.                                                      *)
(*                                                                         *)
(* Order.  No server in its first run is asked to carry out a request      *)
(* before its acknowledgement is on its way to it.  The invariant joins    *)
(* three processes: a server that the broker knows has listened, because   *)
(* the broker could acknowledge it; the acknowledgement was queued in the  *)
(* step that made the server known; and what the broker sends later is     *)
(* queued behind it.                                                       *)
(*                                                                         *)
(* Number.  For each process b, everything that may still lead to a        *)
(* connection to b -- packets queued anywhere, entries and results, calls  *)
(* not sent, and main threads about to register or to call -- is paid for  *)
(* by a start of a process, each start paying for one of them at most.     *)
(* "Is paid for" is an injection: what a step takes and what it makes are  *)
(* exchanged, a start adds one of each, and all else loses.                *)
(***************************************************************************)
EXTENDS RpcBroker_proofs, FunctionTheorems, FiniteSetTheorems

-----------------------------------------------------------------------------
(* Order: the invariant.                                                   *)

HasAck(q) == \E j \in 1..Len(q) : q[j].type = "SERVICE_REGISTRATION_ACK"

AckFirst(q) ==
  \A i \in 1..Len(q) :
    q[i].type = "SERVICE_REQUEST" =>
      \E j \in 1..(i - 1) : q[j].type = "SERVICE_REGISTRATION_ACK"

Registered(s) == \E j \in 1..Len(svc_repo) : svc_repo[j].loc = s

\* What the socket and the threads of a server have to do with where its main
\* thread is.
SocketOK(s) ==
  /\ s \in listening <=> serverPc[s] = "serve"
  /\ s \in isRegistered => serverPc[s] = "serve"
  /\ s \notin listening => backlog[s] = <<>>
  /\ serverPc[s] # "down" => runs[s] # 0
  /\ serverPc[s] # "serve" => results[s] = <<>>

\* The broker knows no server that has not listened yet.
Unknown(s) ==
  runs[s] = 0 \/ (runs[s] = 1 /\ serverPc[s] \in {"register", "bind"})
    => ~Registered(s)

\* Known to the broker in its first run, and not told yet: it will be told
\* before it is asked anything.
Told(s) ==
  runs[s] <= 1 /\ s \in listening /\ s \notin isRegistered =>
    /\ Registered(s) => HasAck(backlog[s])
    /\ AckFirst(backlog[s])

AckOK(s) == SocketOK(s) /\ Unknown(s) /\ Told(s)

-----------------------------------------------------------------------------
(* Order: what happens to a queue.                                         *)

LEMMA AckFirstAppend ==
  ASSUME NEW q \in Seq(Message), NEW m \in Message
  PROVE  /\ HasAck(q) => HasAck(Append(q, m))
         /\ m.type = "SERVICE_REGISTRATION_ACK" => HasAck(Append(q, m))
         /\ AckFirst(q) /\ (m.type = "SERVICE_REQUEST" => HasAck(q))
              => AckFirst(Append(q, m))
<1> DEFINE r == Append(q, m)
           n == Len(q)
<1>1. /\ n \in Nat /\ Len(r) = n + 1 /\ r[n + 1] = m
      /\ \A i \in 1..n : r[i] = q[i]
  OBVIOUS
<1> HIDE DEF r
<1>2. HasAck(q) => HasAck(r)
  BY <1>1 DEF HasAck
<1>3. m.type = "SERVICE_REGISTRATION_ACK" => HasAck(r)
  BY <1>1 DEF HasAck
<1>4. ASSUME AckFirst(q), m.type = "SERVICE_REQUEST" => HasAck(q)
      PROVE  AckFirst(r)
  <2> SUFFICES ASSUME NEW i \in 1..(n + 1), r[i].type = "SERVICE_REQUEST"
               PROVE  \E j \in 1..(i - 1) :
                        r[j].type = "SERVICE_REGISTRATION_ACK"
    BY <1>1 DEF AckFirst
  <2>1. CASE i \in 1..n
    <3>1. PICK j \in 1..(i - 1) : q[j].type = "SERVICE_REGISTRATION_ACK"
      BY <1>1, <1>4, <2>1 DEF AckFirst
    <3>2. j \in 1..n
      BY <1>1, <2>1
    <3> QED
      BY <1>1, <3>1, <3>2
  <2>2. CASE i = n + 1
    BY <1>1, <1>4, <2>2 DEF HasAck
  <2> QED
    BY <1>1, <2>1, <2>2
<1> QED
  BY <1>2, <1>3, <1>4 DEF r

LEMMA AckFirstWithout ==
  ASSUME NEW q \in Seq(Message), NEW i \in 1..Len(q),
         q[i].type # "SERVICE_REGISTRATION_ACK"
  PROVE  /\ HasAck(q) => HasAck(Without(q, i))
         /\ AckFirst(q) => AckFirst(Without(q, i))
<1> DEFINE r == Without(q, i)
           n == Len(q)
<1>1. /\ n \in Nat /\ i \in Int /\ 1 <= i /\ i <= n /\ Len(r) = n - 1
      /\ \A j \in 1..(n - 1) : r[j] = IF j < i THEN q[j] ELSE q[j + 1]
  BY WithoutProperties
<1> HIDE DEF r, n
\* Every other element keeps its place or moves up by one.
<1>2. ASSUME NEW j \in 1..n, j # i
      PROVE  LET k == IF j < i THEN j ELSE j - 1
             IN  k \in 1..(n - 1) /\ r[k] = q[j]
  <2>1. CASE j < i
    <3>1. j \in 1..(n - 1)
      BY <1>1, <2>1
    <3> QED
      BY <1>1, <2>1, <3>1
  <2>2. CASE ~(j < i)
    <3>1. j - 1 \in 1..(n - 1) /\ ~(j - 1 < i) /\ (j - 1) + 1 = j
      BY <1>1, <1>2, <2>2
    <3> QED
      BY <1>1, <2>2, <3>1
  <2> QED
    BY <2>1, <2>2
<1>3. HasAck(q) => HasAck(r)
  <2> SUFFICES ASSUME NEW j \in 1..n, q[j].type = "SERVICE_REGISTRATION_ACK"
               PROVE  HasAck(r)
    BY DEF HasAck, n
  <2>1. j # i
    OBVIOUS
  <2> QED
    BY <1>1, <1>2, <2>1 DEF HasAck
<1>4. ASSUME AckFirst(q)
      PROVE  AckFirst(r)
  <2> SUFFICES ASSUME NEW k \in 1..(n - 1), r[k].type = "SERVICE_REQUEST"
               PROVE  \E l \in 1..(k - 1) :
                        r[l].type = "SERVICE_REGISTRATION_ACK"
    BY <1>1 DEF AckFirst
  <2> DEFINE j == IF k < i THEN k ELSE k + 1
  <2>1. j \in 1..n /\ j # i /\ r[k] = q[j]
    BY <1>1
  <2>2. PICK h \in 1..(j - 1) : q[h].type = "SERVICE_REGISTRATION_ACK"
    BY <1>4, <2>1 DEF AckFirst, n
  <2>3. h \in 1..n /\ h # i
    BY <1>1, <2>1, <2>2
  <2> DEFINE l == IF h < i THEN h ELSE h - 1
  <2>4. l \in 1..(n - 1) /\ r[l] = q[h]
    BY <1>2, <2>3
  <2>5. l \in 1..(k - 1)
    BY <1>1, <2>1, <2>2, <2>3, <2>4
  <2> QED
    BY <2>2, <2>4, <2>5
<1> QED
  BY <1>3, <1>4 DEF r

-----------------------------------------------------------------------------
(* What a step of the network does to each queue.                          *)

LEMMA SendEffect ==
  ASSUME NetTypeOK, NEW p \in Procs, NEW q \in Procs, p # q,
         NEW rest, NEW m, send_req(p, rest, q, m)
  PROVE  /\ q \in listening /\ UNCHANGED <<listening, runs>>
         /\ \A r \in Procs \ {p} :
              backlog'[r] = IF r = q THEN Append(backlog[q], m)
                            ELSE backlog[r]
         /\ backlog'[p] = rest
BY DEF send_req, NetTypeOK

LEMMA ExitEffect ==
  ASSUME NetTypeOK, NEW p \in Procs, netError(p)
  PROVE  /\ listening' = listening \ {p} /\ runs' = runs
         /\ \A r \in Procs \ {p} : backlog'[r] = backlog[r]
         /\ backlog'[p] = <<>>
BY DEF netError, NetTypeOK

LEMMA ExitMidSendEffect ==
  ASSUME NetTypeOK, NEW p \in Procs, NEW q \in Procs, p # q,
         netErrorMidSend(p, q)
  PROVE  /\ q \in listening /\ listening' = listening \ {p} /\ runs' = runs
         /\ \A r \in Procs \ {p} :
              backlog'[r] = IF r = q THEN Append(backlog[q], Eof)
                            ELSE backlog[r]
         /\ backlog'[p] = <<>>
BY DEF netErrorMidSend, NetTypeOK

-----------------------------------------------------------------------------
(* Order: how a step can concern server s.                                 *)

\* Nothing of s itself changes but its queue.
SameServer(s) ==
  /\ serverPc'[s] = serverPc[s] /\ runs'[s] = runs[s]
  /\ s \in isRegistered' <=> s \in isRegistered
  /\ s \in listening' <=> s \in listening
  /\ serverPc[s] # "serve" => results'[s] = results[s]

LEMMA NothingArrives ==
  ASSUME NEW s \in Servers, AckOK(s), SameServer(s),
         backlog'[s] = backlog[s], Registered(s)' => Registered(s)
  PROVE  AckOK(s)'
BY DEF AckOK, SameServer, SocketOK, Unknown, Told

LEMMA PacketArrives ==
  ASSUME NetTypeOK, NEW s \in Servers, AckOK(s), SameServer(s), s \in listening,
         NEW m \in Message, backlog'[s] = Append(backlog[s], m),
         \/ m.type = "SERVICE_REGISTRATION_ACK"
         \/ /\ m.type = "SERVICE_REQUEST" => Registered(s)
            /\ Registered(s)' => Registered(s)
  PROVE  AckOK(s)'
<1>1. backlog[s] \in Seq(Message)
  BY DEF NetTypeOK, Procs
<1>2. SocketOK(s)' /\ Unknown(s)'
  BY DEF AckOK, SameServer, SocketOK, Unknown
<1>3. Told(s)'
  <2> SUFFICES ASSUME runs[s] <= 1, s \notin isRegistered
               PROVE  /\ Registered(s)' => HasAck(backlog'[s])
                      /\ AckFirst(backlog'[s])
    BY DEF Told, SameServer, HasAck, AckFirst
  <2>1. /\ Registered(s) => HasAck(backlog[s])
        /\ AckFirst(backlog[s])
    BY DEF AckOK, Told
  <2> QED
    BY <1>1, <2>1, AckFirstAppend
<1> QED
  BY <1>2, <1>3 DEF AckOK

LEMMA AckIsMessage ==
  /\ RegistrationAck \in Message /\ Eof \in Message
  /\ RegistrationAck.type = "SERVICE_REGISTRATION_ACK" /\ Eof.type = "EOF"
BY DEF RegistrationAck, Eof, Message, Ack, Broken

-----------------------------------------------------------------------------
(* Order: the broker.                                                      *)

LEMMA ServersApart ==
  ASSUME NEW s \in Servers
  PROVE  s \in Procs /\ broker \in Procs /\ s # broker /\ s \notin Clients
BY NetworkAssumption DEF Procs

LEMMA BrokerExitAck ==
  ASSUME IInv, NEW s \in Servers, AckOK(s), BrokerExit, UNCHANGED serverVars
  PROVE  AckOK(s)'
<1>1. SameServer(s) /\ backlog'[s] = backlog[s]
  BY ExitEffect, ServersApart
  DEF BrokerExit, SameServer, serverVars, IInv, NetInv
<1>2. ~Registered(s)'
  BY DEF BrokerExit, Registered
<1> QED
  BY <1>1, <1>2, NothingArrives

LEMMA BrokerKilledAck ==
  ASSUME IInv, NEW s \in Servers, AckOK(s), BrokerKilled, UNCHANGED serverVars
  PROVE  AckOK(s)'
<1>1. NetTypeOK
  BY DEF IInv, NetInv
<1>2. ~Registered(s)'
  BY DEF BrokerKilled, Registered
<1>3. CASE netError(broker)
  <2>1. SameServer(s) /\ backlog'[s] = backlog[s]
    BY <1>1, <1>3, ExitEffect, ServersApart DEF SameServer, serverVars
  <2> QED
    BY <1>2, <2>1, NothingArrives
<1>4. ASSUME NEW q \in Servers \cup Clients, netErrorMidSend(broker, q)
      PROVE  AckOK(s)'
  <2>1. q \in Procs /\ broker # q
    BY NetworkAssumption DEF Procs
  <2>2. /\ SameServer(s) /\ q \in listening
        /\ backlog'[s] = IF s = q THEN Append(backlog[q], Eof) ELSE backlog[s]
    BY <1>1, <1>4, <2>1, ExitMidSendEffect, ServersApart
    DEF SameServer, serverVars
  <2>3. CASE s = q
    BY <1>1, <1>2, <2>2, <2>3, AckIsMessage, PacketArrives
  <2>4. CASE s # q
    BY <1>2, <2>2, <2>4, NothingArrives
  <2> QED
    BY <2>3, <2>4
<1> QED
  BY <1>3, <1>4 DEF BrokerKilled

LEMMA RegisterServiceAck ==
  ASSUME IInv, NEW s \in Servers, AckOK(s), RegisterService,
         UNCHANGED serverVars
  PROVE  AckOK(s)'
<1> DEFINE t == Current.sender
<1>1. NetTypeOK /\ t \in Servers /\ svc_repo \in Seq(ServiceReg)
  <2>1. Current \in Registration
    BY CurrentSound, MessageKinds
    DEF RegisterService, Accept, Sound, IInv, NetInv
  <2>2. SoundService \subseteq ServiceReg
    BY DEF SoundService
  <2>3. svc_repo \in Seq(ServiceReg)
    BY <2>2, SeqMonotone DEF IInv, BrokerInv
  <2> QED
    BY <2>1, <2>3 DEF Registration, IInv, NetInv
<1>2. CASE t \notin listening
  BY <1>2, BrokerExitAck DEF RegisterService
<1>3. CASE t \in listening
  <2>1. /\ send_req(broker, Behind, t, RegistrationAck)
        /\ svc_repo' = LIST_Add_svc(Current)
    BY <1>3 DEF RegisterService
  <2>2. t \in Procs /\ t # broker
    BY <1>1, ServersApart
  <2>3. /\ SameServer(s)
        /\ backlog'[s] = IF s = t THEN Append(backlog[t], RegistrationAck)
                         ELSE backlog[s]
    BY <1>1, <2>1, <2>2, SendEffect, ServersApart DEF SameServer, serverVars
  <2>4. CASE s = t
    BY <1>1, <1>3, <2>3, <2>4, AckIsMessage, PacketArrives
  <2>5. CASE s # t
    <3>1. Registered(s)' => Registered(s)
      <4> SUFFICES ASSUME NEW j \in 1..Len(svc_repo'), svc_repo'[j].loc = s
                   PROVE  Registered(s)
        BY DEF Registered
      <4>1. [loc |-> t, services |-> Current.services] \in ServiceReg
        <5>1. Current \in Registration
          BY CurrentSound, MessageKinds
          DEF RegisterService, Accept, Sound, IInv, NetInv
        <5> QED
          BY <1>1, <5>1 DEF Registration, ServiceReg
      <4>2. /\ Len(svc_repo') = Len(svc_repo) + 1 /\ Len(svc_repo) \in Nat
            /\ \A i \in 1..Len(svc_repo) : svc_repo'[i] = svc_repo[i]
            /\ svc_repo'[Len(svc_repo) + 1].loc = t
        BY <1>1, <2>1, <4>1 DEF LIST_Add_svc
      <4>3. j \in 1..Len(svc_repo)
        BY <2>5, <4>2
      <4> QED
        BY <4>2, <4>3 DEF Registered
    <3> QED
      BY <2>3, <2>5, <3>1, NothingArrives
  <2> QED
    BY <2>4, <2>5
<1> QED
  BY <1>2, <1>3

\* A request is forwarded to a server the broker knows.
LEMMA ForwardRequestAck ==
  ASSUME IInv, NEW s \in Servers, AckOK(s), ForwardRequest,
         UNCHANGED serverVars
  PROVE  AckOK(s)'
<1>1. PICK j \in 1..Len(svc_repo) :
        /\ find_server_for_req(Current.op, j)
        /\ IF svc_repo[j].loc \in listening
           THEN /\ clnt_req_repo' = reg_clnt_req(Current)
                /\ send_req(broker, Behind, svc_repo[j].loc, Current)
                /\ UNCHANGED svc_repo
           ELSE BrokerExit
  BY DEF ForwardRequest
<1> DEFINE t == svc_repo[j].loc
<1>2. NetTypeOK /\ Current \in Message /\ Accept("SERVICE_REQUEST")
  BY CurrentSound, SoundMessage DEF ForwardRequest, IInv, NetInv
<1>3. t \in Servers
  <2>1. svc_repo[j] \in SoundService
    BY DEF IInv, BrokerInv
  <2> QED
    BY <2>1 DEF SoundService, ServiceReg
<1>4. CASE t \notin listening
  BY <1>1, <1>4, BrokerExitAck
<1>5. CASE t \in listening
  <2>1. t \in Procs /\ t # broker
    BY <1>3, ServersApart
  <2>2. /\ SameServer(s) /\ UNCHANGED svc_repo
        /\ backlog'[s] = IF s = t THEN Append(backlog[t], Current)
                         ELSE backlog[s]
    BY <1>1, <1>2, <1>5, <2>1, SendEffect, ServersApart
    DEF SameServer, serverVars
  <2>3. Registered(s)' => Registered(s)
    BY <2>2 DEF Registered
  <2>4. CASE s = t
    <3>1. Registered(s)
      BY <2>4 DEF Registered
    <3> QED
      BY <1>2, <1>5, <2>2, <2>3, <2>4, <3>1, PacketArrives
  <2>5. CASE s # t
    BY <2>2, <2>3, <2>5, NothingArrives
  <2> QED
    BY <2>4, <2>5
<1> QED
  BY <1>4, <1>5

\* A response is forwarded to a client, or the broker ends.
LEMMA ForwardResponseAck ==
  ASSUME IInv, NEW s \in Servers, AckOK(s), ForwardResponse,
         UNCHANGED serverVars
  PROVE  AckOK(s)'
<1>1. PICK j \in 1..Len(clnt_req_repo) :
        /\ find_client_for_response(Current, j)
        /\ IF clnt_req_repo[j].loc \in listening
           THEN /\ clnt_req_repo' = LIST_DeleteNode(j)
                /\ send_req(broker, Behind, clnt_req_repo[j].loc, Current)
                /\ UNCHANGED svc_repo
           ELSE BrokerExit
  BY DEF ForwardResponse
<1> DEFINE c == clnt_req_repo[j].loc
<1>2. c \in Clients
  <2>1. clnt_req_repo[j] \in SoundEntry
    BY DEF IInv, BrokerInv
  <2> QED
    BY <2>1 DEF SoundEntry, ClientReg
<1>3. CASE c \notin listening
  BY <1>1, <1>3, BrokerExitAck
<1>4. CASE c \in listening
  <2>1. NetTypeOK /\ c \in Procs /\ c # broker /\ c # s
    BY <1>2, NetworkAssumption DEF Procs, IInv, NetInv
  <2>2. SameServer(s) /\ UNCHANGED svc_repo /\ backlog'[s] = backlog[s]
    BY <1>1, <1>4, <2>1, SendEffect, ServersApart DEF SameServer, serverVars
  <2> QED
    BY <2>2, NothingArrives DEF Registered
<1> QED
  BY <1>3, <1>4

LEMMA BrokerAck ==
  ASSUME IInv, NEW s \in Servers, AckOK(s), BrokerStep
  PROVE  AckOK(s)'
<1>0. NetTypeOK /\ UNCHANGED serverVars
  BY DEF IInv, NetInv, BrokerStep
<1>1. CASE BrokerStart
  <2>1. SameServer(s) /\ backlog'[s] = backlog[s] /\ UNCHANGED svc_repo
    BY <1>0, <1>1, ServersApart
    DEF BrokerStart, Launch, SameServer, serverVars, brokerVars, NetTypeOK
  <2> QED
    BY <2>1, NothingArrives DEF Registered
<1>2. CASE RegisterService
  BY <1>0, <1>2, RegisterServiceAck
<1>3. CASE RequestWithoutServer \/ (MalformedPacket /\ ~BrokerExit)
  <2>1. SameServer(s) /\ backlog'[s] = backlog[s] /\ UNCHANGED svc_repo
    BY <1>0, <1>3, ServersApart
    DEF RequestWithoutServer, MalformedPacket, SameServer, serverVars,
        brokerVars, NetTypeOK
  <2> QED
    BY <2>1, NothingArrives DEF Registered
<1>4. CASE ForwardRequest
  BY <1>0, <1>4, ForwardRequestAck
<1>5. CASE ForwardResponse
  BY <1>0, <1>5, ForwardResponseAck
<1>6. CASE BrokerExit
  BY <1>0, <1>6, BrokerExitAck
<1>7. CASE BrokerKilled
  BY <1>0, <1>7, BrokerKilledAck
<1> QED
  BY <1>1, <1>2, <1>3, <1>4, <1>5, <1>6, <1>7
  DEF BrokerStep, BrokerNext, BrokerHandle, UnmatchedResponse,
      TruncatedPacket, BrokerTimeout

-----------------------------------------------------------------------------
(* Order: the servers.                                                     *)

\* The steps of another server.
LEMMA OtherServerAck ==
  ASSUME IInv, NEW s \in Servers, AckOK(s), NEW t \in Servers, t # s,
         ServerNext(t), UNCHANGED brokerVars
  PROVE  AckOK(s)'
<1>0. /\ NetTypeOK /\ ServerTypeOK /\ UNCHANGED svc_repo
      /\ s \in Procs /\ t \in Procs /\ broker \in Procs
      /\ s # broker /\ t # broker
  BY ServersApart DEF IInv, NetInv, ServerInv, brokerVars
<1>1. SameServer(s) /\ backlog'[s] = backlog[s]
  <2>1. CASE ServerStart(t)
    BY <1>0, <2>1
    DEF ServerStart, Launch, SameServer, NetTypeOK, ServerTypeOK
  <2>2. CASE ServerStops(t)
    <3>1. /\ listening' = listening \ {t} /\ runs' = runs
          /\ backlog'[s] = backlog[s]
      BY <1>0, <2>2, ExitEffect, ExitMidSendEffect DEF ServerStops
    <3> QED
      BY <1>0, <2>2, <3>1
      DEF ServerStops, ServerExit, SameServer, ServerTypeOK
  <2>3. CASE netError(t) /\ ServerExit(t)
    <3>1. /\ listening' = listening \ {t} /\ runs' = runs
          /\ backlog'[s] = backlog[s]
      BY <1>0, <2>3, ExitEffect
    <3> QED
      BY <1>0, <2>3, <3>1 DEF ServerExit, SameServer, ServerTypeOK
  <2>4. ASSUME NEW m, send_req(t, backlog[t], broker, m),
               results'[s] = results[s],
               serverPc' = [serverPc EXCEPT ![t] = "bind"] \/ UNCHANGED serverPc,
               UNCHANGED isRegistered
        PROVE  SameServer(s) /\ backlog'[s] = backlog[s]
    <3>1. UNCHANGED <<listening, runs>> /\ backlog'[s] = backlog[s]
      BY <1>0, <2>4, SendEffect
    <3> QED
      BY <1>0, <2>4, <3>1 DEF SameServer, ServerTypeOK
  <2>5. CASE ServerRegister(t)
    BY <2>3, <2>4, <2>5 DEF ServerRegister
  <2>6. CASE ServerBind(t)
    BY <1>0, <2>6 DEF ServerBind, SameServer, ServerTypeOK
  <2>7. ASSUME NEW i \in 1..Len(backlog[t]), Discard(t, i), UNCHANGED serverPc,
               results'[s] = results[s],
               isRegistered' = isRegistered \/ isRegistered' = isRegistered \cup {t}
        PROVE  SameServer(s) /\ backlog'[s] = backlog[s]
    BY <1>0, <2>7 DEF Discard, SameServer, NetTypeOK
  <2>8. ASSUME NEW j \in 1..Len(results[t]), SendResult(t, j)
        PROVE  SameServer(s) /\ backlog'[s] = backlog[s]
    BY <1>0, <2>3, <2>4, <2>8 DEF SendResult, ServerTypeOK
  <2>9. ASSUME NEW i \in 1..Len(backlog[t]),
               ReceiveAck(t, i) \/ Execute(t, i) \/ DropUnregistered(t, i)
        PROVE  SameServer(s) /\ backlog'[s] = backlog[s]
    BY <1>0, <2>7, <2>9
    DEF ReceiveAck, Execute, DropUnregistered, serverVars, ServerTypeOK
  <2> QED
    BY <2>1, <2>2, <2>5, <2>6, <2>8, <2>9
    DEF ServerNext, ServerMain, ServerThread, ServerTruncated, ServerTimeout,
        ServerKilled
<1> QED
  BY <1>0, <1>1, NothingArrives DEF Registered

\* The end of s: it is not in its first run when it is started again.
LEMMA ServerStopsAck ==
  ASSUME IInv, NEW s \in Servers, AckOK(s), serverPc[s] # "down",
         ServerExit(s), netError(s) \/ netErrorMidSend(s, broker)
  PROVE  AckOK(s)'
<1>1. /\ NetTypeOK /\ ServerTypeOK /\ s \in Procs /\ broker \in Procs
      /\ s # broker
  BY ServersApart DEF IInv, NetInv, ServerInv
<1>2. s \notin listening' /\ runs'[s] = runs[s] /\ backlog'[s] = <<>>
  BY <1>1, ExitEffect, ExitMidSendEffect
<1>3. serverPc'[s] = "down" /\ s \notin isRegistered' /\ results'[s] = <<>>
  BY <1>1 DEF ServerExit, ServerTypeOK
<1>4. runs[s] # 0
  BY DEF AckOK, SocketOK
<1> QED
  BY <1>2, <1>3, <1>4 DEF AckOK, SocketOK, Unknown, Told

\* A thread of s is done with a connection that is not the acknowledgement.
LEMMA DiscardAck ==
  ASSUME IInv, NEW s \in Servers, AckOK(s), NEW i \in 1..Len(backlog[s]),
         backlog[s][i].type # "SERVICE_REGISTRATION_ACK", Discard(s, i),
         serverPc[s] = "serve", UNCHANGED <<serverPc, isRegistered, svc_repo>>
  PROVE  AckOK(s)'
<1>1. /\ s \in Procs /\ backlog[s] \in Seq(Message)
      /\ backlog'[s] = Without(backlog[s], i)
      /\ UNCHANGED <<listening, runs>>
  BY ServersApart DEF Discard, Accepted, IInv, NetInv, NetTypeOK
<1>2. SocketOK(s)' /\ Unknown(s)'
  BY <1>1 DEF AckOK, SocketOK, Unknown, Registered
<1>3. Told(s)'
  <2> SUFFICES ASSUME runs[s] <= 1, s \in listening, s \notin isRegistered
               PROVE  /\ Registered(s) => HasAck(Without(backlog[s], i))
                      /\ AckFirst(Without(backlog[s], i))
    BY <1>1 DEF Told, Registered, HasAck, AckFirst
  <2>1. /\ Registered(s) => HasAck(backlog[s])
        /\ AckFirst(backlog[s])
    BY DEF AckOK, Told
  <2> QED
    BY <1>1, <2>1, AckFirstWithout
<1> QED
  BY <1>2, <1>3 DEF AckOK

LEMMA OwnSendAck ==
  ASSUME IInv, NEW s \in Servers, AckOK(s), NEW m,
         send_req(s, backlog[s], broker, m), UNCHANGED <<isRegistered, svc_repo>>,
         serverPc[s] # "serve" => results'[s] = results[s],
         \/ UNCHANGED serverPc
         \/ serverPc[s] = "register" /\ serverPc' = [serverPc EXCEPT ![s] = "bind"]
  PROVE  AckOK(s)'
<1>1. /\ NetTypeOK /\ ServerTypeOK /\ s \in Procs /\ broker \in Procs
      /\ s # broker
  BY ServersApart DEF IInv, NetInv, ServerInv
<1>2. UNCHANGED <<listening, runs>> /\ backlog'[s] = backlog[s]
  BY <1>1, SendEffect
<1>3. CASE UNCHANGED serverPc
  BY <1>2, <1>3, NothingArrives DEF SameServer, Registered
<1>4. CASE /\ serverPc[s] = "register"
           /\ serverPc' = [serverPc EXCEPT ![s] = "bind"]
  <2>1. serverPc'[s] = "bind"
    BY <1>1, <1>4 DEF ServerTypeOK
  <2> QED
    BY <1>2, <1>4, <2>1
    DEF AckOK, SocketOK, Unknown, Told, Registered, HasAck, AckFirst
<1> QED
  BY <1>3, <1>4

LEMMA OwnServerAck ==
  ASSUME IInv, NEW s \in Servers, AckOK(s), ServerNext(s), UNCHANGED brokerVars
  PROVE  AckOK(s)'
<1>0. NetTypeOK /\ ServerTypeOK /\ UNCHANGED svc_repo /\ s \in Procs
  BY ServersApart DEF IInv, NetInv, ServerInv, brokerVars
<1>1. CASE ServerStart(s)
  <2>1. /\ serverPc[s] = "down" /\ serverPc'[s] = "register"
        /\ runs'[s] = runs[s] + 1 /\ runs[s] \in Nat
        /\ UNCHANGED <<listening, backlog, isRegistered, results>>
    BY <1>0, <1>1, ProtocolAssumption
    DEF ServerStart, Launch, NetTypeOK, ServerTypeOK
  <2>2. s \notin listening /\ runs'[s] # 0
    BY <2>1 DEF AckOK, SocketOK
  <2>3. Unknown(s)'
    <3>1. runs'[s] = 1 => runs[s] = 0
      BY <2>1
    <3> QED
      BY <1>0, <2>2, <3>1 DEF AckOK, Unknown, Registered
  <2> QED
    BY <2>1, <2>2, <2>3 DEF AckOK, SocketOK, Told
<1>2. CASE ServerRegister(s)
  BY <1>0, <1>2, OwnSendAck, ServerStopsAck DEF ServerRegister
<1>3. CASE ServerBind(s)
  <2>1. /\ serverPc[s] = "bind" /\ serverPc'[s] = "serve" /\ s \in listening'
        /\ UNCHANGED <<backlog, runs, isRegistered>>
    BY <1>0, <1>3 DEF ServerBind, ServerTypeOK
  <2>2. backlog[s] = <<>> /\ runs[s] # 0 /\ runs[s] \in Nat
    BY <1>0, <2>1, ProtocolAssumption DEF AckOK, SocketOK, NetTypeOK
  <2>3. runs[s] <= 1 => ~Registered(s)
    BY <2>1, <2>2 DEF AckOK, Unknown
  <2>4. AckFirst(<<>>)
    BY DEF AckFirst
  <2>5. Told(s)'
    BY <1>0, <2>1, <2>2, <2>3, <2>4
    DEF Told, Registered, HasAck, AckFirst
  <2> QED
    BY <2>1, <2>2, <2>5 DEF AckOK, SocketOK, Unknown
<1>4. ASSUME NEW i \in 1..Len(backlog[s]), ReceiveAck(s, i)
      PROVE  AckOK(s)'
  <2>1. /\ serverPc[s] = "serve" /\ s \in isRegistered'
        /\ UNCHANGED <<serverPc, listening, runs>>
    BY <1>4 DEF ReceiveAck, Serving, Discard
  <2> QED
    BY <1>0, <2>1 DEF AckOK, SocketOK, Unknown, Told, Registered
<1>5. ASSUME NEW i \in 1..Len(backlog[s]), Execute(s, i) \/ DropUnregistered(s, i)
      PROVE  AckOK(s)'
  BY <1>0, <1>5, DiscardAck DEF Execute, DropUnregistered, Serving, serverVars
<1>6. ASSUME NEW j \in 1..Len(results[s]), SendResult(s, j)
      PROVE  AckOK(s)'
  <2>1. serverPc[s] = "serve"
    BY <1>6 DEF AckOK, SocketOK, SendResult
  <2> QED
    BY <1>0, <1>6, <2>1, OwnSendAck, ServerStopsAck DEF SendResult
<1>7. ASSUME serverPc[s] # "down", ServerStops(s)
      PROVE  AckOK(s)'
  BY <1>7, ServerStopsAck DEF ServerStops
<1> QED
  BY <1>1, <1>2, <1>3, <1>4, <1>5, <1>6, <1>7
  DEF ServerNext, ServerMain, ServerThread, ServerTruncated, Serving,
      ServerTimeout, ServerKilled

-----------------------------------------------------------------------------
(* Order: the clients, and the whole system.                               *)

LEMMA ClientAck ==
  ASSUME IInv, NEW s \in Servers, AckOK(s), NEW c \in Clients, ClientStep(c)
  PROVE  AckOK(s)'
<1>0. /\ NetTypeOK /\ UNCHANGED <<svc_repo, serverPc, isRegistered, results>>
      /\ s \in Procs /\ c \in Procs /\ broker \in Procs
      /\ s # broker /\ c # broker /\ c # s
  BY NetworkAssumption DEF Procs, IInv, NetInv, ClientStep, brokerVars, serverVars
<1> DEFINE OnlyClient == /\ s \in listening' <=> s \in listening
                         /\ runs'[s] = runs[s] /\ backlog'[s] = backlog[s]
<1>1. OnlyClient
  <2>1. ASSUME NEW m, send_req(c, backlog[c], broker, m)
        PROVE  OnlyClient
    BY <1>0, <2>1, SendEffect
  <2>2. ASSUME netError(c) \/ netErrorMidSend(c, broker)
        PROVE  OnlyClient
    BY <1>0, <2>2, ExitEffect, ExitMidSendEffect
  <2>3. CASE ClientStart(c)
    BY <1>0, <2>3 DEF ClientStart, Launch, NetTypeOK
  <2>4. CASE CallStub(c) \/ ClientBind(c)
    BY <1>0, <2>4 DEF CallStub, ClientBind, netVars
  <2>5. CASE ClientSender(c)
    <3>1. ASSUME NEW k \in sent[c], ThreadReturns(c, k)
          PROVE  OnlyClient
      BY <1>0, <3>1 DEF ThreadReturns, netVars
    <3>2. ASSUME NEW k \in unsent[c], SendRequest(c, k) \/ SendDangling(c, k)
          PROVE  OnlyClient
      BY <2>1, <2>2, <3>2 DEF SendRequest, SendDangling
    <3> QED
      BY <2>5, <3>1, <3>2 DEF ClientSender
  <2>6. CASE ReceiveResponse(c)
    BY <1>0, <2>6 DEF ReceiveResponse, NetTypeOK
  <2> QED
    BY <2>2, <2>3, <2>4, <2>5, <2>6
    DEF ClientStep, ClientNext, ClientMain, ClientTruncated, ClientTimeout,
        ClientFinish, ClientKilled, ClientStops
<1> QED
  BY <1>0, <1>1, NothingArrives DEF SameServer, Registered

LEMMA AckInit ==
  ASSUME Init, NEW s \in Servers
  PROVE  AckOK(s)
BY ServersApart
DEF Init, NetInit, BrokerInit, ServerInit, AckOK, SocketOK, Unknown, Told,
    Registered

LEMMA AckNext ==
  ASSUME IInv, [Next]_vars, NEW s \in Servers, AckOK(s)
  PROVE  AckOK(s)'
<1>1. CASE BrokerStep
  BY <1>1, BrokerAck
<1>2. ASSUME NEW t \in Servers, ServerStep(t)
      PROVE  AckOK(s)'
  BY <1>2, OwnServerAck, OtherServerAck DEF ServerStep
<1>3. ASSUME NEW c \in Clients, ClientStep(c)
      PROVE  AckOK(s)'
  BY <1>3, ClientAck
<1>4. CASE UNCHANGED vars
  BY <1>4, NothingArrives
  DEF vars, netVars, brokerVars, serverVars, SameServer, Registered
<1> QED
  BY <1>1, <1>2, <1>3, <1>4 DEF Next

\* A server in its first run that the broker asks to carry out a request has
\* its acknowledgement, or finds it queued before the request (broker.c:206,
\* server.c:150-154), for any number of servers and clients and whatever ends
\* or is started again.
THEOREM AcknowledgedFirst == Spec => []AckBeforeRequest
<1> DEFINE AckInv == \A s \in Servers : AckOK(s)
<1>1. Init => AckInv
  BY AckInit
<1>2. IInv /\ AckInv /\ [Next]_vars => AckInv'
  <2> SUFFICES ASSUME IInv, AckInv, [Next]_vars, NEW s \in Servers
               PROVE  AckOK(s)'
    OBVIOUS
  <2> QED
    BY AckNext
<1>3. IInv /\ AckInv => AckBeforeRequest
  <2> SUFFICES ASSUME IInv, AckInv, NEW s \in Servers,
                      runs[s] <= 1, s \notin isRegistered,
                      NEW i \in DOMAIN backlog[s],
                      backlog[s][i].type = "SERVICE_REQUEST"
               PROVE  \E j \in 1..(i - 1) :
                        backlog[s][j].type = "SERVICE_REGISTRATION_ACK"
    BY DEF AckBeforeRequest
  <2>1. backlog[s] \in Seq(Message) /\ AckOK(s)
    BY ServersApart DEF IInv, NetInv, NetTypeOK
  <2>2. i \in 1..Len(backlog[s])
    BY <2>1
  <2>3. s \in listening
    BY <2>1, <2>2 DEF AckOK, SocketOK
  <2> QED
    BY <2>1, <2>2, <2>3 DEF AckOK, Told, AckFirst
<1> HIDE DEF AckInv
<1> QED
  BY <1>1, <1>2, <1>3, Invariance, PTL DEF Spec

-----------------------------------------------------------------------------
(* Number: sets no larger than others.                                     *)

\* S is not larger than T.
Into(S, T) == ExistsInjection(S, T)

LEMMA IntoBy ==
  ASSUME NEW S, NEW T, NEW f \in [S -> T],
         \A a, b \in S : f[a] = f[b] => a = b
  PROVE  Into(S, T)
BY Fun_IsInj, Fun_ExistsInj DEF Into

LEMMA IntoOf ==
  ASSUME NEW S, NEW T, Into(S, T)
  PROVE  \E f \in [S -> T] : \A a, b \in S : f[a] = f[b] => a = b
<1>1. PICK f : f \in Injection(S, T)
  BY Fun_ExistsInj DEF Into
<1> QED
  BY <1>1, Fun_InjectionProperties

LEMMA IntoSubset ==
  ASSUME NEW S, NEW T, S \subseteq T
  PROVE  Into(S, T)
<1> DEFINE f == [a \in S |-> a]
<1>1. f \in [S -> T] /\ \A a, b \in S : f[a] = f[b] => a = b
  OBVIOUS
<1> HIDE DEF f
<1> QED
  BY <1>1, IntoBy

LEMMA IntoTransitive ==
  ASSUME NEW S, NEW T, NEW U, Into(S, T), Into(T, U)
  PROVE  Into(S, U)
BY Fun_ExistsInjTransitive DEF Into

\* One element more on either side.
LEMMA IntoOneMore ==
  ASSUME NEW S, NEW T, NEW a, NEW b, a \in S => b \in T,
         Into(S \ {a}, T \ {b})
  PROVE  Into(S, T)
<1>1. PICK f \in [S \ {a} -> T \ {b}] :
        \A x, y \in S \ {a} : f[x] = f[y] => x = y
  BY IntoOf
<1> DEFINE g == [x \in S |-> IF x = a THEN b ELSE f[x]]
<1>2. g \in [S -> T]
  BY <1>1
<1>3. ASSUME NEW x \in S, NEW y \in S, g[x] = g[y]
      PROVE  x = y
  <2>1. \A z \in S \ {a} : g[z] = f[z] /\ f[z] # b
    BY <1>1
  <2>2. a \in S => g[a] = b
    OBVIOUS
  <2> HIDE DEF g
  <2> QED
    BY <1>1, <1>3, <2>1, <2>2
<1> HIDE DEF g
<1> QED
  BY <1>2, <1>3, IntoBy

\* The elements of all D[x], kept apart.
Sum(D) == UNION {{x} \X D[x] : x \in DOMAIN D}

LEMMA SumMember ==
  ASSUME NEW D, NEW t
  PROVE  t \in Sum(D) <=> \E x \in DOMAIN D : \E i \in D[x] : t = <<x, i>>
BY DEF Sum

LEMMA SumInto ==
  ASSUME NEW D, NEW E, DOMAIN D = DOMAIN E,
         \A x \in DOMAIN D : Into(D[x], E[x])
  PROVE  Into(Sum(D), Sum(E))
<1> DEFINE IsInto(f, x) == /\ f \in [D[x] -> E[x]]
                           /\ \A i, j \in D[x] : f[i] = f[j] => i = j
           g == [x \in DOMAIN D |-> CHOOSE f : IsInto(f, x)]
           h == [t \in Sum(D) |-> <<t[1], g[t[1]][t[2]]>>]
<1>1. ASSUME NEW x \in DOMAIN D
      PROVE  IsInto(g[x], x)
  <2>1. \E f : IsInto(f, x)
    BY IntoOf
  <2> HIDE DEF IsInto
  <2> QED
    BY <2>1
<1> HIDE DEF g
<1>2. ASSUME NEW x \in DOMAIN D, NEW i \in D[x]
      PROVE  /\ <<x, i>> \in Sum(D)
             /\ h[<<x, i>>] = <<x, g[x][i]>>
             /\ g[x][i] \in E[x]
             /\ <<x, g[x][i]>> \in Sum(E)
  <2>1. <<x, i>> \in Sum(D)
    BY SumMember
  <2>2. g[x][i] \in E[x]
    BY <1>1
  <2>3. <<x, g[x][i]>> \in Sum(E)
    BY <2>2, SumMember
  <2>4. h[<<x, i>>] = <<x, g[x][i]>>
    BY <2>1
  <2> QED
    BY <2>1, <2>2, <2>3, <2>4
<1>3. DOMAIN h = Sum(D) /\ h = [t \in Sum(D) |-> h[t]]
  OBVIOUS
<1> HIDE DEF h
<1>4. h \in [Sum(D) -> Sum(E)]
  <2>1. ASSUME NEW t \in Sum(D)
        PROVE  h[t] \in Sum(E)
    <3>1. PICK x \in DOMAIN D : \E i \in D[x] : t = <<x, i>>
      BY SumMember
    <3>2. PICK i \in D[x] : t = <<x, i>>
      BY <3>1
    <3> QED
      BY <1>2, <3>2
  <2> QED
    BY <1>3, <2>1
<1>5. ASSUME NEW t \in Sum(D), NEW u \in Sum(D), h[t] = h[u]
      PROVE  t = u
  <2>1. PICK x \in DOMAIN D : \E i \in D[x] : t = <<x, i>>
    BY SumMember
  <2>2. PICK i \in D[x] : t = <<x, i>>
    BY <2>1
  <2>3. PICK y \in DOMAIN D : \E j \in D[y] : u = <<y, j>>
    BY SumMember
  <2>4. PICK j \in D[y] : u = <<y, j>>
    BY <2>3
  <2>5. <<x, g[x][i]>> = <<y, g[y][j]>>
    BY <1>2, <1>5, <2>2, <2>4
  <2>6. x = y /\ g[x][i] = g[x][j]
    BY <2>5
  <2>7. i = j
    BY <1>1, <2>6
  <2> QED
    BY <2>2, <2>4, <2>6, <2>7
<1> QED
  BY <1>4, <1>5, IntoBy

\* One element moves from D[x] to E[y], if it is there at all.
LEMMA SumMove ==
  ASSUME NEW D, NEW E, DOMAIN D = DOMAIN E,
         NEW x \in DOMAIN D, NEW a, NEW y \in DOMAIN E, NEW b,
         a \in D[x] => b \in E[y],
         \A z \in DOMAIN D : Into(IF z = x THEN D[z] \ {a} ELSE D[z],
                                  IF z = y THEN E[z] \ {b} ELSE E[z])
  PROVE  Into(Sum(D), Sum(E))
<1> DEFINE F == [z \in DOMAIN D |-> IF z = x THEN D[z] \ {a} ELSE D[z]]
           G == [z \in DOMAIN D |-> IF z = y THEN E[z] \ {b} ELSE E[z]]
<1>1. DOMAIN F = DOMAIN G /\ \A z \in DOMAIN F : Into(F[z], G[z])
  OBVIOUS
<1>2. Sum(F) = Sum(D) \ {<<x, a>>}
  <2>1. ASSUME NEW t
        PROVE  t \in Sum(F) <=> t \in Sum(D) /\ t # <<x, a>>
    <3>1. t \in Sum(F) <=> \E z \in DOMAIN D : \E i \in F[z] : t = <<z, i>>
      BY SumMember
    <3>2. t \in Sum(D) <=> \E z \in DOMAIN D : \E i \in D[z] : t = <<z, i>>
      BY SumMember
    <3>3. \A z \in DOMAIN D : \A i : i \in F[z] <=> i \in D[z] /\ <<z, i>> # <<x, a>>
      OBVIOUS
    <3> HIDE DEF F
    <3> QED
      BY <3>1, <3>2, <3>3
  <2> QED
    BY <2>1
<1>3. Sum(G) = Sum(E) \ {<<y, b>>}
  <2>1. ASSUME NEW t
        PROVE  t \in Sum(G) <=> t \in Sum(E) /\ t # <<y, b>>
    <3>1. t \in Sum(G) <=> \E z \in DOMAIN D : \E i \in G[z] : t = <<z, i>>
      BY SumMember
    <3>2. t \in Sum(E) <=> \E z \in DOMAIN D : \E i \in E[z] : t = <<z, i>>
      BY SumMember
    <3>3. \A z \in DOMAIN D : \A i : i \in G[z] <=> i \in E[z] /\ <<z, i>> # <<y, b>>
      OBVIOUS
    <3> HIDE DEF G
    <3> QED
      BY <3>1, <3>2, <3>3
  <2> QED
    BY <2>1
<1> HIDE DEF F, G
<1>4. Into(Sum(D) \ {<<x, a>>}, Sum(E) \ {<<y, b>>})
  <2>1. Into(Sum(F), Sum(G))
    BY <1>1, SumInto
  <2> QED
    BY <1>2, <1>3, <2>1
<1>5. <<x, a>> \in Sum(D) => <<y, b>> \in Sum(E)
  <2> SUFFICES ASSUME <<x, a>> \in Sum(D)
               PROVE  <<y, b>> \in Sum(E)
    OBVIOUS
  <2>1. PICK z \in DOMAIN D : \E i \in D[z] : <<x, a>> = <<z, i>>
    BY SumMember
  <2>2. a \in D[x]
    BY <2>1
  <2> QED
    BY <2>2, SumMember
<1> QED
  BY <1>4, <1>5, IntoOneMore

-----------------------------------------------------------------------------
(* Number: what may still come to b.                                       *)

\* What the starts of p pay for may come to b.
Pays(p, b) ==
  \/ p \in Servers /\ b \in {broker, p}
  \/ p \in Clients /\ (b = broker \/ b \in Servers \/ b = p)

Payers(b) == {p \in Servers \cup Clients : Pays(p, b)}

\* A packet m at p is for b, or what it leads to may be.
Counts(b, p, m) ==
  \/ p = b \/ b = broker
  \/ /\ p = broker /\ b \in Servers
     /\ \/ m.type \in {"SERVICE_REQUEST", "SERVICE_REQUEST_RESPONSE"}
        \/ m.type = "SERVICE_REGISTRATION" /\ m.sender = b
  \/ p = broker /\ b \in Clients /\ m.type = "SERVICE_REQUEST" /\ m.sender = b
  \/ p \in Servers /\ b \in Servers /\ m.type = "SERVICE_REQUEST"
  \/ p \in Clients /\ b \in Servers

\* What counts for b, of the packets queued at p, of the work p has not done,
\* and of where its main thread is.
Queued(b, p) == {i \in 1..Len(backlog[p]) : Counts(b, p, backlog[p][i])}

Work(b, p) ==
  {j \in Nat :
     \/ /\ p = broker /\ b \in Clients
        /\ j \in 1..Len(clnt_req_repo) /\ clnt_req_repo[j].loc = b
     \/ p \in Servers /\ b \notin Clients /\ j \in 1..Len(results[p])
     \/ p \in Clients /\ Pays(p, b) /\ j \in unsent[p]}

Duty(b, p) ==
  {j \in {0} : /\ Pays(p, b)
               /\ \/ p \in Servers /\ serverPc[p] = "register"
                  \/ p \in Clients /\ clientPc[p] = "idle"}

Slots == {"queue", "work", "duty"} \X Procs

Held(b, x) ==
  CASE x[1] = "queue" -> Queued(b, x[2])
    [] x[1] = "work"  -> Work(b, x[2])
    [] OTHER          -> Duty(b, x[2])

Tokens(b) == Sum([x \in Slots |-> Held(b, x)])

StartsFor(b) == Sum([p \in Payers(b) |-> 1..runs[p]])

\* Each of what may come to b is paid for by a start of its own.
Paid(b) == Into(Tokens(b), StartsFor(b))

BudgetInv == \A b \in Procs : Paid(b)

LEMMA SlotKinds ==
  ASSUME NEW x \in Slots
  PROVE  \E p \in Procs : \/ x = <<"queue", p>> /\ \A b : Held(b, x) = Queued(b, p)
                          \/ x = <<"work", p>> /\ \A b : Held(b, x) = Work(b, p)
                          \/ x = <<"duty", p>> /\ \A b : Held(b, x) = Duty(b, p)
<1>1. PICK k \in {"queue", "work", "duty"}, p \in Procs : x = <<k, p>>
  BY DEF Slots
<1> QED
  BY <1>1 DEF Held

LEMMA StartsKept ==
  ASSUME NEW b \in Procs,
         \A p \in Servers \cup Clients : runs'[p] = runs[p]
  PROVE  StartsFor(b)' = StartsFor(b)
<1>1. [p \in Payers(b) |-> 1..runs'[p]] = [p \in Payers(b) |-> 1..runs[p]]
  BY DEF Payers
<1> QED
  BY <1>1 DEF StartsFor, Payers, Pays

\* Whatever is held now was held before, but for n in y, which was o in x.
LEMMA BudgetMove ==
  ASSUME IInv, NEW b \in Procs, Paid(b),
         \A p \in Servers \cup Clients : runs'[p] = runs[p],
         NEW x \in Slots, NEW o, NEW y \in Slots, NEW n,
         n \in Held(b, y)' => o \in Held(b, x),
         \A z \in Slots : Into(IF z = y THEN Held(b, z)' \ {n} ELSE Held(b, z)',
                               IF z = x THEN Held(b, z) \ {o} ELSE Held(b, z))
  PROVE  Paid(b)'
<1>1. PICK D, E : /\ D = [z \in Slots |-> Held(b, z)']
                  /\ E = [z \in Slots |-> Held(b, z)]
  OBVIOUS
<1>2. /\ DOMAIN D = Slots /\ DOMAIN E = Slots
      /\ \A z \in Slots : D[z] = Held(b, z)' /\ E[z] = Held(b, z)
  BY <1>1
<1>3. /\ n \in D[y] => o \in E[x]
      /\ \A z \in DOMAIN D : Into(IF z = y THEN D[z] \ {n} ELSE D[z],
                                  IF z = x THEN E[z] \ {o} ELSE E[z])
  BY <1>2
<1>4. Into(Sum(D), Sum(E))
  BY <1>2, <1>3, SumMove
<1>5. Tokens(b)' = Sum(D) /\ Tokens(b) = Sum(E)
  BY <1>1 DEF Tokens, Slots
<1>6. Into(Sum(E), StartsFor(b))
  BY <1>5 DEF Paid
<1>7. Into(Sum(D), StartsFor(b))
  BY <1>4, <1>6, IntoTransitive
<1> QED
  BY <1>5, <1>7, StartsKept DEF Paid

\* Nothing comes in addition.
LEMMA BudgetQuiet ==
  ASSUME IInv, NEW b \in Procs, Paid(b),
         \A p \in Servers \cup Clients : runs'[p] = runs[p],
         \A z \in Slots : Into(Held(b, z)', Held(b, z))
  PROVE  Paid(b)'
<1>1. PICK D, E : /\ D = [z \in Slots |-> Held(b, z)']
                  /\ E = [z \in Slots |-> Held(b, z)]
  OBVIOUS
<1>2. /\ DOMAIN D = Slots /\ DOMAIN E = Slots
      /\ \A z \in DOMAIN D : Into(D[z], E[z])
  BY <1>1
<1>4. Into(Sum(D), Sum(E))
  BY <1>2, SumInto
<1>5. Tokens(b)' = Sum(D) /\ Tokens(b) = Sum(E)
  BY <1>1 DEF Tokens, Slots
<1>6. Into(Sum(E), StartsFor(b))
  BY <1>5 DEF Paid
<1>7. Into(Sum(D), StartsFor(b))
  BY <1>4, <1>6, IntoTransitive
<1> QED
  BY <1>5, <1>7, StartsKept DEF Paid

\* Process p is started, and its main thread has something to do.
LEMMA BudgetStart ==
  ASSUME IInv, NEW b \in Procs, Paid(b), NEW p \in Servers \cup Clients,
         runs' = [runs EXCEPT ![p] = @ + 1],
         \A z \in Slots : z # <<"duty", p>> => Into(Held(b, z)', Held(b, z))
  PROVE  Paid(b)'
<1> DEFINE y == <<"duty", p>>
           s == <<p, runs[p] + 1>>
<1>1. PICK D, E, F :
        /\ D = [z \in Slots |-> Held(b, z)']
        /\ E = [z \in Slots |-> Held(b, z)]
        /\ F = [z \in Slots |-> IF z = y THEN {} ELSE D[z]]
  OBVIOUS
<1>2. y \in Slots /\ Held(b, y) = Duty(b, p)
  BY DEF Slots, Procs, Held
<1>3. D[y] \subseteq {0} /\ (0 \in D[y] => Pays(p, b))
  BY <1>1, <1>2 DEF Held, Duty
<1>4. Into(Sum(F), Sum(E))
  <2>1. /\ DOMAIN F = Slots /\ DOMAIN E = Slots
        /\ \A z \in DOMAIN F : Into(F[z], E[z])
    <3>1. ASSUME NEW z \in Slots
          PROVE  Into(F[z], E[z])
      <4>1. CASE z = y
        <5>1. F[z] \subseteq E[z]
          BY <1>1, <4>1
        <5> QED
          BY <5>1, IntoSubset
      <4>2. CASE z # y
        BY <1>1, <4>2
      <4> QED
        BY <4>1, <4>2
    <3> QED
      BY <1>1, <3>1
  <2> QED
    BY <2>1, SumInto
<1>5. Sum(D) \ {<<y, 0>>} \subseteq Sum(F)
  <2>1. ASSUME NEW t, t \in Sum(D), t # <<y, 0>>
        PROVE  t \in Sum(F)
    <3>1. PICK z \in Slots : \E i \in D[z] : t = <<z, i>>
      BY <1>1, <2>1, SumMember
    <3>2. PICK i \in D[z] : t = <<z, i>>
      BY <3>1
    <3>3. z # y
      BY <1>3, <2>1, <3>2
    <3>4. z \in DOMAIN F /\ i \in F[z]
      BY <1>1, <3>2, <3>3
    <3> QED
      BY <3>2, <3>4, SumMember
  <2> QED
    BY <2>1
<1>6. Tokens(b)' = Sum(D) /\ Tokens(b) = Sum(E)
  BY <1>1 DEF Tokens, Slots
<1>7. PICK R, T : /\ R = [q \in Payers(b) |-> 1..runs[q]]
                  /\ T = [q \in Payers(b) |-> 1..runs'[q]]
  OBVIOUS
<1>8. /\ StartsFor(b) = Sum(R) /\ StartsFor(b)' = Sum(T)
      /\ DOMAIN R = Payers(b) /\ DOMAIN T = Payers(b)
  BY <1>7 DEF StartsFor, Payers, Pays
<1>9. ASSUME NEW q \in Payers(b)
      PROVE  /\ R[q] \subseteq T[q]
             /\ q = p => runs[p] + 1 \in T[q] /\ runs[p] + 1 \notin R[q]
  <2>1. q \in Procs /\ runs[q] \in Nat /\ runs'[q] = IF q = p THEN runs[q] + 1 ELSE runs[q]
    BY ProtocolAssumption DEF Payers, Procs, IInv, NetInv, NetTypeOK
  <2> QED
    BY <1>7, <2>1
<1>10. StartsFor(b) \subseteq StartsFor(b)' \ {s}
  <2>1. ASSUME NEW t, t \in StartsFor(b)
        PROVE  t \in StartsFor(b)' /\ t # s
    <3>1. PICK q \in Payers(b) : \E i \in R[q] : t = <<q, i>>
      BY <1>8, <2>1, SumMember
    <3>2. PICK i \in R[q] : t = <<q, i>>
      BY <3>1
    <3>3. q \in DOMAIN T /\ i \in T[q]
      BY <1>8, <1>9, <3>2
    <3>4. t \in Sum(T)
      BY <3>2, <3>3, SumMember
    <3>5. t # s
      BY <1>9, <3>2
    <3> QED
      BY <1>8, <3>4, <3>5
  <2> QED
    BY <2>1
<1>11. <<y, 0>> \in Sum(D) => s \in StartsFor(b)'
  <2> SUFFICES ASSUME <<y, 0>> \in Sum(D)
               PROVE  s \in StartsFor(b)'
    OBVIOUS
  <2>1. PICK z \in Slots : \E i \in D[z] : <<y, 0>> = <<z, i>>
    BY <1>1, SumMember
  <2>2. 0 \in D[y]
    BY <2>1
  <2>3. p \in Payers(b)
    BY <1>3, <2>2 DEF Payers
  <2>4. p \in DOMAIN T /\ runs[p] + 1 \in T[p]
    BY <1>8, <1>9, <2>3
  <2>5. s \in Sum(T)
    BY <2>4, SumMember
  <2> QED
    BY <1>8, <2>5
<1>12. Into(Sum(D) \ {<<y, 0>>}, StartsFor(b)' \ {s})
  <2>1. Into(Sum(E), StartsFor(b))
    BY <1>6 DEF Paid
  <2>2. Into(StartsFor(b), StartsFor(b)' \ {s})
    BY <1>10, IntoSubset
  <2>3. Into(Sum(D) \ {<<y, 0>>}, Sum(F))
    BY <1>5, IntoSubset
  <2>4. Into(Sum(D) \ {<<y, 0>>}, Sum(E))
    BY <1>4, <2>3, IntoTransitive
  <2>5. Into(Sum(D) \ {<<y, 0>>}, StartsFor(b))
    BY <2>1, <2>4, IntoTransitive
  <2> QED
    BY <2>2, <2>5, IntoTransitive
<1>13. Into(Sum(D), StartsFor(b)')
  <2>1. PICK S, U, a, c :
          S = Sum(D) /\ U = StartsFor(b)' /\ a = <<y, 0>> /\ c = s
    OBVIOUS
  <2>2. (a \in S => c \in U) /\ Into(S \ {a}, U \ {c})
    BY <1>11, <1>12, <2>1, Zenon
  <2>3. Into(S, U)
    BY <2>2, IntoOneMore
  <2> QED
    BY <2>1, <2>3
<1> QED
  BY <1>6, <1>13 DEF Paid

-----------------------------------------------------------------------------
(* Number: what a step does to each of them.                               *)

\* What is left when the i-th of n is taken away moves up.
LEMMA GapInto ==
  ASSUME NEW n \in Nat, NEW i \in 1..n, NEW A, NEW B, A \subseteq 1..(n - 1),
         \A j \in A : (IF j < i THEN j ELSE j + 1) \in B
  PROVE  Into(A, B \ {i})
<1> DEFINE f == [j \in A |-> IF j < i THEN j ELSE j + 1]
<1>1. \A j \in A : j \in Int /\ (IF j < i THEN j ELSE j + 1) # i
  OBVIOUS
<1>2. f \in [A -> B \ {i}]
  BY <1>1
<1>3. ASSUME NEW j \in A, NEW k \in A, f[j] = f[k]
      PROVE  j = k
  BY <1>1, <1>3
<1> HIDE DEF f
<1> QED
  BY <1>2, <1>3, IntoBy

LEMMA QueuedSame ==
  ASSUME NEW b, NEW p, backlog'[p] = backlog[p]
  PROVE  Queued(b, p)' = Queued(b, p)
BY DEF Queued, Counts

LEMMA QueuedGone ==
  ASSUME NEW b, NEW p, backlog'[p] = <<>>
  PROVE  Queued(b, p)' = {}
BY DEF Queued

LEMMA QueuedAppend ==
  ASSUME NetTypeOK, NEW b, NEW p \in Procs, NEW m,
         backlog'[p] = Append(backlog[p], m)
  PROVE  LET n == Len(backlog[p]) + 1
         IN  /\ Queued(b, p)' \ {n} = Queued(b, p)
             /\ n \in Queued(b, p)' <=> Counts(b, p, m)
<1> DEFINE n == Len(backlog[p]) + 1
<1>1. backlog[p] \in Seq(Message)
  BY DEF NetTypeOK
<1>2. /\ n - 1 \in Nat /\ Len(backlog'[p]) = n /\ backlog'[p][n] = m
      /\ \A i \in 1..(n - 1) : backlog'[p][i] = backlog[p][i]
  BY <1>1
<1>3. Queued(b, p)' = {i \in 1..n : Counts(b, p, backlog'[p][i])}
  BY <1>2 DEF Queued, Counts
<1>4. Queued(b, p) = {i \in 1..(n - 1) : Counts(b, p, backlog[p][i])}
  BY <1>2 DEF Queued
<1> HIDE DEF n
<1>5. Queued(b, p)' \ {n} = Queued(b, p)
  BY <1>2, <1>3, <1>4
<1>6. n \in Queued(b, p)' <=> Counts(b, p, m)
  BY <1>2, <1>3
<1> QED
  BY <1>5, <1>6 DEF n

LEMMA QueuedTaken ==
  ASSUME NetTypeOK, NEW b, NEW p \in Procs, NEW i \in 1..Len(backlog[p]),
         \/ backlog'[p] = Without(backlog[p], i)
         \/ i = 1 /\ backlog'[p] = Tail(backlog[p])
  PROVE  /\ Into(Queued(b, p)', Queued(b, p) \ {i})
         /\ Into(Queued(b, p)', Queued(b, p))
<1>1. backlog[p] \in Seq(Message)
  BY DEF NetTypeOK
<1>2. PICK n \in Nat : n = Len(backlog[p])
  BY <1>1
<1>3. /\ Len(backlog'[p]) = n - 1
      /\ \A j \in 1..(n - 1) :
           backlog'[p][j] = IF j < i THEN backlog[p][j] ELSE backlog[p][j + 1]
  <2>1. CASE backlog'[p] = Without(backlog[p], i)
    BY <1>1, <1>2, <2>1, WithoutProperties
  <2>2. CASE i = 1 /\ backlog'[p] = Tail(backlog[p])
    BY <1>1, <1>2, <2>2
  <2> QED
    BY <2>1, <2>2
<1>4. Queued(b, p)' = {j \in 1..(n - 1) : Counts(b, p, backlog'[p][j])}
  BY <1>3 DEF Queued, Counts
<1>5. Queued(b, p) = {j \in 1..n : Counts(b, p, backlog[p][j])}
  BY <1>2 DEF Queued
<1>6. \A j \in Queued(b, p)' : (IF j < i THEN j ELSE j + 1) \in Queued(b, p)
  <2> SUFFICES ASSUME NEW j \in Queued(b, p)'
               PROVE  (IF j < i THEN j ELSE j + 1) \in Queued(b, p)
    OBVIOUS
  <2>1. j \in 1..(n - 1) /\ Counts(b, p, backlog'[p][j])
    BY <1>4
  <2>2. CASE j < i
    BY <1>2, <1>3, <1>5, <2>1, <2>2
  <2>3. CASE ~(j < i)
    <3>1. j + 1 \in 1..n /\ Counts(b, p, backlog[p][j + 1])
      BY <1>2, <1>3, <2>1, <2>3
    <3> QED
      BY <1>5, <2>3, <3>1
  <2> QED
    BY <2>2, <2>3
<1>7. Queued(b, p)' \subseteq 1..(n - 1) /\ i \in 1..n
  BY <1>2, <1>4
<1>8. Into(Queued(b, p)', Queued(b, p) \ {i})
  BY <1>6, <1>7, GapInto
<1>9. Into(Queued(b, p) \ {i}, Queued(b, p))
  BY IntoSubset
<1> QED
  BY <1>8, <1>9, IntoTransitive

LEMMA WorkSame ==
  ASSUME NEW b, NEW p, p = broker => clnt_req_repo' = clnt_req_repo,
         p \in Servers => results'[p] = results[p],
         p \in Clients => unsent'[p] = unsent[p]
  PROVE  Work(b, p)' = Work(b, p)
BY DEF Work, Pays

LEMMA DutySame ==
  ASSUME NEW b, NEW p, p \in Servers => serverPc'[p] = serverPc[p],
         p \in Clients => clientPc'[p] = clientPc[p]
  PROVE  Duty(b, p)' = Duty(b, p)
BY DEF Duty, Pays

\* S without e, when x is y.
Less(S, x, y, e) == IF x = y THEN S \ {e} ELSE S

\* All that b may get now it might have got before, but for the n-th of what is
\* held as l at q, which was the o-th of what was held as k at p.
Passed(b, k, p, o, l, q, n) ==
  /\ n \in Held(b, <<l, q>>)' => o \in Held(b, <<k, p>>)
  /\ \A r \in Procs :
       /\ Into(Less(Queued(b, r)', <<l, q>>, <<"queue", r>>, n),
               Less(Queued(b, r), <<k, p>>, <<"queue", r>>, o))
       /\ Into(Less(Work(b, r)', <<l, q>>, <<"work", r>>, n),
               Less(Work(b, r), <<k, p>>, <<"work", r>>, o))
       /\ Into(Less(Duty(b, r)', <<l, q>>, <<"duty", r>>, n),
               Less(Duty(b, r), <<k, p>>, <<"duty", r>>, o))

\* BudgetMove and BudgetQuiet, one kind after the other.
LEMMA BudgetStep ==
  ASSUME IInv, NEW b \in Procs, Paid(b),
         \A r \in Servers \cup Clients : runs'[r] = runs[r],
         NEW k \in {"queue", "work", "duty"}, NEW p \in Procs, NEW o,
         NEW l \in {"queue", "work", "duty"}, NEW q \in Procs, NEW n,
         Passed(b, k, p, o, l, q, n)
  PROVE  Paid(b)'
<1>1. PICK x, y : x = <<k, p>> /\ y = <<l, q>>
  OBVIOUS
<1>2. x \in Slots /\ y \in Slots
  BY <1>1 DEF Slots
<1>3. n \in Held(b, y)' => o \in Held(b, x)
  BY <1>1 DEF Passed
<1>4. ASSUME NEW z \in Slots
      PROVE  Into(IF z = y THEN Held(b, z)' \ {n} ELSE Held(b, z)',
                  IF z = x THEN Held(b, z) \ {o} ELSE Held(b, z))
  <2>1. PICK j \in {"queue", "work", "duty"}, r \in Procs : z = <<j, r>>
    BY DEF Slots
  <2>2. /\ z = y <=> l = j /\ r = q
        /\ z = x <=> k = j /\ r = p
    BY <1>1, <2>1
  <2>3. CASE j = "queue"
    <3>1. Held(b, z) = Queued(b, r) /\ Held(b, z)' = Queued(b, r)'
      BY <2>1, <2>3 DEF Held
    <3> QED
      BY <2>2, <2>3, <3>1 DEF Less, Passed
  <2>4. CASE j = "work"
    <3>1. Held(b, z) = Work(b, r) /\ Held(b, z)' = Work(b, r)'
      BY <2>1, <2>4 DEF Held
    <3> QED
      BY <2>2, <2>4, <3>1 DEF Less, Passed
  <2>5. CASE j = "duty"
    <3>1. Held(b, z) = Duty(b, r) /\ Held(b, z)' = Duty(b, r)'
      BY <2>1, <2>5 DEF Held
    <3> QED
      BY <2>2, <2>5, <3>1 DEF Less, Passed
  <2> QED
    BY <2>3, <2>4, <2>5
<1> QED
  BY <1>2, <1>3, <1>4, BudgetMove

LEMMA BudgetStays ==
  ASSUME IInv, NEW b \in Procs, Paid(b),
         \A r \in Servers \cup Clients : runs'[r] = runs[r],
         \A r \in Procs : /\ Into(Queued(b, r)', Queued(b, r))
                          /\ Into(Work(b, r)', Work(b, r))
                          /\ Into(Duty(b, r)', Duty(b, r))
  PROVE  Paid(b)'
<1>1. ASSUME NEW z \in Slots
      PROVE  Into(Held(b, z)', Held(b, z))
  <2>1. PICK j \in {"queue", "work", "duty"}, r \in Procs : z = <<j, r>>
    BY DEF Slots
  <2> QED
    BY <2>1 DEF Held
<1> QED
  BY <1>1, BudgetQuiet

\* Process r does nothing.
Kept(b, r) == Work(b, r)' = Work(b, r) /\ Duty(b, r)' = Duty(b, r)

\* Process p sends m to q, and has o no more.
LEMMA SendBudget ==
  ASSUME IInv, NEW b \in Procs, Paid(b), NEW p \in Procs, NEW q \in Procs, p # q,
         NEW rest, NEW m, send_req(p, rest, q, m),
         NEW k \in {"queue", "work", "duty"}, NEW o,
         Counts(b, q, m) => o \in Held(b, <<k, p>>),
         \A r \in Procs \ {p} : Kept(b, r),
         Into(Queued(b, p)', Less(Queued(b, p), k, "queue", o)),
         Into(Work(b, p)', Less(Work(b, p), k, "work", o)),
         Into(Duty(b, p)', Less(Duty(b, p), k, "duty", o))
  PROVE  Paid(b)'
<1>1. PICK n : n = Len(backlog[q]) + 1
  OBVIOUS
<1>0. NetTypeOK
  BY DEF IInv, NetInv
<1>8. /\ runs' = runs
      /\ \A r \in Procs \ {p} :
           backlog'[r] = IF r = q THEN Append(backlog[q], m) ELSE backlog[r]
  BY <1>0, SendEffect
<1>2. /\ \A r \in Servers \cup Clients : runs'[r] = runs[r]
      /\ backlog'[q] = Append(backlog[q], m)
      /\ \A r \in Procs \ {p, q} : backlog'[r] = backlog[r]
  BY <1>8
<1>3. /\ Queued(b, q)' \ {n} = Queued(b, q)
      /\ n \in Queued(b, q)' <=> Counts(b, q, m)
  BY <1>0, <1>1, <1>2, QueuedAppend
<1>7. PICK l \in {"queue", "work", "duty"} : l = "queue"
  OBVIOUS
<1>4. n \in Held(b, <<l, q>>)' => o \in Held(b, <<k, p>>)
  BY <1>3, <1>7 DEF Held
<1>5. ASSUME NEW r \in Procs
      PROVE  /\ Into(Less(Queued(b, r)', r, q, n),
                     Less(Queued(b, r), <<k, p>>, <<"queue", r>>, o))
             /\ Into(Work(b, r)', Less(Work(b, r), <<k, p>>, <<"work", r>>, o))
             /\ Into(Duty(b, r)', Less(Duty(b, r), <<k, p>>, <<"duty", r>>, o))
  <2>1. CASE r = p
    BY <2>1 DEF Less
  <2>2. CASE r # p
    <3>1. Less(Queued(b, r)', r, q, n) \subseteq Queued(b, r)
      <4>1. CASE r = q
        BY <1>3, <4>1 DEF Less
      <4>2. CASE r # q
        BY <1>2, <2>2, <4>2, QueuedSame DEF Less
      <4> QED
        BY <4>1, <4>2
    <3>2. Work(b, r)' \subseteq Work(b, r) /\ Duty(b, r)' \subseteq Duty(b, r)
      BY <2>2 DEF Kept
    <3>3. /\ Into(Less(Queued(b, r)', r, q, n), Queued(b, r))
          /\ Into(Work(b, r)', Work(b, r)) /\ Into(Duty(b, r)', Duty(b, r))
      BY <3>1, <3>2, IntoSubset
    <3> QED
      BY <2>2, <3>3 DEF Less
  <2> QED
    BY <2>1, <2>2
<1>6. Passed(b, k, p, o, l, q, n)
  BY <1>4, <1>5, <1>7 DEF Less, Passed
<1> QED
  BY <1>2, <1>6, BudgetStep

\* Process p ends with the connection to q open, and leaves a broken packet.
LEMMA EndMidSendBudget ==
  ASSUME IInv, NEW b \in Procs, Paid(b), NEW p \in Procs, NEW q \in Procs, p # q,
         netErrorMidSend(p, q),
         NEW k \in {"queue", "work", "duty"}, NEW o,
         Counts(b, q, Eof) => o \in Held(b, <<k, p>>),
         Work(b, p)' = {}, Duty(b, p)' = {},
         \A r \in Procs \ {p} : Kept(b, r)
  PROVE  Paid(b)'
<1>0. NetTypeOK
  BY DEF IInv, NetInv
<1>1. /\ runs' = runs
      /\ \A r \in Procs \ {p} :
           backlog'[r] = IF r = q THEN Append(backlog[q], Eof) ELSE backlog[r]
      /\ backlog'[p] = <<>>
  BY <1>0, ExitMidSendEffect
<1>2. /\ \A r \in Servers \cup Clients : runs'[r] = runs[r]
      /\ backlog'[q] = Append(backlog[q], Eof)
      /\ \A r \in Procs \ {p, q} : backlog'[r] = backlog[r]
  BY <1>1
<1>3. PICK n : n = Len(backlog[q]) + 1
  OBVIOUS
<1>4. /\ Queued(b, q)' \ {n} = Queued(b, q)
      /\ n \in Queued(b, q)' <=> Counts(b, q, Eof)
  BY <1>0, <1>2, <1>3, QueuedAppend
<1>5. PICK l \in {"queue", "work", "duty"} : l = "queue"
  OBVIOUS
<1>6. n \in Held(b, <<l, q>>)' => o \in Held(b, <<k, p>>)
  BY <1>4, <1>5 DEF Held
<1>7. \A S : Into({}, S)
  BY IntoSubset
<1>8. ASSUME NEW r \in Procs
      PROVE  /\ Into(Less(Queued(b, r)', r, q, n),
                     Less(Queued(b, r), <<k, p>>, <<"queue", r>>, o))
             /\ Into(Work(b, r)', Less(Work(b, r), <<k, p>>, <<"work", r>>, o))
             /\ Into(Duty(b, r)', Less(Duty(b, r), <<k, p>>, <<"duty", r>>, o))
  <2>1. CASE r = p
    <3>1. Queued(b, r)' = {}
      BY <1>1, <2>1, QueuedGone
    <3> QED
      BY <1>7, <2>1, <3>1 DEF Less
  <2>2. CASE r # p
    <3>1. Less(Queued(b, r)', r, q, n) \subseteq Queued(b, r)
      <4>1. CASE r = q
        BY <1>4, <4>1 DEF Less
      <4>2. CASE r # q
        BY <1>2, <2>2, <4>2, QueuedSame DEF Less
      <4> QED
        BY <4>1, <4>2
    <3>2. Work(b, r)' \subseteq Work(b, r) /\ Duty(b, r)' \subseteq Duty(b, r)
      BY <2>2 DEF Kept
    <3>3. /\ Into(Less(Queued(b, r)', r, q, n), Queued(b, r))
          /\ Into(Work(b, r)', Work(b, r)) /\ Into(Duty(b, r)', Duty(b, r))
      BY <3>1, <3>2, IntoSubset
    <3> QED
      BY <2>2, <3>3 DEF Less
  <2> QED
    BY <2>1, <2>2
<1>9. Passed(b, k, p, o, l, q, n)
  BY <1>5, <1>6, <1>8 DEF Less, Passed
<1> QED
  BY <1>2, <1>9, BudgetStep

\* Process p ends with no connection open.
LEMMA EndQuietBudget ==
  ASSUME IInv, NEW b \in Procs, Paid(b), NEW p \in Procs, netError(p),
         Work(b, p)' = {}, Duty(b, p)' = {},
         \A r \in Procs \ {p} : Kept(b, r)
  PROVE  Paid(b)'
<1>1. NetTypeOK
  BY DEF IInv, NetInv
<1>2. /\ runs' = runs /\ backlog'[p] = <<>>
      /\ \A r \in Procs \ {p} : backlog'[r] = backlog[r]
  BY <1>1, ExitEffect
<1>3. ASSUME NEW r \in Procs
      PROVE  /\ Queued(b, r)' \subseteq Queued(b, r)
             /\ Work(b, r)' \subseteq Work(b, r)
             /\ Duty(b, r)' \subseteq Duty(b, r)
  <2>1. Queued(b, r)' \subseteq Queued(b, r)
    BY <1>2, QueuedGone, QueuedSame
  <2>2. /\ Work(b, r)' \subseteq Work(b, r)
        /\ Duty(b, r)' \subseteq Duty(b, r)
    BY DEF Kept
  <2> QED
    BY <2>1, <2>2
<1>4. \A r \in Procs : /\ Into(Queued(b, r)', Queued(b, r))
                       /\ Into(Work(b, r)', Work(b, r))
                       /\ Into(Duty(b, r)', Duty(b, r))
  BY <1>3, IntoSubset
<1>5. \A r \in Servers \cup Clients : runs'[r] = runs[r]
  BY <1>2
<1> QED
  BY <1>4, <1>5, BudgetStays

\* Process p ends, and perhaps leaves the broken packet it was about to send.
LEMMA EndBudget ==
  ASSUME IInv, NEW b \in Procs, Paid(b), NEW p \in Procs,
         Work(b, p)' = {}, Duty(b, p)' = {},
         \A r \in Procs \ {p} : Kept(b, r),
         \/ netError(p)
         \/ \E q \in Procs \ {p} :
              /\ netErrorMidSend(p, q)
              /\ Counts(b, q, Eof) =>
                   \E k \in {"queue", "work", "duty"} : \E o : o \in Held(b, <<k, p>>)
  PROVE  Paid(b)'
<1>1. CASE netError(p)
  BY <1>1, EndQuietBudget
<1>2. ASSUME NEW q \in Procs, p # q, netErrorMidSend(p, q),
             NEW k \in {"queue", "work", "duty"}, NEW o,
             Counts(b, q, Eof) => o \in Held(b, <<k, p>>)
      PROVE  Paid(b)'
  BY <1>2, EndMidSendBudget
<1> QED
  BY <1>1, <1>2

-----------------------------------------------------------------------------
(* Number: the broker.                                                     *)

LEMMA Apart ==
  /\ broker \in Procs /\ Servers \subseteq Procs /\ Clients \subseteq Procs
  /\ broker \notin Servers /\ broker \notin Clients
  /\ \A p \in Servers : p \notin Clients
BY NetworkAssumption DEF Procs

LEMMA OnlyBroker ==
  ASSUME NEW b, UNCHANGED <<serverVars, clientVars>>
  PROVE  /\ \A r \in Procs \ {broker} : Kept(b, r)
         /\ Duty(b, broker)' = Duty(b, broker) /\ Duty(b, broker) = {}
<1>1. ASSUME NEW r \in Procs
      PROVE  Duty(b, r)' = Duty(b, r) /\ (r # broker => Work(b, r)' = Work(b, r))
  BY WorkSame, DutySame DEF serverVars, clientVars
<1>2. Duty(b, broker) = {}
  BY Apart DEF Duty
<1> QED
  BY <1>1, <1>2, Apart DEF Kept

\* The connection the broker looks at.
LEMMA CurrentHeld ==
  ASSUME NetTypeOK, NEW t, Accept(t), NEW b
  PROVE  /\ 1 \in 1..Len(backlog[broker])
         /\ Current \in Message /\ Current.type = t
         /\ 1 \in Queued(b, broker) <=> Counts(b, broker, Current)
         /\ Queued(b, broker) = Held(b, <<"queue", broker>>)
<1>1. backlog[broker] \in Seq(Message) /\ backlog[broker] # <<>>
  BY Apart DEF NetTypeOK, Accept
<1>2. /\ 1 \in 1..Len(backlog[broker]) /\ Current = backlog[broker][1]
      /\ Current \in Message
  BY <1>1, HeadTailProperties DEF Current
<1> QED
  BY <1>2 DEF Queued, Held, Accept

LEMMA EntriesOfClients ==
  ASSUME NEW b
  PROVE  /\ b \notin Clients => Work(b, broker) = {}
         /\ \A j \in Nat : j \in Work(b, broker) <=>
              /\ b \in Clients
              /\ j \in 1..Len(clnt_req_repo) /\ clnt_req_repo[j].loc = b
         /\ Work(b, broker) = Held(b, <<"work", broker>>)
BY Apart DEF Work, Held

LEMMA EntriesOfClientsNext ==
  ASSUME NEW b
  PROVE  /\ b \notin Clients => Work(b, broker)' = {}
         /\ \A j \in Nat : j \in Work(b, broker)' <=>
              /\ b \in Clients
              /\ j \in 1..Len(clnt_req_repo') /\ clnt_req_repo'[j].loc = b
         /\ Work(b, broker)' = Held(b, <<"work", broker>>)'
BY Apart DEF Work, Held, Pays

LEMMA BrokerExitBudget ==
  ASSUME IInv, NEW b \in Procs, Paid(b), BrokerExit,
         UNCHANGED <<serverVars, clientVars>>
  PROVE  Paid(b)'
<1>1. Work(b, broker)' = {}
  BY Apart DEF BrokerExit, Work
<1>2. Duty(b, broker)' = {} /\ \A r \in Procs \ {broker} : Kept(b, r)
  BY OnlyBroker
<1>3. netError(broker)
  BY DEF BrokerExit
<1> QED
  BY <1>1, <1>2, <1>3, Apart, EndBudget

LEMMA Repositories ==
  ASSUME IInv
  PROVE  /\ \A j \in 1..Len(svc_repo) : svc_repo[j].loc \in Servers
         /\ \A j \in 1..Len(clnt_req_repo) :
              clnt_req_repo[j] \in SoundEntry /\ clnt_req_repo[j].loc \in Clients
         /\ clnt_req_repo \in Seq(SoundEntry)
<1>1. svc_repo \in Seq(SoundService) /\ clnt_req_repo \in Seq(SoundEntry)
  BY DEF IInv, BrokerInv
<1>2. \A r \in SoundService : r.loc \in Servers
  BY DEF SoundService, ServiceReg
<1>3. \A e \in SoundEntry : e.loc \in Clients
  BY DEF SoundEntry, ClientReg
<1> QED
  BY <1>1, <1>2, <1>3

LEMMA BrokerKilledBudget ==
  ASSUME IInv, NEW b \in Procs, Paid(b), BrokerKilled,
         UNCHANGED <<serverVars, clientVars>>
  PROVE  Paid(b)'
<1>0. NetTypeOK
  BY DEF IInv, NetInv
<1>1. Work(b, broker)' = {}
  BY Apart DEF BrokerKilled, Work
<1>2. Duty(b, broker)' = {} /\ \A r \in Procs \ {broker} : Kept(b, r)
  BY OnlyBroker
<1>3. CASE netError(broker)
  BY <1>1, <1>2, <1>3, Apart, EndBudget
<1>4. ASSUME NEW q \in Servers \cup Clients, BrokerPeer(q),
             netErrorMidSend(broker, q)
      PROVE  Paid(b)'
  <2>1. q \in Procs \ {broker}
    BY Apart
  <2>2. ASSUME Counts(b, q, Eof)
        PROVE  \E k \in {"queue", "work", "duty"} : \E o : o \in Held(b, <<k, broker>>)
    <3>1. b = q \/ b = broker \/ (q \in Clients /\ b \in Servers)
      BY <2>1, <2>2, Apart DEF Counts, Eof
    <3>2. CASE Accept("SERVICE_REGISTRATION") /\ q = Current.sender
      <4>1. Current \in Registration
        BY <1>0, <3>2, CurrentHeld, MessageKinds
      <4>2. q \in Servers
        BY <3>2, <4>1 DEF Registration
      <4>3. Counts(b, broker, Current)
        BY <3>1, <3>2, <4>1, <4>2, Apart DEF Counts, Registration
      <4> QED
        BY <1>0, <3>2, <4>3, CurrentHeld
    <3>3. ASSUME Accept("SERVICE_REQUEST"),
                 NEW j \in 1..Len(svc_repo), q = svc_repo[j].loc
          PROVE  \E k \in {"queue", "work", "duty"} : \E o :
                   o \in Held(b, <<k, broker>>)
      <4>1. q \in Servers
        BY <3>3, Repositories
      <4>2. Counts(b, broker, Current)
        BY <1>0, <3>1, <3>3, <4>1, Apart, CurrentHeld DEF Counts
      <4> QED
        BY <1>0, <3>3, <4>2, CurrentHeld
    <3>4. ASSUME Accept("SERVICE_REQUEST_RESPONSE"),
                 NEW j \in 1..Len(clnt_req_repo), q = clnt_req_repo[j].loc
          PROVE  \E k \in {"queue", "work", "duty"} : \E o :
                   o \in Held(b, <<k, broker>>)
      <4>1. q \in Clients /\ j \in Nat
        BY <3>4, Repositories
      <4>2. CASE b = q
        <5>1. j \in Work(b, broker)
          BY <3>4, <4>1, <4>2, EntriesOfClients
        <5> QED
          BY <5>1, EntriesOfClients
      <4>3. CASE b # q
        <5>1. Counts(b, broker, Current)
          BY <1>0, <3>1, <3>4, <4>3, CurrentHeld DEF Counts
        <5> QED
          BY <1>0, <3>4, <5>1, CurrentHeld
      <4> QED
        BY <4>2, <4>3
    <3> QED
      BY <1>4, <3>2, <3>3, <3>4 DEF BrokerPeer
  <2> QED
    BY <1>1, <1>2, <1>4, <2>1, <2>2, Apart, EndBudget
<1> QED
  BY <1>3, <1>4 DEF BrokerKilled

\* The broker is done with the connection it looks at.
LEMMA CurrentTaken ==
  ASSUME IInv, NEW t, Accept(t), NEW b, backlog'[broker] = Behind
  PROVE  /\ Into(Queued(b, broker)', Queued(b, broker) \ {1})
         /\ Into(Queued(b, broker)', Queued(b, broker))
<1>1. NetTypeOK
  BY DEF IInv, NetInv
<1>2. broker \in Procs /\ 1 \in 1..Len(backlog[broker])
  BY <1>1, Apart, CurrentHeld
<1>3. backlog'[broker] = Tail(backlog[broker])
  BY DEF Behind
<1> QED
  BY <1>1, <1>2, <1>3, QueuedTaken

LEMMA RegisterServiceBudget ==
  ASSUME IInv, NEW b \in Procs, Paid(b), RegisterService,
         UNCHANGED <<serverVars, clientVars>>
  PROVE  Paid(b)'
<1>0. NetTypeOK /\ Accept("SERVICE_REGISTRATION")
  BY DEF IInv, NetInv, RegisterService
<1>1. CASE BrokerExit
  BY <1>1, BrokerExitBudget
<1>2. PICK q : q = Current.sender
  OBVIOUS
<1>3. ASSUME send_req(broker, Behind, q, RegistrationAck),
             UNCHANGED clnt_req_repo
      PROVE  Paid(b)'
  <2>1. Current \in Registration
    BY <1>0, CurrentHeld, MessageKinds
  <2>2. q \in Servers
    BY <1>2, <2>1 DEF Registration
  <2>3. q \in Procs /\ broker # q
    BY <2>2, Apart
  <2>4. backlog'[broker] = Behind
    BY <1>0, <1>3, <2>3, Apart, SendEffect
  <2>5. PICK k \in {"queue", "work", "duty"}, o \in {1} : k = "queue" /\ o = 1
    OBVIOUS
  <2>6. Into(Queued(b, broker)', Less(Queued(b, broker), k, "queue", o))
    BY <1>0, <2>4, <2>5, CurrentTaken DEF Less
  <2>7. Counts(b, q, RegistrationAck) => o \in Held(b, <<k, broker>>)
    <3> SUFFICES ASSUME Counts(b, q, RegistrationAck)
                 PROVE  1 \in Queued(b, broker)
      BY <1>0, <2>5, CurrentHeld
    <3>1. b = q \/ b = broker
      BY <2>2, Apart DEF Counts, RegistrationAck
    <3>2. Counts(b, broker, Current)
      BY <1>2, <2>1, <2>2, <3>1, Apart DEF Counts, Registration
    <3> QED
      BY <1>0, <3>2, CurrentHeld
  <2>8. /\ Work(b, broker)' \subseteq Less(Work(b, broker), k, "work", o)
        /\ Duty(b, broker)' \subseteq Less(Duty(b, broker), k, "duty", o)
    BY <1>3, <2>5, Apart, OnlyBroker, WorkSame DEF Less
  <2>9. /\ Into(Work(b, broker)', Less(Work(b, broker), k, "work", o))
        /\ Into(Duty(b, broker)', Less(Duty(b, broker), k, "duty", o))
    BY <2>8, IntoSubset
  <2>10. \A r \in Procs \ {broker} : Kept(b, r)
    BY OnlyBroker
  <2> QED
    BY <1>3, <2>3, <2>6, <2>7, <2>9, <2>10, Apart, SendBudget
<1> QED
  BY <1>1, <1>2, <1>3 DEF RegisterService

\* The entry of the request the broker looks at is one for its client.
LEMMA EntryAdded ==
  ASSUME IInv, Accept("SERVICE_REQUEST"), NEW b, NEW n,
         n = Len(clnt_req_repo) + 1, clnt_req_repo' = reg_clnt_req(Current)
  PROVE  /\ Work(b, broker)' \ {n} = Work(b, broker)
         /\ n \in Work(b, broker)' => b \in Clients /\ Current.sender = b
<1>1. PICK e : e = [loc |-> Current.sender, op |-> Current.op, id |-> Current.id]
  OBVIOUS
<1>2. clnt_req_repo' = Append(clnt_req_repo, e) /\ e.loc = Current.sender
  BY <1>1 DEF reg_clnt_req
<1>3. clnt_req_repo \in Seq(SoundEntry)
  BY Repositories
<1>4. PICK l \in Nat : l = Len(clnt_req_repo)
  BY <1>3
<1>5. /\ Len(clnt_req_repo') = l + 1 /\ clnt_req_repo'[l + 1] = e /\ n = l + 1
      /\ \A j \in 1..l : clnt_req_repo'[j] = clnt_req_repo[j]
  BY <1>2, <1>3, <1>4
<1>6. \A j \in Nat : j # n => (j \in Work(b, broker)' <=> j \in Work(b, broker))
  BY <1>4, <1>5, EntriesOfClients, EntriesOfClientsNext
<1>7. n \in Work(b, broker)' => b \in Clients /\ Current.sender = b
  BY <1>2, <1>5, EntriesOfClientsNext
<1>8. n \notin Work(b, broker)
  BY <1>4, <1>5, EntriesOfClients
<1>9. Work(b, broker) \subseteq Nat /\ Work(b, broker)' \subseteq Nat
  BY DEF Work
<1> QED
  BY <1>6, <1>7, <1>8, <1>9

\* The packet the broker looks at becomes an entry, and is not passed on.
LEMMA QueueToWork ==
  ASSUME IInv, NEW b \in Procs, Paid(b),
         Accept("SERVICE_REQUEST"), clnt_req_repo' = reg_clnt_req(Current),
         backlog'[broker] = Behind,
         \A r \in Servers \cup Clients : runs'[r] = runs[r],
         \A r \in Procs \ {broker} : Into(Queued(b, r)', Queued(b, r)),
         UNCHANGED <<serverVars, clientVars>>
  PROVE  Paid(b)'
<1>0. NetTypeOK
  BY DEF IInv, NetInv
<1>1. PICK k \in {"queue", "work", "duty"}, o \in {1} : k = "queue" /\ o = 1
  OBVIOUS
<1>6. PICK q \in Procs : q = broker
  BY Apart
<1>7. PICK l \in {"queue", "work", "duty"}, n \in {Len(clnt_req_repo) + 1} :
        l = "work" /\ n = Len(clnt_req_repo) + 1
  OBVIOUS
<1>2. l = "work" /\ n = Len(clnt_req_repo) + 1 /\ q = broker
  BY <1>6, <1>7
<1>3. n \in Held(b, <<l, q>>)' => o \in Held(b, <<k, broker>>)
  <2> SUFFICES ASSUME n \in Work(b, broker)'
               PROVE  1 \in Queued(b, broker)
    BY <1>0, <1>1, <1>2, EntriesOfClientsNext, CurrentHeld
  <2>1. b \in Clients /\ Current.sender = b
    BY <1>2, EntryAdded
  <2>2. Counts(b, broker, Current)
    BY <1>0, <2>1, CurrentHeld DEF Counts
  <2> QED
    BY <1>0, <2>2, CurrentHeld
<1>4. ASSUME NEW r \in Procs
      PROVE  /\ Into(Queued(b, r)', Less(Queued(b, r), <<k, broker>>, <<"queue", r>>, o))
             /\ Into(Less(Work(b, r)', r, q, n), Work(b, r))
             /\ Into(Duty(b, r)', Duty(b, r))
  <2>1. Duty(b, r)' = Duty(b, r)
    BY OnlyBroker DEF Kept
  <2>2. Less(Work(b, r)', r, q, n) \subseteq Work(b, r)
    BY <1>2, OnlyBroker, EntryAdded DEF Less, Kept
  <2>3. Into(Queued(b, r)', Less(Queued(b, r), <<k, broker>>, <<"queue", r>>, o))
    BY <1>1, CurrentTaken DEF Less
  <2> QED
    BY <2>1, <2>2, <2>3, IntoSubset
<1>5. Passed(b, k, broker, o, l, q, n)
  BY <1>1, <1>2, <1>3, <1>4 DEF Passed, Less
<1> QED
  BY <1>5, Apart, BudgetStep

LEMMA RequestWithoutServerBudget ==
  ASSUME IInv, NEW b \in Procs, Paid(b), RequestWithoutServer,
         UNCHANGED <<serverVars, clientVars>>
  PROVE  Paid(b)'
<1>0. NetTypeOK
  BY DEF IInv, NetInv
<1>1. /\ Accept("SERVICE_REQUEST") /\ clnt_req_repo' = reg_clnt_req(Current)
      /\ backlog'[broker] = Behind
      /\ \A r \in Procs \ {broker} : backlog'[r] = backlog[r]
      /\ \A r \in Servers \cup Clients : runs'[r] = runs[r]
  BY <1>0, Apart DEF RequestWithoutServer, NetTypeOK
<1>2. \A r \in Procs \ {broker} : Queued(b, r)' \subseteq Queued(b, r)
  BY <1>1, QueuedSame
<1>3. \A r \in Procs \ {broker} : Into(Queued(b, r)', Queued(b, r))
  BY <1>2, IntoSubset
<1> QED
  BY <1>1, <1>3, QueueToWork

LEMMA ForwardRequestBudget ==
  ASSUME IInv, NEW b \in Procs, Paid(b), ForwardRequest,
         UNCHANGED <<serverVars, clientVars>>
  PROVE  Paid(b)'
<1>0. NetTypeOK /\ Accept("SERVICE_REQUEST")
  BY DEF IInv, NetInv, ForwardRequest
<1>1. CASE BrokerExit
  BY <1>1, BrokerExitBudget
<1>2. ASSUME NEW j \in 1..Len(svc_repo), NEW q, q = svc_repo[j].loc,
             clnt_req_repo' = reg_clnt_req(Current),
             send_req(broker, Behind, q, Current)
      PROVE  Paid(b)'
  <2>1. q \in Servers
    BY <1>2, Repositories
  <2>2. q \in Procs /\ broker # q
    BY <2>1, Apart
  <2>3. /\ backlog'[broker] = Behind /\ runs' = runs
        /\ \A r \in Procs \ {broker} :
             backlog'[r] = IF r = q THEN Append(backlog[q], Current)
                           ELSE backlog[r]
    BY <1>0, <1>2, <2>2, Apart, SendEffect
  <2>4. Current.type = "SERVICE_REQUEST"
    BY <1>0, CurrentHeld
  <2>5. CASE b \in Clients
    <3>1. ~Counts(b, q, Current)
      BY <2>1, <2>2, <2>5, Apart DEF Counts
    <3>2. PICK n : n = Len(backlog[q]) + 1
      OBVIOUS
    <3>3. /\ Queued(b, q)' \ {n} = Queued(b, q)
          /\ n \in Queued(b, q)' <=> Counts(b, q, Current)
      BY <1>0, <2>2, <2>3, <3>2, QueuedAppend
    <3>4. \A r \in Procs \ {broker} : Queued(b, r)' \subseteq Queued(b, r)
      BY <2>3, <3>1, <3>3, QueuedSame
    <3>5. \A r \in Procs \ {broker} : Into(Queued(b, r)', Queued(b, r))
      BY <3>4, IntoSubset
    <3>6. \A r \in Servers \cup Clients : runs'[r] = runs[r]
      BY <2>3
    <3> QED
      BY <1>0, <1>2, <2>3, <3>5, <3>6, QueueToWork
  <2>6. CASE b \notin Clients
    <3>1. PICK k \in {"queue", "work", "duty"}, o \in {1} :
          k = "queue" /\ o = 1
      OBVIOUS
    <3>2. Into(Queued(b, broker)', Less(Queued(b, broker), k, "queue", o))
      BY <1>0, <2>3, <3>1, CurrentTaken DEF Less
    <3>3. Counts(b, q, Current) => o \in Held(b, <<k, broker>>)
      <4>1. Counts(b, broker, Current)
        BY <2>4, <2>6 DEF Counts, Procs
      <4> QED
        BY <1>0, <3>1, <4>1, CurrentHeld
    <3>4. /\ Work(b, broker)' \subseteq Less(Work(b, broker), k, "work", o)
          /\ Duty(b, broker)' \subseteq Less(Duty(b, broker), k, "duty", o)
      BY <2>6, <3>1, OnlyBroker, EntriesOfClientsNext DEF Less
    <3>5. /\ Into(Work(b, broker)', Less(Work(b, broker), k, "work", o))
          /\ Into(Duty(b, broker)', Less(Duty(b, broker), k, "duty", o))
      BY <3>4, IntoSubset
    <3>6. \A r \in Procs \ {broker} : Kept(b, r)
      BY OnlyBroker
    <3> QED
      BY <1>2, <2>2, <3>2, <3>3, <3>5, <3>6, Apart, SendBudget
  <2> QED
    BY <2>5, <2>6
<1> QED
  BY <1>1, <1>2 DEF ForwardRequest

LEMMA EntryDeleted ==
  ASSUME IInv, NEW b, NEW i \in 1..Len(clnt_req_repo),
         clnt_req_repo' = LIST_DeleteNode(i)
  PROVE  Into(Work(b, broker)', Work(b, broker) \ {i})
<1>1. clnt_req_repo \in Seq(SoundEntry)
  BY Repositories
<1>2. PICK n \in Nat : n = Len(clnt_req_repo)
  BY <1>1
<1>3. /\ Len(clnt_req_repo') = n - 1
      /\ \A j \in 1..(n - 1) :
           clnt_req_repo'[j] = IF j < i THEN clnt_req_repo[j]
                               ELSE clnt_req_repo[j + 1]
  BY <1>1, <1>2, WithoutProperties DEF LIST_DeleteNode
<1>4. PICK W : W = Work(b, broker)'
  OBVIOUS
<1>5. \A j \in W : /\ b \in Clients /\ j \in 1..(n - 1)
                  /\ clnt_req_repo'[j].loc = b
  <2>1. Work(b, broker)' \subseteq Nat
    BY DEF Work
  <2> QED
    BY <1>3, <1>4, <2>1, EntriesOfClientsNext
<1>6. ASSUME NEW j \in W
      PROVE  (IF j < i THEN j ELSE j + 1) \in Work(b, broker)
  <2>1. CASE j < i
    BY <1>2, <1>3, <1>5, <2>1, EntriesOfClients
  <2>2. CASE ~(j < i)
    <3>1. j + 1 \in 1..n /\ clnt_req_repo[j + 1].loc = b /\ j + 1 \in Nat
      BY <1>2, <1>3, <1>5, <2>2
    <3>2. j + 1 \in Work(b, broker)
      BY <1>2, <1>5, <3>1, EntriesOfClients
    <3> QED
      BY <2>2, <3>2
  <2> QED
    BY <2>1, <2>2
<1>7. W \subseteq 1..(n - 1) /\ i \in 1..n
  BY <1>2, <1>5
<1> QED
  BY <1>4, <1>6, <1>7, GapInto

LEMMA ForwardResponseBudget ==
  ASSUME IInv, NEW b \in Procs, Paid(b), ForwardResponse,
         UNCHANGED <<serverVars, clientVars>>
  PROVE  Paid(b)'
<1>0. NetTypeOK /\ Accept("SERVICE_REQUEST_RESPONSE")
  BY DEF IInv, NetInv, ForwardResponse
<1>1. CASE BrokerExit
  BY <1>1, BrokerExitBudget
<1>2. ASSUME NEW j \in 1..Len(clnt_req_repo), NEW q, q = clnt_req_repo[j].loc,
             clnt_req_repo' = LIST_DeleteNode(j),
             send_req(broker, Behind, q, Current)
      PROVE  Paid(b)'
  <2>1. q \in Clients /\ j \in Nat
    BY <1>2, Repositories
  <2>2. q \in Procs /\ broker # q
    BY <2>1, Apart
  <2>3. backlog'[broker] = Behind
    BY <1>0, <1>2, <2>2, Apart, SendEffect
  <2>4. Current.type = "SERVICE_REQUEST_RESPONSE"
    BY <1>0, CurrentHeld
  <2>5. \A r \in Procs \ {broker} : Kept(b, r)
    BY OnlyBroker
  <2>6. CASE b \in Clients
    <3>1. PICK k \in {"queue", "work", "duty"}, o \in {j} : k = "work" /\ o = j
      OBVIOUS
    <3>2. Into(Queued(b, broker)', Less(Queued(b, broker), k, "queue", o))
      BY <1>0, <2>3, <3>1, CurrentTaken DEF Less
    <3>3. Counts(b, q, Current) => o \in Held(b, <<k, broker>>)
      <4> SUFFICES ASSUME Counts(b, q, Current)
                   PROVE  j \in Work(b, broker)
        BY <3>1, EntriesOfClients
      <4>1. b = q
        BY <2>1, <2>2, <2>6, Apart DEF Counts
      <4> QED
        BY <1>2, <2>1, <2>6, <4>1, EntriesOfClients
    <3>4. Into(Work(b, broker)', Less(Work(b, broker), k, "work", o))
      <4>1. Into(Work(b, broker)', Work(b, broker) \ {j})
        BY <1>2, EntryDeleted
      <4> QED
        BY <3>1, <4>1 DEF Less
    <3>5. Duty(b, broker)' \subseteq Less(Duty(b, broker), k, "duty", o)
      BY <3>1, OnlyBroker DEF Less
    <3>6. Into(Duty(b, broker)', Less(Duty(b, broker), k, "duty", o))
      BY <3>5, IntoSubset
    <3> QED
      BY <1>2, <2>2, <2>5, <3>2, <3>3, <3>4, <3>6, Apart, SendBudget
  <2>7. CASE b \notin Clients
    <3>1. PICK k \in {"queue", "work", "duty"}, o \in {1} :
          k = "queue" /\ o = 1
      OBVIOUS
    <3>2. Into(Queued(b, broker)', Less(Queued(b, broker), k, "queue", o))
      BY <1>0, <2>3, <3>1, CurrentTaken DEF Less
    <3>3. Counts(b, q, Current) => o \in Held(b, <<k, broker>>)
      <4>1. Counts(b, broker, Current)
        BY <2>4, <2>7 DEF Counts, Procs
      <4> QED
        BY <1>0, <3>1, <4>1, CurrentHeld
    <3>4. /\ Work(b, broker)' \subseteq Less(Work(b, broker), k, "work", o)
          /\ Duty(b, broker)' \subseteq Less(Duty(b, broker), k, "duty", o)
      BY <2>7, <3>1, OnlyBroker, EntriesOfClientsNext DEF Less
    <3>5. /\ Into(Work(b, broker)', Less(Work(b, broker), k, "work", o))
          /\ Into(Duty(b, broker)', Less(Duty(b, broker), k, "duty", o))
      BY <3>4, IntoSubset
    <3> QED
      BY <1>2, <2>2, <2>5, <3>2, <3>3, <3>5, Apart, SendBudget
  <2> QED
    BY <2>6, <2>7
<1> QED
  BY <1>1, <1>2 DEF ForwardResponse

LEMMA BrokerBudget ==
  ASSUME IInv, NEW b \in Procs, Paid(b), BrokerStep
  PROVE  Paid(b)'
<1>0. NetTypeOK /\ UNCHANGED <<serverVars, clientVars>>
  BY DEF IInv, NetInv, BrokerStep
<1>1. ASSUME UNCHANGED clnt_req_repo,
             \A r \in Servers \cup Clients : runs'[r] = runs[r],
             \A r \in Procs : Into(Queued(b, r)', Queued(b, r))
      PROVE  Paid(b)'
  <2>1. ASSUME NEW r \in Procs
        PROVE  Work(b, r)' \subseteq Work(b, r) /\ Duty(b, r)' \subseteq Duty(b, r)
    <3>1. CASE r = broker
      BY <1>0, <1>1, <3>1, OnlyBroker, Apart, WorkSame
    <3>2. CASE r # broker
      BY <1>0, <3>2, OnlyBroker DEF Kept
    <3> QED
      BY <3>1, <3>2
  <2>2. \A r \in Procs : Into(Work(b, r)', Work(b, r)) /\ Into(Duty(b, r)', Duty(b, r))
    BY <2>1, IntoSubset
  <2> QED
    BY <1>1, <2>2, BudgetStays
<1>2. CASE BrokerStart
  <2>1. \A r \in Procs : Queued(b, r)' \subseteq Queued(b, r)
    BY <1>2, QueuedSame DEF BrokerStart
  <2>2. \A r \in Procs : Into(Queued(b, r)', Queued(b, r))
    BY <2>1, IntoSubset
  <2>3. UNCHANGED clnt_req_repo /\ \A r \in Servers \cup Clients : runs'[r] = runs[r]
    BY <1>0, <1>2, Apart DEF BrokerStart, Launch, brokerVars, NetTypeOK
  <2> QED
    BY <1>1, <2>2, <2>3
<1>3. CASE RegisterService
  BY <1>0, <1>3, RegisterServiceBudget
<1>4. CASE RequestWithoutServer
  BY <1>0, <1>4, RequestWithoutServerBudget
<1>5. CASE ForwardRequest
  BY <1>0, <1>5, ForwardRequestBudget
<1>6. CASE ForwardResponse
  BY <1>0, <1>6, ForwardResponseBudget
<1>7. CASE BrokerExit
  BY <1>0, <1>7, BrokerExitBudget
<1>8. CASE MalformedPacket /\ ~BrokerExit
  <2>1. /\ Accept("FAILED") /\ backlog'[broker] = Behind
        /\ \A r \in Procs \ {broker} : backlog'[r] = backlog[r]
        /\ runs' = runs /\ UNCHANGED clnt_req_repo
    BY <1>0, <1>8, Apart DEF MalformedPacket, NetTypeOK, brokerVars
  <2>2. Into(Queued(b, broker)', Queued(b, broker))
    BY <2>1, CurrentTaken
  <2>3. \A r \in Procs \ {broker} : Queued(b, r)' \subseteq Queued(b, r)
    BY <2>1, QueuedSame
  <2>4. \A r \in Procs : Into(Queued(b, r)', Queued(b, r))
    BY <2>2, <2>3, IntoSubset
  <2> QED
    BY <1>1, <2>1, <2>4
<1>9. CASE BrokerKilled
  BY <1>0, <1>9, BrokerKilledBudget
<1> QED
  BY <1>2, <1>3, <1>4, <1>5, <1>6, <1>7, <1>8, <1>9
  DEF BrokerStep, BrokerNext, BrokerHandle, BrokerTimeout, UnmatchedResponse,
      TruncatedPacket

-----------------------------------------------------------------------------
(* Number: the servers.                                                    *)

LEMMA OnlyServer ==
  ASSUME NEW b, NEW s \in Servers, UNCHANGED <<brokerVars, clientVars>>,
         \A t \in Servers \ {s} : serverPc'[t] = serverPc[t] /\ results'[t] = results[t]
  PROVE  \A r \in Procs \ {s} : Kept(b, r)
<1> SUFFICES ASSUME NEW r \in Procs \ {s}
             PROVE  Work(b, r)' = Work(b, r) /\ Duty(b, r)' = Duty(b, r)
  BY DEF Kept
<1> QED
  BY WorkSame, DutySame DEF brokerVars, clientVars

LEMMA ServerHolds ==
  ASSUME NEW b, NEW s \in Servers
  PROVE  /\ \A j \in Nat : j \in Work(b, s) <=>
              b \notin Clients /\ j \in 1..Len(results[s])
         /\ Work(b, s) \subseteq Nat /\ Duty(b, s) \subseteq {0}
         /\ 0 \in Duty(b, s) <=> b \in {broker, s} /\ serverPc[s] = "register"
         /\ Held(b, <<"work", s>>) = Work(b, s)
         /\ Held(b, <<"duty", s>>) = Duty(b, s)
         /\ Held(b, <<"queue", s>>) = Queued(b, s)
BY Apart DEF Work, Duty, Held, Pays

LEMMA ServerHoldsNext ==
  ASSUME NEW b, NEW s \in Servers
  PROVE  /\ \A j \in Nat : j \in Work(b, s)' <=>
              b \notin Clients /\ j \in 1..Len(results'[s])
         /\ Work(b, s)' \subseteq Nat /\ Duty(b, s)' \subseteq {0}
         /\ 0 \in Duty(b, s)' <=> b \in {broker, s} /\ serverPc'[s] = "register"
         /\ Held(b, <<"work", s>>)' = Work(b, s)'
         /\ Held(b, <<"duty", s>>)' = Duty(b, s)'
BY Apart DEF Work, Duty, Held, Pays

\* What the steps of a server rest on.
LEMMA ServerTypes ==
  ASSUME IInv, NEW s \in Servers
  PROVE  /\ NetTypeOK /\ s \in Procs /\ s # broker
         /\ serverPc = [t \in Servers |-> serverPc[t]]
         /\ results = [t \in Servers |-> results[t]]
         /\ results[s] \in Seq(SoundRequest)
BY Apart DEF IInv, NetInv, ServerInv, ServerTypeOK

LEMMA ServerExitBudget ==
  ASSUME IInv, NEW b \in Procs, Paid(b), NEW s \in Servers, ServerExit(s),
         UNCHANGED <<brokerVars, clientVars>>,
         \/ netError(s)
         \/ /\ serverPc[s] = "register" \/ results[s] # <<>>
            /\ netErrorMidSend(s, broker)
  PROVE  Paid(b)'
<1>1. /\ serverPc'[s] = "down" /\ results'[s] = <<>>
      /\ \A t \in Servers \ {s} :
           serverPc'[t] = serverPc[t] /\ results'[t] = results[t]
  BY ServerTypes DEF ServerExit
<1>2. Work(b, s)' = {} /\ Duty(b, s)' = {}
  BY <1>1, Apart DEF Work, Duty
<1>3. \A r \in Procs \ {s} : Kept(b, r)
  BY <1>1, OnlyServer
<1>4. CASE netError(s)
  BY <1>2, <1>3, <1>4, ServerTypes, EndBudget
<1>5. CASE /\ serverPc[s] = "register" \/ results[s] # <<>>
           /\ netErrorMidSend(s, broker)
  <2>1. broker \in Procs \ {s}
    BY Apart
  <2>2. ASSUME Counts(b, broker, Eof)
        PROVE  \E k \in {"queue", "work", "duty"} : \E o : o \in Held(b, <<k, s>>)
    <3>1. b = broker /\ b \notin Clients
      BY <2>2, Apart DEF Counts, Eof
    <3>2. CASE serverPc[s] = "register"
      <4>1. 0 \in Held(b, <<"duty", s>>)
        BY <3>1, <3>2, ServerHolds
      <4> QED
        BY <4>1
    <3>3. CASE results[s] # <<>>
      <4>1. 1 \in 1..Len(results[s])
        <5>1. results[s] \in Seq(SoundRequest)
          BY ServerTypes
        <5>2. Len(results[s]) \in Nat /\ Len(results[s]) # 0
          BY <3>3, <5>1
        <5> QED
          BY <5>2
      <4>2. 1 \in Held(b, <<"work", s>>)
        <5>1. 1 \in Nat /\ b \notin Clients
          BY <3>1
        <5>2. 1 \in Work(b, s)
          BY <4>1, <5>1, ServerHolds
        <5> QED
          BY <5>2, ServerHolds
      <4> QED
        BY <4>2
    <3> QED
      BY <1>5, <3>2, <3>3
  <2> QED
    BY <1>2, <1>3, <1>5, <2>1, <2>2, ServerTypes, EndBudget
<1> QED
  BY <1>4, <1>5

LEMMA ServerStartBudget ==
  ASSUME IInv, NEW b \in Procs, Paid(b), NEW s \in Servers, ServerStart(s),
         UNCHANGED <<brokerVars, clientVars>>
  PROVE  Paid(b)'
<1>1. /\ \A t \in Servers \ {s} :
           serverPc'[t] = serverPc[t] /\ results'[t] = results[t]
      /\ results'[s] = results[s] /\ backlog' = backlog
      /\ runs' = [runs EXCEPT ![s] = @ + 1]
  BY ServerTypes DEF ServerStart, Launch
<1>2. \A r \in Procs \ {s} : Kept(b, r)
  BY <1>1, OnlyServer
<1>3. ASSUME NEW z \in Slots, z # <<"duty", s>>
      PROVE  Held(b, z)' \subseteq Held(b, z)
  <2>1. PICK j \in {"queue", "work", "duty"}, r \in Procs : z = <<j, r>>
    BY DEF Slots
  <2>2. Queued(b, r)' = Queued(b, r)
    BY <1>1, QueuedSame
  <2>3. CASE r = s
    <3>1. Work(b, s)' = Work(b, s)
      BY <1>1, WorkSame, Apart
    <3> QED
      BY <1>3, <2>1, <2>2, <2>3, <3>1 DEF Held
  <2>4. CASE r # s
    BY <1>2, <2>1, <2>2, <2>4 DEF Held, Kept
  <2> QED
    BY <2>3, <2>4
<1>4. \A z \in Slots : z # <<"duty", s>> => Into(Held(b, z)', Held(b, z))
  BY <1>3, IntoSubset
<1> QED
  BY <1>1, <1>4, BudgetStart

LEMMA ServerRegisterBudget ==
  ASSUME IInv, NEW b \in Procs, Paid(b), NEW s \in Servers, ServerRegister(s),
         UNCHANGED <<brokerVars, clientVars>>
  PROVE  Paid(b)'
<1>1. CASE netError(s) /\ ServerExit(s)
  BY <1>1, ServerExitBudget
<1>2. CASE /\ send_req(s, backlog[s], broker, RegistrationOf(s))
           /\ serverPc' = [serverPc EXCEPT ![s] = "bind"]
           /\ UNCHANGED results
  <2>1. serverPc[s] = "register"
    BY DEF ServerRegister
  <2>2. /\ \A t \in Servers \ {s} :
             serverPc'[t] = serverPc[t] /\ results'[t] = results[t]
        /\ serverPc'[s] = "bind" /\ results'[s] = results[s]
    BY <1>2, ServerTypes
  <2>3. \A r \in Procs \ {s} : Kept(b, r)
    BY <2>2, OnlyServer
  <2>4. PICK k \in {"queue", "work", "duty"}, o \in {0} : k = "duty" /\ o = 0
    OBVIOUS
  <2>5. PICK m : m = RegistrationOf(s)
    OBVIOUS
  <2>6. Counts(b, broker, m) => o \in Held(b, <<k, s>>)
    <3> SUFFICES ASSUME Counts(b, broker, m)
                 PROVE  0 \in Duty(b, s)
      BY <2>4, ServerHolds
    <3>1. b = broker \/ b = s
      BY <2>5, Apart DEF Counts, RegistrationOf
    <3> QED
      BY <2>1, <3>1, ServerHolds
  <2>7. backlog'[s] = backlog[s]
    BY <1>2, ServerTypes, Apart, SendEffect
  <2>8. /\ Queued(b, s)' \subseteq Less(Queued(b, s), k, "queue", o)
        /\ Work(b, s)' \subseteq Less(Work(b, s), k, "work", o)
        /\ Duty(b, s)' \subseteq Less(Duty(b, s), k, "duty", o)
    <3>1. Queued(b, s)' = Queued(b, s) /\ Work(b, s)' = Work(b, s)
      BY <2>2, <2>7, QueuedSame, WorkSame, Apart
    <3>2. Duty(b, s)' = {}
      BY <2>2, ServerHoldsNext
    <3> QED
      BY <2>4, <3>1, <3>2 DEF Less
  <2>9. /\ Into(Queued(b, s)', Less(Queued(b, s), k, "queue", o))
        /\ Into(Work(b, s)', Less(Work(b, s), k, "work", o))
        /\ Into(Duty(b, s)', Less(Duty(b, s), k, "duty", o))
    BY <2>8, IntoSubset
  <2>10. s \in Procs /\ broker \in Procs /\ s # broker
    BY Apart
  <2> QED
    BY <1>2, <2>3, <2>5, <2>6, <2>9, <2>10, SendBudget
<1> QED
  BY <1>1, <1>2 DEF ServerRegister

\* A server does something and nothing becomes more.
LEMMA ServerQuietBudget ==
  ASSUME IInv, NEW b \in Procs, Paid(b), NEW s \in Servers,
         UNCHANGED <<brokerVars, clientVars, runs, results>>,
         \A t \in Servers \ {s} : serverPc'[t] = serverPc[t],
         serverPc'[s] = "register" => serverPc[s] = "register",
         \A r \in Procs : Into(Queued(b, r)', Queued(b, r))
  PROVE  Paid(b)'
<1>1. \A r \in Procs \ {s} : Kept(b, r)
  BY OnlyServer
<1>2. Work(b, s)' \subseteq Work(b, s)
  BY WorkSame, Apart
<1>3. Duty(b, s)' \subseteq Duty(b, s)
  BY Apart DEF Duty, Pays
<1>4. \A r \in Procs : /\ Work(b, r)' \subseteq Work(b, r)
                       /\ Duty(b, r)' \subseteq Duty(b, r)
  BY <1>1, <1>2, <1>3 DEF Kept
<1>5. \A r \in Procs : /\ Into(Queued(b, r)', Queued(b, r))
                       /\ Into(Work(b, r)', Work(b, r))
                       /\ Into(Duty(b, r)', Duty(b, r))
  BY <1>4, IntoSubset
<1>6. \A r \in Servers \cup Clients : runs'[r] = runs[r]
  OBVIOUS
<1> QED
  BY <1>5, <1>6, BudgetStays

LEMMA DiscardQueues ==
  ASSUME IInv, NEW b, NEW s \in Servers, NEW i \in 1..Len(backlog[s]),
         Discard(s, i)
  PROVE  /\ Into(Queued(b, s)', Queued(b, s) \ {i})
         /\ \A r \in Procs : Into(Queued(b, r)', Queued(b, r))
         /\ runs' = runs
<1>1. /\ backlog'[s] = Without(backlog[s], i) /\ runs' = runs
      /\ \A r \in Procs \ {s} : backlog'[r] = backlog[r]
  BY ServerTypes DEF Discard, Accepted, NetTypeOK
<1>2. Into(Queued(b, s)', Queued(b, s) \ {i}) /\ Into(Queued(b, s)', Queued(b, s))
  BY <1>1, ServerTypes, QueuedTaken
<1>3. \A r \in Procs \ {s} : Queued(b, r)' \subseteq Queued(b, r)
  BY <1>1, QueuedSame
<1>4. \A r \in Procs \ {s} : Into(Queued(b, r)', Queued(b, r))
  BY <1>3, IntoSubset
<1> QED
  BY <1>1, <1>2, <1>4

LEMMA ExecuteBudget ==
  ASSUME IInv, NEW b \in Procs, Paid(b), NEW s \in Servers,
         NEW i \in 1..Len(backlog[s]), Execute(s, i),
         UNCHANGED <<brokerVars, clientVars>>
  PROVE  Paid(b)'
<1> DEFINE m == backlog[s][i]
<1>1. /\ Discard(s, i) /\ m.type = "SERVICE_REQUEST" /\ serverPc' = serverPc
      /\ serverPc[s] = "serve"
      /\ results' = [results EXCEPT ![s] = Append(@, m)]
  BY DEF Execute, Serving
<1>2. /\ Into(Queued(b, s)', Queued(b, s) \ {i})
      /\ \A r \in Procs : Into(Queued(b, r)', Queued(b, r))
      /\ \A r \in Servers \cup Clients : runs'[r] = runs[r]
  BY <1>1, DiscardQueues
<1>3. \A t \in Servers \ {s} : serverPc'[t] = serverPc[t] /\ results'[t] = results[t]
  BY <1>1, ServerTypes
<1>4. \A r \in Procs \ {s} : Kept(b, r)
  BY <1>3, OnlyServer
<1>5. PICK k \in {"queue", "work", "duty"}, o \in {i} : k = "queue" /\ o = i
  OBVIOUS
<1>6. PICK l \in {"queue", "work", "duty"}, n \in {Len(results[s]) + 1} :
      l = "work" /\ n = Len(results[s]) + 1
  OBVIOUS
<1>7. n \in Held(b, <<l, s>>)' => o \in Held(b, <<k, s>>)
  <2> SUFFICES ASSUME n \in Work(b, s)'
               PROVE  i \in Queued(b, s)
    BY <1>5, <1>6, ServerHolds, ServerHoldsNext
  <2>1. b \notin Clients
    BY ServerHoldsNext
  <2>2. Counts(b, s, m)
    BY <1>1, <2>1 DEF Counts, Procs
  <2> QED
    BY <2>2 DEF Queued
<1>8. Work(b, s)' \ {n} \subseteq Work(b, s)
  <2>1. PICK z \in Nat : z = Len(results[s])
    BY ServerTypes
  <2>2. Len(results'[s]) = z + 1
    BY <1>1, <2>1, ServerTypes
  <2>3. ASSUME NEW j \in Nat, j \in Work(b, s)', j # n
        PROVE  j \in Work(b, s)
    <3>1. b \notin Clients /\ j \in 1..Len(results'[s])
      BY <2>3, ServerHoldsNext
    <3>2. j \in 1..Len(results[s])
      BY <1>6, <2>1, <2>2, <2>3, <3>1
    <3> QED
      BY <3>1, <3>2, ServerHolds
  <2> QED
    BY <2>3, ServerHoldsNext
<1>9. ASSUME NEW r \in Procs
      PROVE  /\ Into(Queued(b, r)', Less(Queued(b, r), <<k, s>>, <<"queue", r>>, o))
             /\ Into(Less(Work(b, r)', r, s, n), Work(b, r))
             /\ Into(Duty(b, r)', Duty(b, r))
  <2>1. Duty(b, r)' \subseteq Duty(b, r)
    <3>1. Duty(b, s)' = Duty(b, s)
      BY <1>1, DutySame, Apart
    <3> QED
      BY <1>4, <3>1 DEF Kept
  <2>2. Less(Work(b, r)', r, s, n) \subseteq Work(b, r)
    BY <1>4, <1>8 DEF Less, Kept
  <2>3. Into(Queued(b, r)', Less(Queued(b, r), <<k, s>>, <<"queue", r>>, o))
    BY <1>2, <1>5 DEF Less
  <2> QED
    BY <2>1, <2>2, <2>3, IntoSubset
<1>10. Passed(b, k, s, o, l, s, n)
  BY <1>5, <1>6, <1>7, <1>9 DEF Passed, Less
<1> QED
  BY <1>2, <1>10, Apart, BudgetStep

LEMMA SendResultBudget ==
  ASSUME IInv, NEW b \in Procs, Paid(b), NEW s \in Servers,
         NEW j \in 1..Len(results[s]), SendResult(s, j),
         UNCHANGED <<brokerVars, clientVars>>
  PROVE  Paid(b)'
<1>1. CASE netError(s) /\ ServerExit(s)
  BY <1>1, ServerExitBudget
<1>2. CASE /\ send_req(s, backlog[s], broker,
                       pack_client_response_data(results[s][j]))
           /\ results' = [results EXCEPT ![s] = Without(@, j)]
           /\ UNCHANGED serverPc
  <2>1. results'[s] = Without(results[s], j)
    BY <1>2, ServerTypes
  <2>2. \A t \in Servers \ {s} :
          serverPc'[t] = serverPc[t] /\ results'[t] = results[t]
    BY <1>2, ServerTypes
  <2>3. \A r \in Procs \ {s} : Kept(b, r)
    BY <2>2, OnlyServer
  <2>4. PICK k \in {"queue", "work", "duty"}, o \in {j} : k = "work" /\ o = j
    OBVIOUS
  <2>5. PICK m : m = pack_client_response_data(results[s][j])
    OBVIOUS
  <2>6. Counts(b, broker, m) => o \in Held(b, <<k, s>>)
    <3> SUFFICES ASSUME Counts(b, broker, m)
                 PROVE  j \in Work(b, s)
      BY <2>4, ServerHolds
    <3>1. b = broker \/ b \in Servers
      BY <2>5, Apart DEF Counts, pack_client_response_data
    <3>2. b \notin Clients /\ j \in Nat
      BY <3>1, Apart
    <3> QED
      BY <3>2, ServerHolds
  <2>7. Queued(b, s)' = Queued(b, s)
    <3>1. backlog'[s] = backlog[s]
      BY <1>2, ServerTypes, Apart, SendEffect
    <3> QED
      BY <3>1, QueuedSame
  <2>8. Duty(b, s)' = Duty(b, s)
    BY <1>2, DutySame, Apart
  <2>9. Into(Work(b, s)', Work(b, s) \ {j})
    <3>1. results[s] \in Seq(SoundRequest)
      BY ServerTypes
    <3>2. PICK n \in Nat : n = Len(results[s])
      BY <3>1
    <3>3. Len(results'[s]) = n - 1
      BY <2>1, <3>1, <3>2, WithoutProperties
    <3>4. PICK W : W = Work(b, s)'
      OBVIOUS
    <3>5. ASSUME NEW i \in W
          PROVE  b \notin Clients /\ i \in 1..(n - 1)
      <4>1. i \in Nat /\ i \in Work(b, s)'
        BY <3>4, ServerHoldsNext
      <4>2. b \notin Clients /\ i \in 1..Len(results'[s])
        BY <4>1, ServerHoldsNext
      <4> QED
        BY <3>3, <4>2
    <3>6. ASSUME NEW i \in W
          PROVE  (IF i < j THEN i ELSE i + 1) \in Work(b, s)
      <4>1. /\ b \notin Clients
            /\ (IF i < j THEN i ELSE i + 1) \in 1..Len(results[s])
        BY <3>2, <3>5
      <4>2. (IF i < j THEN i ELSE i + 1) \in Nat
        BY <4>1
      <4> QED
        BY <4>1, <4>2, ServerHolds
    <3>7. W \subseteq 1..(n - 1) /\ j \in 1..n
      BY <3>2, <3>5
    <3> QED
      BY <3>4, <3>6, <3>7, GapInto
  <2>10. /\ Queued(b, s)' \subseteq Less(Queued(b, s), k, "queue", o)
         /\ Duty(b, s)' \subseteq Less(Duty(b, s), k, "duty", o)
    BY <2>4, <2>7, <2>8 DEF Less
  <2>11. /\ Into(Queued(b, s)', Less(Queued(b, s), k, "queue", o))
         /\ Into(Work(b, s)', Less(Work(b, s), k, "work", o))
         /\ Into(Duty(b, s)', Less(Duty(b, s), k, "duty", o))
    BY <2>4, <2>9, <2>10, IntoSubset DEF Less
  <2>12. s \in Procs /\ broker \in Procs /\ s # broker
    BY Apart
  <2> QED
    BY <1>2, <2>3, <2>5, <2>6, <2>11, <2>12, SendBudget
<1> QED
  BY <1>1, <1>2 DEF SendResult

LEMMA ServerBudget ==
  ASSUME IInv, NEW b \in Procs, Paid(b), NEW s \in Servers, ServerStep(s)
  PROVE  Paid(b)'
<1>0. UNCHANGED <<brokerVars, clientVars>>
  BY DEF ServerStep
<1>1. CASE ServerStart(s)
  BY <1>0, <1>1, ServerStartBudget
<1>2. CASE ServerRegister(s)
  BY <1>0, <1>2, ServerRegisterBudget
<1>3. CASE ServerBind(s)
  <2>1. /\ \A t \in Servers \ {s} : serverPc'[t] = serverPc[t]
        /\ serverPc'[s] = "serve" /\ UNCHANGED <<backlog, runs, results>>
    BY <1>3, ServerTypes DEF ServerBind
  <2>2. \A r \in Procs : Queued(b, r)' \subseteq Queued(b, r)
    BY <2>1, QueuedSame
  <2>3. \A r \in Procs : Into(Queued(b, r)', Queued(b, r))
    BY <2>2, IntoSubset
  <2> QED
    BY <1>0, <2>1, <2>3, ServerQuietBudget
<1>4. ASSUME NEW i \in 1..Len(backlog[s]), ReceiveAck(s, i) \/ DropUnregistered(s, i)
      PROVE  Paid(b)'
  <2>1. Discard(s, i) /\ UNCHANGED <<serverPc, results>>
    BY <1>4 DEF ReceiveAck, DropUnregistered, serverVars
  <2>2. runs' = runs /\ \A r \in Procs : Into(Queued(b, r)', Queued(b, r))
    BY <2>1, DiscardQueues
  <2> QED
    BY <1>0, <2>1, <2>2, ServerQuietBudget
<1>5. ASSUME NEW i \in 1..Len(backlog[s]), Execute(s, i)
      PROVE  Paid(b)'
  BY <1>0, <1>5, ExecuteBudget
<1>6. ASSUME NEW j \in 1..Len(results[s]), SendResult(s, j)
      PROVE  Paid(b)'
  BY <1>0, <1>6, SendResultBudget
<1>7. CASE ServerStops(s)
  BY <1>0, <1>7, ServerExitBudget DEF ServerStops
<1> QED
  BY <1>1, <1>2, <1>3, <1>4, <1>5, <1>6, <1>7
  DEF ServerStep, ServerNext, ServerMain, ServerThread, ServerTruncated,
      ServerTimeout, ServerKilled

-----------------------------------------------------------------------------
(* Number: the clients.                                                    *)

LEMMA OnlyClient ==
  ASSUME NEW b, NEW c \in Clients, UNCHANGED <<brokerVars, serverVars>>,
         \A d \in Clients \ {c} : clientPc'[d] = clientPc[d] /\ unsent'[d] = unsent[d]
  PROVE  \A r \in Procs \ {c} : Kept(b, r)
<1> SUFFICES ASSUME NEW r \in Procs \ {c}
             PROVE  Work(b, r)' = Work(b, r) /\ Duty(b, r)' = Duty(b, r)
  BY DEF Kept
<1> QED
  BY WorkSame, DutySame DEF brokerVars, serverVars

LEMMA ClientHolds ==
  ASSUME NEW b, NEW c \in Clients
  PROVE  /\ \A j \in Nat : j \in Work(b, c) <=> Pays(c, b) /\ j \in unsent[c]
         /\ Work(b, c) \subseteq Nat /\ Duty(b, c) \subseteq {0}
         /\ 0 \in Duty(b, c) <=> Pays(c, b) /\ clientPc[c] = "idle"
         /\ Held(b, <<"work", c>>) = Work(b, c)
         /\ Held(b, <<"duty", c>>) = Duty(b, c)
         /\ Held(b, <<"queue", c>>) = Queued(b, c)
BY Apart DEF Work, Duty, Held

LEMMA ClientHoldsNext ==
  ASSUME NEW b, NEW c \in Clients
  PROVE  /\ \A j \in Nat : j \in Work(b, c)' <=> Pays(c, b) /\ j \in unsent'[c]
         /\ Work(b, c)' \subseteq Nat /\ Duty(b, c)' \subseteq {0}
         /\ 0 \in Duty(b, c)' <=> Pays(c, b) /\ clientPc'[c] = "idle"
         /\ Held(b, <<"work", c>>)' = Work(b, c)'
         /\ Held(b, <<"duty", c>>)' = Duty(b, c)'
BY Apart DEF Work, Duty, Held, Pays

\* What the steps of a client rest on.
LEMMA ClientTypes ==
  ASSUME IInv, NEW c \in Clients
  PROVE  /\ NetTypeOK /\ c \in Procs /\ c # broker
         /\ clientPc = [d \in Clients |-> clientPc[d]]
         /\ callNo = [d \in Clients |-> callNo[d]]
         /\ unsent = [d \in Clients |-> unsent[d]]
         /\ unsent[c] \subseteq Nat /\ callNo[c] \in Nat
<1>1. NetTypeOK /\ ClientTypeOK
  BY DEF IInv, NetInv, ClientInv
<1>2. unsent[c] \subseteq 1..MaxCalls /\ callNo[c] \in 0..MaxCalls
  BY <1>1 DEF ClientTypeOK
<1>3. unsent[c] \subseteq Nat /\ callNo[c] \in Nat
  BY <1>2, ProtocolAssumption
<1> QED
  BY <1>1, <1>3, Apart DEF ClientTypeOK

LEMMA ClientExitBudget ==
  ASSUME IInv, NEW b \in Procs, Paid(b), NEW c \in Clients, ClientExit(c),
         UNCHANGED <<brokerVars, serverVars>>,
         \/ netError(c)
         \/ unsent[c] # {} /\ netErrorMidSend(c, broker)
  PROVE  Paid(b)'
<1>1. /\ clientPc'[c] = "down" /\ unsent'[c] = {}
      /\ \A d \in Clients \ {c} :
           clientPc'[d] = clientPc[d] /\ unsent'[d] = unsent[d]
  BY ClientTypes DEF ClientExit
<1>2. Work(b, c)' = {} /\ Duty(b, c)' = {}
  BY <1>1, Apart DEF Work, Duty
<1>3. \A r \in Procs \ {c} : Kept(b, r)
  BY <1>1, OnlyClient
<1>4. CASE netError(c)
  BY <1>2, <1>3, <1>4, ClientTypes, EndBudget
<1>5. CASE unsent[c] # {} /\ netErrorMidSend(c, broker)
  <2>1. broker \in Procs \ {c}
    BY Apart
  <2>2. ASSUME Counts(b, broker, Eof)
        PROVE  \E k \in {"queue", "work", "duty"} : \E o : o \in Held(b, <<k, c>>)
    <3>1. Pays(c, b)
      BY <2>2, Apart DEF Counts, Eof, Pays
    <3>2. PICK j \in unsent[c] : j \in Nat
      BY <1>5, ClientTypes
    <3>3. j \in Held(b, <<"work", c>>)
      <4>1. j \in Work(b, c)
        BY <3>1, <3>2, ClientHolds
      <4> QED
        BY <4>1, ClientHolds
    <3> QED
      BY <3>3
  <2> QED
    BY <1>2, <1>3, <1>5, <2>1, <2>2, ClientTypes, EndBudget
<1> QED
  BY <1>4, <1>5

LEMMA ClientStartBudget ==
  ASSUME IInv, NEW b \in Procs, Paid(b), NEW c \in Clients, ClientStart(c),
         UNCHANGED <<brokerVars, serverVars>>
  PROVE  Paid(b)'
<1>1. /\ \A d \in Clients \ {c} :
           clientPc'[d] = clientPc[d] /\ unsent'[d] = unsent[d]
      /\ unsent'[c] = {} /\ backlog' = backlog
      /\ runs' = [runs EXCEPT ![c] = @ + 1]
  BY ClientTypes DEF ClientStart, Launch
<1>2. \A r \in Procs \ {c} : Kept(b, r)
  BY <1>1, OnlyClient
<1>3. ASSUME NEW z \in Slots, z # <<"duty", c>>
      PROVE  Held(b, z)' \subseteq Held(b, z)
  <2>1. PICK j \in {"queue", "work", "duty"}, r \in Procs : z = <<j, r>>
    BY DEF Slots
  <2>2. Queued(b, r)' = Queued(b, r)
    BY <1>1, QueuedSame
  <2>3. CASE r = c
    <3>1. Work(b, c)' = {}
      BY <1>1, Apart DEF Work
    <3> QED
      BY <1>3, <2>1, <2>2, <2>3, <3>1 DEF Held
  <2>4. CASE r # c
    BY <1>2, <2>1, <2>2, <2>4 DEF Held, Kept
  <2> QED
    BY <2>3, <2>4
<1>4. \A z \in Slots : z # <<"duty", c>> => Into(Held(b, z)', Held(b, z))
  BY <1>3, IntoSubset
<1> QED
  BY <1>1, <1>4, BudgetStart

LEMMA CallStubBudget ==
  ASSUME IInv, NEW b \in Procs, Paid(b), NEW c \in Clients, CallStub(c),
         UNCHANGED <<brokerVars, serverVars>>
  PROVE  Paid(b)'
<1>1. /\ \A d \in Clients \ {c} :
           clientPc'[d] = clientPc[d] /\ unsent'[d] = unsent[d]
      /\ clientPc[c] = "idle" /\ clientPc'[c] = "bind"
      /\ unsent'[c] = unsent[c] \cup {callNo[c] + 1}
      /\ backlog' = backlog /\ \A r \in Servers \cup Clients : runs'[r] = runs[r]
  BY ClientTypes DEF CallStub, netVars
<1>2. \A r \in Procs \ {c} : Kept(b, r)
  BY <1>1, OnlyClient
<1>3. PICK k \in {"queue", "work", "duty"}, o \in {0} : k = "duty" /\ o = 0
  OBVIOUS
<1>4. PICK l \in {"queue", "work", "duty"}, n \in {callNo[c] + 1} :
      l = "work" /\ n = callNo[c] + 1
  OBVIOUS
<1>5. n \in Held(b, <<l, c>>)' => o \in Held(b, <<k, c>>)
  <2> SUFFICES ASSUME n \in Work(b, c)'
               PROVE  0 \in Duty(b, c)
    BY <1>3, <1>4, ClientHolds, ClientHoldsNext
  <2>1. Pays(c, b)
    BY ClientHoldsNext
  <2> QED
    BY <1>1, <2>1, ClientHolds
<1>6. Work(b, c)' \ {n} \subseteq Work(b, c) /\ Duty(b, c)' = {}
  <2>1. ASSUME NEW j \in Nat, j \in Work(b, c)', j # n
        PROVE  j \in Work(b, c)
    <3>1. Pays(c, b) /\ j \in unsent'[c]
      BY <2>1, ClientHoldsNext
    <3>2. j \in unsent[c]
      BY <1>1, <1>4, <2>1, <3>1
    <3> QED
      BY <3>1, <3>2, ClientHolds
  <2>2. Work(b, c)' \subseteq Nat /\ Duty(b, c)' = {}
    BY <1>1, ClientHoldsNext
  <2> QED
    BY <2>1, <2>2
<1>7. ASSUME NEW r \in Procs
      PROVE  /\ Into(Queued(b, r)', Queued(b, r))
             /\ Into(Less(Work(b, r)', r, c, n), Work(b, r))
             /\ Into(Duty(b, r)', Less(Duty(b, r), r, c, o))
  <2>1. Queued(b, r)' \subseteq Queued(b, r)
    BY <1>1, QueuedSame
  <2>2. /\ Less(Work(b, r)', r, c, n) \subseteq Work(b, r)
        /\ Duty(b, r)' \subseteq Less(Duty(b, r), r, c, o)
    BY <1>2, <1>6 DEF Less, Kept
  <2> QED
    BY <2>1, <2>2, IntoSubset
<1>8. Passed(b, k, c, o, l, c, n)
  BY <1>3, <1>4, <1>5, <1>7 DEF Passed, Less
<1> QED
  BY <1>1, <1>8, Apart, BudgetStep

\* The sending thread of call k sends what has come to be its request.
LEMMA SenderBudget ==
  ASSUME IInv, NEW b \in Procs, Paid(b), NEW c \in Clients, NEW j \in unsent[c],
         NEW m, m.type = "SERVICE_REQUEST" => m.sender = c,
         m.type # "SERVICE_REGISTRATION",
         send_req(c, backlog[c], broker, m),
         unsent' = [unsent EXCEPT ![c] = @ \ {j}], UNCHANGED clientPc,
         UNCHANGED <<brokerVars, serverVars>>
  PROVE  Paid(b)'
<1>1. /\ \A d \in Clients \ {c} :
           clientPc'[d] = clientPc[d] /\ unsent'[d] = unsent[d]
      /\ unsent'[c] = unsent[c] \ {j} /\ clientPc'[c] = clientPc[c]
  BY ClientTypes
<1>2. \A r \in Procs \ {c} : Kept(b, r)
  BY <1>1, OnlyClient
<1>3. PICK k \in {"queue", "work", "duty"}, o \in {j} : k = "work" /\ o = j
  OBVIOUS
<1>4. Counts(b, broker, m) => o \in Held(b, <<k, c>>)
  <2> SUFFICES ASSUME Counts(b, broker, m)
               PROVE  j \in Work(b, c)
    BY <1>3, ClientHolds
  <2>1. Pays(c, b)
    BY Apart DEF Counts, Pays
  <2>2. j \in Nat
    BY ClientTypes
  <2> QED
    BY <2>1, <2>2, ClientHolds
<1>5. backlog'[c] = backlog[c]
  BY ClientTypes, Apart, SendEffect
<1>6. /\ Queued(b, c)' \subseteq Less(Queued(b, c), k, "queue", o)
      /\ Work(b, c)' \subseteq Less(Work(b, c), k, "work", o)
      /\ Duty(b, c)' \subseteq Less(Duty(b, c), k, "duty", o)
  <2>1. Queued(b, c)' = Queued(b, c)
    BY <1>5, QueuedSame
  <2>2. Work(b, c)' \subseteq Work(b, c) \ {j}
    <3>1. ASSUME NEW i \in Nat, i \in Work(b, c)'
          PROVE  i \in Work(b, c) /\ i # j
      <4>1. Pays(c, b) /\ i \in unsent'[c]
        BY <3>1, ClientHoldsNext
      <4> QED
        BY <1>1, <4>1, ClientHolds
    <3>2. Work(b, c)' \subseteq Nat
      BY ClientHoldsNext
    <3> QED
      BY <3>1, <3>2
  <2>3. Duty(b, c)' = Duty(b, c)
    BY <1>1, DutySame, Apart
  <2> QED
    BY <1>3, <2>1, <2>2, <2>3 DEF Less
<1>7. /\ Into(Queued(b, c)', Less(Queued(b, c), k, "queue", o))
      /\ Into(Work(b, c)', Less(Work(b, c), k, "work", o))
      /\ Into(Duty(b, c)', Less(Duty(b, c), k, "duty", o))
  BY <1>6, IntoSubset
<1>8. c \in Procs /\ broker \in Procs /\ c # broker
  BY Apart
<1> QED
  BY <1>2, <1>4, <1>7, <1>8, SendBudget

\* A step that changes nothing in what is on its way, or in what leads to it.
LEMMA NothingPaid ==
  ASSUME IInv, NEW b \in Procs, Paid(b),
         UNCHANGED <<netVars, brokerVars, serverVars, clientPc, unsent>>
  PROVE  Paid(b)'
<1>1. \A r \in Procs : /\ Queued(b, r)' \subseteq Queued(b, r)
                       /\ Work(b, r)' \subseteq Work(b, r)
                       /\ Duty(b, r)' \subseteq Duty(b, r)
  BY QueuedSame, WorkSame, DutySame DEF netVars, brokerVars, serverVars
<1>2. \A r \in Procs : /\ Into(Queued(b, r)', Queued(b, r))
                       /\ Into(Work(b, r)', Work(b, r))
                       /\ Into(Duty(b, r)', Duty(b, r))
  BY <1>1, IntoSubset
<1>3. \A r \in Servers \cup Clients : runs'[r] = runs[r]
  BY DEF netVars
<1> QED
  BY <1>2, <1>3, BudgetStays

LEMMA ClientSenderBudget ==
  ASSUME IInv, NEW b \in Procs, Paid(b), NEW c \in Clients, ClientSender(c),
         UNCHANGED <<brokerVars, serverVars>>
  PROVE  Paid(b)'
<1>1. CASE netError(c) /\ ClientExit(c)
  BY <1>1, ClientExitBudget
<1>2. ASSUME NEW k \in unsent[c], NEW m, m \in {Garbage} \/ \E n : m = pack_client_request_data(CallOf(c, n)),
             send_req(c, backlog[c], broker, m),
             HasSent(c, k)
      PROVE  Paid(b)'
  <2>1. /\ m.type = "SERVICE_REQUEST" => m.sender = c
        /\ m.type # "SERVICE_REGISTRATION"
    BY <1>2 DEF Garbage, pack_client_request_data, CallOf
  <2> QED
    BY <1>2, <2>1, SenderBudget DEF HasSent
<1>3. ASSUME NEW k \in sent[c], ThreadReturns(c, k)
      PROVE  Paid(b)'
  BY <1>3, NothingPaid DEF ThreadReturns
<1> QED
  BY <1>1, <1>2, <1>3 DEF ClientSender, SendRequest, SendDangling

LEMMA ReceiveResponseBudget ==
  ASSUME IInv, NEW b \in Procs, Paid(b), NEW c \in Clients, ReceiveResponse(c),
         UNCHANGED <<brokerVars, serverVars>>
  PROVE  Paid(b)'
<1>1. /\ \A d \in Clients \ {c} :
           clientPc'[d] = clientPc[d] /\ unsent'[d] = unsent[d]
      /\ unsent'[c] = unsent[c] /\ clientPc[c] = "wait"
      /\ backlog'[c] = <<>> /\ \A r \in Procs \ {c} : backlog'[r] = backlog[r]
      /\ \A r \in Servers \cup Clients : runs'[r] = runs[r]
  BY ClientTypes DEF ReceiveResponse, NetTypeOK
<1>2. \A r \in Procs \ {c} : Kept(b, r)
  BY <1>1, OnlyClient
<1>3. PICK k \in {"queue", "work", "duty"}, o \in {1} : k = "queue" /\ o = 1
  OBVIOUS
<1>4. PICK l \in {"queue", "work", "duty"}, n \in {0} : l = "duty" /\ n = 0
  OBVIOUS
<1>5. n \in Held(b, <<l, c>>)' => o \in Held(b, <<k, c>>)
  <2> SUFFICES ASSUME 0 \in Duty(b, c)'
               PROVE  1 \in Queued(b, c)
    BY <1>3, <1>4, ClientHolds, ClientHoldsNext
  <2>1. Pays(c, b)
    BY ClientHoldsNext
  <2>2. backlog[c] \in Seq(Message) /\ backlog[c] # <<>>
    BY ClientTypes DEF ReceiveResponse, NetTypeOK
  <2>3. 1 \in 1..Len(backlog[c])
    BY <2>2
  <2>4. Counts(b, c, backlog[c][1])
    BY <2>1, Apart DEF Counts, Pays
  <2> QED
    BY <2>3, <2>4 DEF Queued
<1>6. /\ Queued(b, c)' = {} /\ Work(b, c)' = Work(b, c)
      /\ Duty(b, c)' \ {n} = {}
  <2>1. Queued(b, c)' = {}
    BY <1>1, QueuedGone
  <2>2. Work(b, c)' = Work(b, c)
    BY <1>1, WorkSame, Apart
  <2>3. Duty(b, c)' \subseteq {0}
    BY ClientHoldsNext
  <2> QED
    BY <1>4, <2>1, <2>2, <2>3
<1>7. ASSUME NEW r \in Procs
      PROVE  /\ Into(Queued(b, r)', Less(Queued(b, r), r, c, o))
             /\ Into(Work(b, r)', Work(b, r))
             /\ Into(Less(Duty(b, r)', r, c, n), Duty(b, r))
  <2>1. /\ Queued(b, r)' \subseteq Less(Queued(b, r), r, c, o)
        /\ Work(b, r)' \subseteq Work(b, r)
        /\ Less(Duty(b, r)', r, c, n) \subseteq Duty(b, r)
    <3>1. CASE r = c
      BY <1>6, <3>1 DEF Less
    <3>2. CASE r # c
      BY <1>1, <1>2, <3>2, QueuedSame DEF Less, Kept
    <3> QED
      BY <3>1, <3>2
  <2> QED
    BY <2>1, IntoSubset
<1>8. Passed(b, k, c, o, l, c, n)
  BY <1>3, <1>4, <1>5, <1>7 DEF Passed, Less
<1> QED
  BY <1>1, <1>8, Apart, BudgetStep

LEMMA ClientBudget ==
  ASSUME IInv, NEW b \in Procs, Paid(b), NEW c \in Clients, ClientStep(c)
  PROVE  Paid(b)'
<1>0. UNCHANGED <<brokerVars, serverVars>>
  BY DEF ClientStep
<1>1. CASE ClientStart(c)
  BY <1>0, <1>1, ClientStartBudget
<1>2. CASE CallStub(c)
  BY <1>0, <1>2, CallStubBudget
<1>3. CASE ClientSender(c)
  BY <1>0, <1>3, ClientSenderBudget
<1>4. CASE ClientBind(c)
  <2>1. /\ \A d \in Clients \ {c} :
             clientPc'[d] = clientPc[d] /\ unsent'[d] = unsent[d]
        /\ clientPc'[c] = "wait" /\ unsent' = unsent
        /\ backlog' = backlog /\ runs' = runs
    BY <1>4, ClientTypes DEF ClientBind
  <2>2. \A r \in Procs \ {c} : Kept(b, r)
    BY <1>0, <2>1, OnlyClient
  <2>3. Duty(b, c)' = {} /\ Work(b, c)' = Work(b, c)
    <3>1. Work(b, c)' = Work(b, c)
      BY <2>1, WorkSame, Apart
    <3>2. Duty(b, c)' = {}
      BY <2>1, Apart DEF Duty
    <3> QED
      BY <3>1, <3>2
  <2>4. \A r \in Procs : /\ Queued(b, r)' \subseteq Queued(b, r)
                         /\ Work(b, r)' \subseteq Work(b, r)
                         /\ Duty(b, r)' \subseteq Duty(b, r)
    BY <2>1, <2>2, <2>3, QueuedSame DEF Kept
  <2>5. \A r \in Procs : /\ Into(Queued(b, r)', Queued(b, r))
                         /\ Into(Work(b, r)', Work(b, r))
                         /\ Into(Duty(b, r)', Duty(b, r))
    BY <2>4, IntoSubset
  <2>6. \A r \in Servers \cup Clients : runs'[r] = runs[r]
    BY <2>1
  <2> QED
    BY <2>5, <2>6, BudgetStays
<1>5. CASE ReceiveResponse(c)
  BY <1>0, <1>5, ReceiveResponseBudget
<1>6. CASE ClientStops(c)
  BY <1>0, <1>6, ClientExitBudget DEF ClientStops
<1>7. CASE netError(c) /\ ClientExit(c)
  BY <1>0, <1>7, ClientExitBudget
<1> QED
  BY <1>1, <1>2, <1>3, <1>4, <1>5, <1>6, <1>7
  DEF ClientStep, ClientNext, ClientMain, ClientTruncated, ClientTimeout,
      ClientFinish, ClientKilled

-----------------------------------------------------------------------------
(* Number: the invariant holds.                                            *)

LEMMA BudgetInit == Init => BudgetInv
<1> SUFFICES ASSUME Init, NEW b \in Procs PROVE Paid(b)
  BY DEF BudgetInv
<1>1. /\ \A p \in Procs : backlog[p] = <<>>
      /\ clnt_req_repo = <<>>
      /\ \A s \in Servers : serverPc[s] = "down" /\ results[s] = <<>>
      /\ \A c \in Clients : clientPc[c] = "down" /\ unsent[c] = {}
  BY DEF Init, NetInit, BrokerInit, ServerInit, ClientInit
<1>2. ASSUME NEW x \in Slots
      PROVE  Held(b, x) = {}
  <2>1. PICK j \in {"queue", "work", "duty"}, p \in Procs : x = <<j, p>>
    BY DEF Slots
  <2>2. Queued(b, p) = {} /\ Work(b, p) = {} /\ Duty(b, p) = {}
    BY <1>1 DEF Queued, Work, Duty
  <2> QED
    BY <2>1, <2>2 DEF Held
<1>3. Tokens(b) = {}
  <2>1. PICK D : D = [x \in Slots |-> Held(b, x)]
    OBVIOUS
  <2>2. DOMAIN D = Slots /\ \A x \in Slots : D[x] = {}
    BY <1>2, <2>1
  <2>3. \A t : t \notin Sum(D)
    BY <2>2, SumMember
  <2> QED
    BY <2>1, <2>3 DEF Tokens
<1> QED
  BY <1>3, IntoSubset DEF Paid

LEMMA BudgetNext == IInv /\ BudgetInv /\ [Next]_vars => BudgetInv'
<1> SUFFICES ASSUME IInv, BudgetInv, [Next]_vars, NEW b \in Procs
             PROVE  Paid(b)'
  BY DEF BudgetInv, Procs
<1>0. Paid(b)
  BY DEF BudgetInv
<1>1. CASE BrokerStep
  BY <1>0, <1>1, BrokerBudget
<1>2. ASSUME NEW s \in Servers, ServerStep(s)
      PROVE  Paid(b)'
  BY <1>0, <1>2, ServerBudget
<1>3. ASSUME NEW c \in Clients, ClientStep(c)
      PROVE  Paid(b)'
  BY <1>0, <1>3, ClientBudget
<1>4. CASE UNCHANGED vars
  BY <1>0, <1>4, NothingPaid DEF vars, clientVars
<1> QED
  BY <1>1, <1>2, <1>3, <1>4 DEF Next

\* What may come to a process, and what its coming leads to, is paid for by
\* the starts of the processes, each start paying once.
THEOREM Budgeted == Spec => []BudgetInv
BY Invariance, BudgetInit, BudgetNext, PTL DEF Spec

-----------------------------------------------------------------------------
(* Number: counting.                                                       *)

LEMMA IntoCardinality ==
  ASSUME NEW S, NEW T, Into(S, T), IsFiniteSet(T)
  PROVE  IsFiniteSet(S) /\ Cardinality(S) <= Cardinality(T)
<1>1. PICK f : f \in Injection(S, T)
  BY Fun_ExistsInj DEF Into
<1> QED
  BY <1>1, FS_Injection

\* The starts of the processes in P.
RunsOf(P) == UNION {{p} \X (1..runs[p]) : p \in P}

LEMMA RunsFinite ==
  ASSUME NetTypeOK, NEW P, P \subseteq Procs, IsFiniteSet(P)
  PROVE  IsFiniteSet(RunsOf(P)) /\ Cardinality(RunsOf(P)) \in Nat
<1>1. RunsOf(P) \in SUBSET (P \X (1..MaxRuns))
  <2>1. ASSUME NEW p \in P
        PROVE  {p} \X (1..runs[p]) \subseteq P \X (1..MaxRuns)
    <3>1. runs[p] \in 0..MaxRuns
      BY DEF NetTypeOK
    <3> QED
      BY <3>1, ProtocolAssumption
  <2> QED
    BY <2>1 DEF RunsOf
<1>2. IsFiniteSet(1..MaxRuns)
  BY ProtocolAssumption, FS_Interval
<1>3. IsFiniteSet(P \X (1..MaxRuns))
  BY <1>2, FS_Product
<1> QED
  BY <1>1, <1>3, FS_Subset, FS_CardinalityType

LEMMA RunsOfOne ==
  ASSUME NetTypeOK, NEW p \in Procs
  PROVE  /\ IsFiniteSet(RunsOf({p})) /\ Cardinality(RunsOf({p})) = runs[p]
         /\ runs[p] \in Nat
<1>1. runs[p] \in Nat
  BY ProtocolAssumption DEF NetTypeOK
<1>2. RunsOf({p}) = {p} \X (1..runs[p])
  BY DEF RunsOf
<1>3. IsFiniteSet(1..runs[p]) /\ Cardinality(1..runs[p]) = runs[p]
  BY <1>1, FS_Interval
<1>4. IsFiniteSet({p}) /\ Cardinality({p}) = 1
  BY FS_Singleton
<1>5. PICK A, C : A = {p} /\ C = 1..runs[p]
  OBVIOUS
<1>6. /\ IsFiniteSet(A \X C)
      /\ Cardinality(A \X C) = Cardinality(A) * Cardinality(C)
  BY <1>3, <1>4, <1>5, FS_Product
<1>7. Cardinality(A) = 1 /\ Cardinality(C) = runs[p]
  BY <1>3, <1>4, <1>5
<1>8. Cardinality(A \X C) = runs[p]
  BY <1>1, <1>6, <1>7
<1>9. RunsOf({p}) = A \X C
  BY <1>2, <1>5
<1> QED
  BY <1>1, <1>6, <1>8, <1>9

\* The connections queued for b are as many as the starts that pay for b, at
\* most.
LEMMA QueuePaid ==
  ASSUME IInv, NEW b \in Procs, Paid(b), IsFiniteSet(RunsOf(Payers(b)))
  PROVE  Len(backlog[b]) <= Cardinality(RunsOf(Payers(b)))
<1>0. backlog[b] \in Seq(Message)
  BY DEF IInv, NetInv, NetTypeOK
<1>1. PICK n \in Nat : n = Len(backlog[b])
  BY <1>0
<1>2. Held(b, <<"queue", b>>) = 1..n
  BY <1>1 DEF Held, Queued, Counts
<1>3. PICK D, y : D = [x \in Slots |-> Held(b, x)] /\ y = <<"queue", b>>
  OBVIOUS
<1>4. y \in DOMAIN D /\ D[y] = 1..n /\ Tokens(b) = Sum(D)
  BY <1>2, <1>3 DEF Slots, Tokens
<1>5. Into(1..n, Sum(D))
  <2> DEFINE f == [i \in 1..n |-> <<y, i>>]
  <2>1. \A i \in 1..n : <<y, i>> \in Sum(D)
    BY <1>4, SumMember
  <2>2. f \in [1..n -> Sum(D)] /\ \A i, j \in 1..n : f[i] = f[j] => i = j
    BY <2>1
  <2> HIDE DEF f
  <2> QED
    BY <2>2, IntoBy
<1>6. StartsFor(b) = RunsOf(Payers(b))
  <2>1. PICK E : E = [p \in Payers(b) |-> 1..runs[p]]
    OBVIOUS
  <2>2. DOMAIN E = Payers(b) /\ \A p \in Payers(b) : E[p] = 1..runs[p]
    BY <2>1
  <2> QED
    BY <2>1, <2>2 DEF StartsFor, Sum, RunsOf
<1>7. Into(1..n, RunsOf(Payers(b)))
  <2>1. Into(Sum(D), RunsOf(Payers(b)))
    BY <1>4, <1>6 DEF Paid
  <2> QED
    BY <1>5, <2>1, IntoTransitive
<1>8. Cardinality(1..n) = n
  BY FS_Interval
<1>9. Cardinality(1..n) <= Cardinality(RunsOf(Payers(b)))
  BY <1>7, IntoCardinality
<1> QED
  BY <1>1, <1>8, <1>9

\* No queue is ever longer than the processes that can lead to a connection to
\* its owner have been started: a run of a server has one registration, and a
\* run of a client one packet in flight, whatever ends, restarts, is dropped or
\* comes late.
THEOREM BacklogBounded ==
  IsFiniteSet(Servers) /\ IsFiniteSet(Clients) => (Spec => []BacklogBound)
<1> SUFFICES ASSUME IsFiniteSet(Servers), IsFiniteSet(Clients)
             PROVE  Spec => []BacklogBound
  OBVIOUS
<1>1. ASSUME IInv, BudgetInv
      PROVE  BacklogBound
  <2>0. NetTypeOK /\ \A b \in Procs : Paid(b)
    BY <1>1 DEF IInv, NetInv, BudgetInv
  <2>1. Len(backlog[broker]) <= Starts(Servers \cup Clients)
    <3>1. Payers(broker) = Servers \cup Clients
      BY DEF Payers, Pays
    <3>2. IsFiniteSet(Servers \cup Clients)
      BY FS_Union
    <3>3. IsFiniteSet(RunsOf(Servers \cup Clients))
      BY <2>0, <3>2, Apart, RunsFinite
    <3> QED
      BY <1>1, <2>0, <3>1, <3>3, Apart, QueuePaid DEF Starts, RunsOf
  <2>2. ASSUME NEW s \in Servers
        PROVE  Len(backlog[s]) <= runs[s] + Starts(Clients)
    <3>1. RunsOf(Payers(s)) = RunsOf({s}) \cup RunsOf(Clients)
      <4>1. Payers(s) = {s} \cup Clients
        BY Apart DEF Payers, Pays
      <4> QED
        BY <4>1 DEF RunsOf
    <3>2. /\ IsFiniteSet(RunsOf({s})) /\ Cardinality(RunsOf({s})) = runs[s]
          /\ runs[s] \in Nat
      BY <2>0, Apart, RunsOfOne
    <3>3. IsFiniteSet(RunsOf(Clients)) /\ Cardinality(RunsOf(Clients)) \in Nat
      BY <2>0, Apart, RunsFinite
    <3>4. PICK A, C : A = RunsOf({s}) /\ C = RunsOf(Clients)
      OBVIOUS
    <3>5. /\ IsFiniteSet(A \cup C)
          /\ Cardinality(A \cup C) = Cardinality(A) + Cardinality(C) - Cardinality(A \cap C)
      BY <3>2, <3>3, <3>4, FS_Union
    <3>6. Cardinality(A \cap C) \in Nat
      <4>1. IsFiniteSet(A \cap C)
        BY <3>2, <3>4, FS_Subset
      <4> QED
        BY <4>1, FS_CardinalityType
    <3>7. Cardinality(A \cup C) <= runs[s] + Cardinality(C)
      BY <3>2, <3>3, <3>4, <3>5, <3>6
    <3>8. /\ Len(backlog[s]) <= Cardinality(A \cup C)
          /\ Len(backlog[s]) \in Nat /\ Cardinality(A \cup C) \in Nat
      <4>1. Len(backlog[s]) \in Nat
        <5>1. backlog[s] \in Seq(Message)
          BY <2>0, Apart DEF NetTypeOK
        <5> QED
          BY <5>1
      <4>2. Cardinality(A \cup C) \in Nat
        BY <3>5, FS_CardinalityType
      <4>3. s \in Procs /\ Paid(s) /\ IsFiniteSet(RunsOf(Payers(s)))
        BY <2>0, <3>1, <3>4, <3>5, Apart
      <4>4. Len(backlog[s]) <= Cardinality(RunsOf(Payers(s)))
        BY <1>1, <4>3, QueuePaid
      <4> QED
        BY <3>1, <3>4, <4>1, <4>2, <4>4
    <3>9. Cardinality(C) = Starts(Clients) /\ Starts(Clients) \in Nat
      BY <3>3, <3>4 DEF Starts, RunsOf
    <3> QED
      BY <3>2, <3>7, <3>8, <3>9
  <2>3. ASSUME NEW c \in Clients
        PROVE  Len(backlog[c]) <= runs[c]
    <3>1. Payers(c) = {c}
      BY Apart DEF Payers, Pays
    <3>2. IsFiniteSet(RunsOf({c})) /\ Cardinality(RunsOf({c})) = runs[c]
      BY <2>0, Apart, RunsOfOne
    <3> QED
      BY <1>1, <2>0, <3>1, <3>2, Apart, QueuePaid
  <2> QED
    BY <2>1, <2>2, <2>3 DEF BacklogBound
<1> QED
  BY <1>1, Invariance, Budgeted, PTL
=============================================================================
