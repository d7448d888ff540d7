--------------------------- MODULE Entries_proofs ---------------------------
(***************************************************************************)
(* Proof that the repository of requests holds what the broker needs:      *)
(* every response it is going to get finds an entry, as long as the broker *)
(* has not been started again, and a call that has been answered has no    *)
(* entry left.  As in Delivery_proofs, no client is started again and      *)
(* operation and message id identify the client.                           *)
(*                                                                         *)
(* The first needs that the entry which is deleted with a response is not  *)
(* one that another packet still waits for; the second that a call has one *)
(* entry at most, so that none stays behind.                               *)
(***************************************************************************)
EXTENDS Delivery_proofs

\* A client never makes two calls that agree in operation and message id.  Like
\* NoCollision it is a condition on the programs and on rand().
IdsDistinct ==
  \A c \in Clients : \A k1, k2 \in 1..Len(Program[c]) :
    Rand[k1] = Rand[k2] /\ Program[c][k1] = Program[c][k2] => k1 = k2

\* A packet m at l that is going to be answered, or is the answer, and has not
\* reached the broker on its way back.
Claim(l, m) ==
  IF l = <<"net", broker>> THEN m.type = "SERVICE_REQUEST_RESPONSE"
  ELSE l[2] \in Servers /\ m.type = "SERVICE_REQUEST"

HasEntry(m) ==
  \E j \in 1..Len(clnt_req_repo) :
    clnt_req_repo[j].op = m.op /\ clnt_req_repo[j].id = m.id

\* Before the broker is started nobody can send; in its first run every packet
\* that will need an entry has one.
NothingBefore ==
  runs[broker] = 0 =>
    /\ broker \notin listening
    /\ \A l \in Place : \A i \in DOMAIN Queues[l] : ~Carries(Queues[l][i])

ClaimsCovered ==
  \A l \in Place : \A i \in DOMAIN Queues[l] :
    Claim(l, Queues[l][i]) => HasEntry(Queues[l][i])

MatchInv ==
  /\ NothingBefore
  /\ broker \in listening /\ runs[broker] = 1 => ClaimsCovered

\* The calls a client can make.
Calls1 == {x \in Call : x.run = 1 /\ x.seq \in 1..Len(Program[x.client])}

\* The request of x has been taken by the broker, and its response has not been
\* sent to the client.
Open(x) ==
  /\ Pending(x)
  /\ \A i \in DOMAIN backlog[broker] :
       Carries(backlog[broker][i]) /\ CallIn(backlog[broker][i]) = x
         => backlog[broker][i].type = "SERVICE_REQUEST_RESPONSE"
  /\ \A i \in DOMAIN backlog[x.client] :
       Carries(backlog[x.client][i]) => CallIn(backlog[x.client][i]) # x

\* There is one entry for a call at most, and only while it is open.
EntryInv ==
  /\ \A j, k \in 1..Len(clnt_req_repo) :
       clnt_req_repo[j] = clnt_req_repo[k] => j = k
  /\ \A j \in 1..Len(clnt_req_repo) : \A x \in Calls1 :
       clnt_req_repo[j] = EntryOf(x) => Open(x)

-----------------------------------------------------------------------------
(* Packets and their calls.                                                *)

LEMMA BrokerPlace ==
  /\ broker \in Procs /\ broker \notin Servers /\ broker \notin Clients
  /\ <<"net", broker>> \in Place /\ Queues[<<"net", broker>>] = backlog[broker]
  /\ \A c \in Clients :
       /\ c \in Procs /\ c \notin Servers /\ <<"net", c>> \in Place
       /\ Queues[<<"net", c>>] = backlog[c]
BY NetworkAssumption, Places DEF Procs

\* What is known of a packet about a call.
LEMMA TokenFacts ==
  ASSUME IInv, DeliveryInv, NEW l \in Place, NEW i \in DOMAIN Queues[l],
         NEW m, m = Queues[l][i], Carries(m)
  PROVE  /\ m \in Message
         /\ CallIn(m) \in Calls1
         /\ OfCall(CallIn(m), m.op, m.id)
         /\ Pending(CallIn(m))
<1>1. m \in Message /\ CallIn(m) \in Call
  BY QueuesType
<1>2. Pending(CallIn(m))
  BY DEF DeliveryInv, TokensOK, TokenOK
<1>3. OfCall(CallIn(m), m.op, m.id)
  <2>1. ASSUME NEW p \in Procs, l = <<"net", p>>
        PROVE  OfCall(CallIn(m), m.op, m.id)
    <3>1. backlog[p] \in Seq(Sound(p)) /\ Queues[l] = backlog[p]
      BY <2>1, Places DEF IInv, NetInv
    <3>2. m \in Sound(p)
      BY <3>1
    <3> QED
      BY <3>2 DEF Sound, Carries, CallIn
  <2>2. ASSUME NEW s \in Servers, l = <<"res", s>>
        PROVE  OfCall(CallIn(m), m.op, m.id)
    <3>1. results[s] \in Seq(SoundRequest) /\ Queues[l] = results[s]
      BY <2>2, Places DEF IInv, ServerInv
    <3>2. m \in SoundRequest
      BY <3>1
    <3> QED
      BY <3>2 DEF SoundRequest, Request, CallIn
  <2> QED
    BY <2>1, <2>2, Places
<1> QED
  BY <1>1, <1>2, <1>3 DEF Calls1, OfCall, Pending

\* Two calls that agree in operation and id are of one client.
LEMMA SameClientIds ==
  ASSUME NoCollision, NEW x \in Call, NEW y \in Call, NEW op, NEW id,
         OfCall(x, op, id), OfCall(y, op, id)
  PROVE  x.client = y.client
BY DEF NoCollision, OfCall, Call

\* There is no other packet with the operation and the id of one.
LEMMA SameIds ==
  ASSUME NoCollision, IInv, DeliveryInv,
         NEW l \in Place, NEW i \in DOMAIN Queues[l], Carries(Queues[l][i]),
         NEW k \in Place, NEW j \in DOMAIN Queues[k], Carries(Queues[k][j]),
         Queues[l][i].op = Queues[k][j].op, Queues[l][i].id = Queues[k][j].id
  PROVE  l = k /\ i = j
<1> DEFINE m == Queues[l][i]
           o == Queues[k][j]
           x == CallIn(m)
           y == CallIn(o)
<1>1. /\ x \in Call /\ OfCall(x, m.op, m.id) /\ Pending(x)
      /\ y \in Call /\ OfCall(y, m.op, m.id) /\ Pending(y)
  BY TokenFacts DEF Calls1
<1>2. x.client = y.client
  BY <1>1, SameClientIds
<1>3. x = y
  BY <1>1, <1>2 DEF Pending, Call
<1> QED
  BY <1>3 DEF DeliveryInv, Unique

-----------------------------------------------------------------------------
(* Where the packets after a step come from.                               *)

\* After a packet has been moved, a packet about a call was there before, or is
\* the one that was moved.
LEMMA MovesOrigin ==
  ASSUME IInv, NEW a, NEW i, NEW b, NEW m, Moves(a, i, b, m),
         NEW l \in Place, NEW j \in DOMAIN Queues'[l], NEW o,
         o = Queues'[l][j], Carries(o)
  PROVE  \/ l = b /\ o = m
         \/ \E n \in DOMAIN Queues[l] : Queues[l][n] = o
<1>1. CASE l = b
  <2>1. /\ DOMAIN Queues'[b] = 1..(Len(Queues[b]) + 1)
        /\ DOMAIN Queues[b] = 1..Len(Queues[b])
        /\ Queues'[b][Len(Queues[b]) + 1] = m
        /\ \A n \in 1..Len(Queues[b]) : Queues'[b][n] = Queues[b][n]
    BY QueuesType DEF Moves
  <2>2. CASE j \in 1..Len(Queues[b])
    BY <1>1, <2>1, <2>2
  <2>3. CASE j \notin 1..Len(Queues[b])
    <3>1. Len(Queues[b]) \in Nat
      BY QueuesType DEF Moves
    <3>2. j = Len(Queues[b]) + 1
      BY <1>1, <2>1, <2>3, <3>1
    <3> QED
      BY <1>1, <2>1, <3>2
  <2> QED
    BY <2>2, <2>3
<1>2. CASE l = a
  BY <1>2, PartsOrigin DEF Moves
<1>3. CASE l \notin {a, b}
  BY <1>3 DEF Moves
<1> QED
  BY <1>1, <1>2, <1>3

\* It stands for the same call as the packet that was moved, which is gone.
LEMMA MovesLeave ==
  ASSUME IInv, DeliveryInv, NEW a, NEW i, NEW b, NEW m, Moves(a, i, b, m),
         NEW l \in Place, l # b, NEW j \in DOMAIN Queues'[l],
         Carries(Queues'[l][j])
  PROVE  CallIn(Queues'[l][j]) # CallIn(m)
<1>1. /\ a \in Place /\ i \in DOMAIN Queues[a] /\ Carries(Queues[a][i])
      /\ CallIn(m) = CallIn(Queues[a][i]) /\ Part(Queues'[a], Queues[a], i)
  BY DEF Moves
<1>2. l # a => Part(Queues'[l], Queues[l], 0)
  BY QueuesType, PartSame DEF Moves
<1> QED
  BY <1>1, <1>2, PartsLeave DEF DeliveryInv

\* A packet with operation and id of a claim, which is none for a client.
FromClaim(l, o) ==
  /\ l \notin {"net"} \X Clients
  /\ l = <<"net", broker>> => o.type = "SERVICE_REQUEST_RESPONSE"
  /\ \E k \in Place : \E n \in DOMAIN Queues[k] :
       /\ Carries(Queues[k][n]) /\ Claim(k, Queues[k][n])
       /\ Queues[k][n].op = o.op /\ Queues[k][n].id = o.id

\* A request that has just been sent.
FirstSent(l, o) ==
  /\ broker \in listening /\ l = <<"net", broker>>
  /\ o.type = "SERVICE_REQUEST" /\ ~Pending(CallIn(o))

Origin(l, o) ==
  \/ \E n \in DOMAIN Queues[l] : Queues[l][n] = o
  \/ FromClaim(l, o)
  \/ FirstSent(l, o)

LEMMA ServerOrigins ==
  ASSUME IInv, NEW s \in Servers, ServerNext(s),
         NEW l \in Place, NEW j \in DOMAIN Queues'[l], NEW o,
         o = Queues'[l][j], Carries(o)
  PROVE  Origin(l, o)
<1>0. s \notin Clients /\ s # broker /\ broker \notin Clients
  BY NetworkAssumption
<1>1. ASSUME NEW i \in 1..Len(backlog[s]), Execute(s, i)
      PROVE  Origin(l, o)
  <2> DEFINE a == <<"net", s>>
             m == backlog[s][i]
  <2>1. Moves(a, i, <<"res", s>>, m)
    BY <1>1, ExecuteMoves
  <2>2. Queues[a][i] = m /\ Claim(a, m)
    BY <1>0, <1>1, Places DEF Procs, Execute, Serving, Claim
  <2>3. FromClaim(<<"res", s>>, m)
    BY <2>1, <2>2 DEF FromClaim, Moves
  <2> HIDE DEF m
  <2> QED
    BY <2>1, <2>3, MovesOrigin DEF Origin
<1>2. ASSUME NEW i \in 1..Len(results[s]), SendResult(s, i), broker \in listening
      PROVE  Origin(l, o)
  <2> DEFINE a == <<"res", s>>
             m == pack_client_response_data(results[s][i])
  <2>1. /\ Moves(a, i, <<"net", broker>>, m)
        /\ results[s][i] \in Request /\ Queues[a][i] = results[s][i]
    BY <1>2, SendResultMoves
  <2>2. Claim(a, Queues[a][i])
    BY <2>1 DEF Claim, Request
  <2>3. /\ m.op = Queues[a][i].op /\ m.id = Queues[a][i].id
        /\ m.type = "SERVICE_REQUEST_RESPONSE"
    BY <2>1 DEF pack_client_response_data
  <2>4. FromClaim(<<"net", broker>>, m)
    BY <1>0, <2>1, <2>2, <2>3 DEF FromClaim, Moves
  <2> HIDE DEF m
  <2> QED
    BY <2>1, <2>4, MovesOrigin DEF Origin
<1>3. CASE /\ ~(\E i \in 1..Len(backlog[s]) : Execute(s, i))
           /\ ~(/\ broker \in listening
                /\ \E i \in 1..Len(results[s]) : SendResult(s, i))
  <2>1. Part(Queues'[l], Queues[l], 0)
    BY <1>3, ServerQuiet, QuietParts
  <2> QED
    BY <2>1, PartsOrigin DEF Origin
<1> QED
  BY <1>1, <1>2, <1>3

\* A request is put at the broker by the client whose sending thread runs.
LEMMA SendRequestOrigins ==
  ASSUME IInv, DeliveryInv, NEW c \in Clients, NEW k \in unsent[c],
         SendRequest(c, k), broker \in listening, UNCHANGED serverVars,
         NEW l \in Place, NEW j \in DOMAIN Queues'[l], NEW o,
         o = Queues'[l][j], Carries(o)
  PROVE  Origin(l, o)
<1> DEFINE m == pack_client_request_data(CallOf(c, k))
           b == <<"net", broker>>
<1>1. backlog' = [backlog EXCEPT ![c] = backlog[c], ![broker] = Append(@, m)]
  BY DEF SendRequest, send_req
<1>2. \A p \in Procs : backlog'[p] = IF p = broker THEN Append(backlog[broker], m)
                                     ELSE backlog[p]
  BY <1>1, CallerFacts DEF IInv, NetInv, NetTypeOK
<1>3. \A d \in Place \ {b} : Queues'[d] = Queues[d]
  BY <1>2, Places, PlacesNext DEF serverVars
<1>4. Queues'[b] = Append(Queues[b], m) /\ Queues[b] \in Seq(Message)
  BY <1>2, BrokerPlace, PlacesNext, QueuesType
<1>5. FirstSent(b, m)
  BY CallerFacts
     DEF FirstSent, pack_client_request_data, CallOf, CallIn, Pending
<1> HIDE DEF m
<1>6. CASE l # b
  BY <1>3, <1>6 DEF Origin
<1>7. CASE l = b
  <2>1. /\ Len(Queues[b]) \in Nat
        /\ DOMAIN Queues'[b] = 1..(Len(Queues[b]) + 1)
        /\ DOMAIN Queues[b] = 1..Len(Queues[b])
        /\ Queues'[b][Len(Queues[b]) + 1] = m
        /\ \A n \in 1..Len(Queues[b]) : Queues'[b][n] = Queues[b][n]
    BY <1>4
  <2>2. CASE j = Len(Queues[b]) + 1
    BY <1>5, <1>7, <2>1, <2>2 DEF Origin
  <2>3. CASE j # Len(Queues[b]) + 1
    <3>1. j \in 1..Len(Queues[b])
      BY <1>7, <2>1, <2>3
    <3> QED
      BY <1>7, <2>1, <3>1 DEF Origin
  <2> QED
    BY <2>2, <2>3
<1> QED
  BY <1>6, <1>7

LEMMA ClientOrigins ==
  ASSUME IInv, DeliveryInv, NEW c \in Clients, ClientNext(c),
         UNCHANGED serverVars,
         NEW l \in Place, NEW j \in DOMAIN Queues'[l], NEW o,
         o = Queues'[l][j], Carries(o)
  PROVE  Origin(l, o)
<1>1. CASE NetQuiet
  <2>1. Part(Queues'[l], Queues[l], 0)
    BY <1>1, QuietParts DEF serverVars
  <2> QED
    BY <2>1, PartsOrigin DEF Origin
<1>2. CASE \/ ClientStart(c) \/ CallStub(c) \/ ClientBind(c)
           \/ \E k \in sent[c] : ThreadReturns(c, k)
  <2>1. NetQuiet
    BY <1>2, QuietKept
       DEF ClientStart, CallStub, ClientBind, ThreadReturns, netVars
  <2> QED
    BY <1>1, <2>1
<1>3. CASE ReceiveResponse(c)
  <2>1. Part(<<>>, backlog[c], 0)
    BY CallerFacts, PartNone DEF IInv, NetInv, NetTypeOK
  <2>2. NetQuiet
    BY <1>3, <2>1, CallerFacts, QuietTake DEF ReceiveResponse
  <2> QED
    BY <1>1, <2>2
<1>4. CASE netError(c) \/ netErrorMidSend(c, broker)
  <2>1. NetQuiet
    BY <1>4, CallerFacts, QuietExit, QuietMidSend
  <2> QED
    BY <1>1, <2>1
<1> QED
  BY <1>2, <1>3, <1>4, ClientSteps, SendRequestOrigins

\* A step of a server or of a client.
OthersStep ==
  /\ \/ \E s \in Servers : ServerStep(s)
     \/ \E c \in Clients : ClientStep(c)
  /\ UNCHANGED brokerVars

LEMMA OthersOrigins ==
  ASSUME IInv, DeliveryInv, OthersStep,
         NEW l \in Place, NEW j \in DOMAIN Queues'[l], Carries(Queues'[l][j])
  PROVE  Origin(l, Queues'[l][j])
BY ServerOrigins, ClientOrigins DEF OthersStep, ServerStep, ClientStep

\* Servers and clients neither start nor stop the broker.
LEMMA BrokerKept ==
  ASSUME IInv, OthersStep
  PROVE  /\ runs'[broker] = runs[broker]
         /\ broker \in listening' <=> broker \in listening
<1>1. /\ runs \in [Procs -> 0..MaxRuns]
      /\ \A p \in Servers \cup Clients : p \in Procs /\ p # broker
  BY NetworkAssumption DEF IInv, NetInv, NetTypeOK, Procs
<1>2. ASSUME NEW p \in Servers \cup Clients,
             \/ UNCHANGED listening
             \/ listening' = listening \cup {p}
             \/ listening' = listening \ {p},
             UNCHANGED runs \/ runs' = [runs EXCEPT ![p] = @ + 1]
      PROVE  /\ runs'[broker] = runs[broker]
             /\ broker \in listening' <=> broker \in listening
  BY <1>1, <1>2 DEF Procs
<1>3. ASSUME NEW s \in Servers, ServerNext(s)
      PROVE  /\ \/ UNCHANGED listening
                \/ listening' = listening \cup {s}
                \/ listening' = listening \ {s}
             /\ UNCHANGED runs \/ runs' = [runs EXCEPT ![s] = @ + 1]
  BY <1>3 DEF ServerNext, ServerStart, ServerMain, ServerRegister, ServerBind,
     ServerThread, ReceiveAck, Execute, DropUnregistered, ServerTruncated,
     SendResult, ServerTimeout, ServerKilled, ServerStops, Discard, Launch,
     send_req, netError, netErrorMidSend
<1>4. ASSUME NEW c \in Clients, ClientNext(c)
      PROVE  /\ \/ UNCHANGED listening
                \/ listening' = listening \cup {c}
                \/ listening' = listening \ {c}
             /\ UNCHANGED runs \/ runs' = [runs EXCEPT ![c] = @ + 1]
  BY <1>4 DEF ClientNext, ClientStart, CallStub, ClientSender, SendRequest,
     SendDangling, ThreadReturns, ClientMain, ClientBind, ReceiveResponse,
     ClientTruncated, ClientTimeout, ClientFinish, ClientKilled, ClientStops, Launch, netVars,
     send_req, netError, netErrorMidSend
<1> QED
  BY <1>2, <1>3, <1>4 DEF OthersStep, ServerStep, ClientStep

-----------------------------------------------------------------------------
(* The steps of servers and clients.                                       *)

LEMMA OthersMatch ==
  ASSUME IInv, DeliveryInv, MatchInv, OthersStep
  PROVE  MatchInv'
<1>1. NothingBefore'
  <2> SUFFICES ASSUME runs'[broker] = 0
               PROVE  /\ broker \notin listening'
                      /\ \A l \in Place : \A i \in DOMAIN Queues'[l] :
                           ~Carries(Queues'[l][i])
    BY DEF NothingBefore
  <2>1. /\ broker \notin listening /\ broker \notin listening'
        /\ \A l \in Place : \A i \in DOMAIN Queues[l] : ~Carries(Queues[l][i])
    BY BrokerKept DEF MatchInv, NothingBefore
  <2>2. ASSUME NEW l \in Place, NEW i \in DOMAIN Queues'[l],
               Carries(Queues'[l][i])
        PROVE  FALSE
    <3>1. Origin(l, Queues'[l][i])
      BY <2>2, OthersOrigins
    <3> QED
      BY <2>1, <2>2, <3>1 DEF Origin, FromClaim, FirstSent
  <2> QED
    BY <2>1, <2>2
<1>2. ASSUME broker \in listening', runs'[broker] = 1
      PROVE  ClaimsCovered'
  <2> SUFFICES ASSUME NEW l \in Place, NEW i \in DOMAIN Queues'[l],
                      NEW o, o = Queues'[l][i], Claim(l, o)
               PROVE  HasEntry(o)'
    BY DEF ClaimsCovered, Claim, HasEntry
  <2>1. ClaimsCovered
    BY <1>2, BrokerKept DEF MatchInv
  <2>2. Carries(o)
    BY DEF Claim, Carries
  <2>3. Origin(l, o)
    BY <2>2, OthersOrigins
  <2>4. HasEntry(o)
    <3>1. ~FirstSent(l, o)
      BY DEF FirstSent, Claim
    <3> QED
      BY <2>1, <2>3, <3>1 DEF Origin, FromClaim, ClaimsCovered, HasEntry
  <2> QED
    BY <2>4 DEF HasEntry, OthersStep, brokerVars
<1> QED
  BY <1>1, <1>2 DEF MatchInv

\* A call is pending until its response is taken.
LEMMA PendingKept ==
  ASSUME NoCollision, NoClientRestart, IInv, DeliveryInv, OthersStep,
         NEW x \in Call, Pending(x),
         \A i \in DOMAIN backlog[x.client] :
           Carries(backlog[x.client][i]) => CallIn(backlog[x.client][i]) # x
  PROVE  Pending(x)'
<1>1. CASE UNCHANGED clientVars
  BY <1>1 DEF Pending, clientVars
<1>2. ASSUME NEW c \in Clients, ClientNext(c), UNCHANGED serverVars
      PROVE  Pending(x)'
  <2>0. x.client \in Clients /\ x.seq \in Nat /\ x.seq # 0
    BY DEF Call
  <2>1. CASE ClientStart(c)
    <3>1. UNCHANGED <<callNo, replies>>
      BY <1>2, <2>1, ClientStartStep
    <3>2. unsent'[x.client] \subseteq unsent[x.client]
      BY <2>0, <2>1, CallerFacts DEF ClientStart, ClientFunctions
    <3> QED
      BY <3>1, <3>2 DEF Pending
  <2>2. CASE CallStub(c)
    <3>1. x.client # c
      BY <2>0, <2>2, CallerFacts DEF CallStub, CallerOK, Pending
    <3> QED
      BY <2>0, <2>2, <3>1, CallerFacts DEF CallStub, ClientFunctions, Pending
  <2>3. CASE ReceiveResponse(c)
    <3>1. x.client # c
      BY <2>0, <2>3, TakenFacts DEF Pending, Call
    <3> QED
      BY <2>0, <2>3, <3>1, CallerFacts
         DEF ReceiveResponse, ClientFunctions, Pending
  <2>4. ASSUME UNCHANGED <<callNo, replies>>,
               unsent'[x.client] \subseteq unsent[x.client]
        PROVE  Pending(x)'
    BY <2>4 DEF Pending
  <2>5. CASE ClientBind(c)
    BY <2>4, <2>5 DEF ClientBind
  <2>6. ASSUME NEW k \in unsent[c], SendRequest(c, k), broker \in listening
        PROVE  Pending(x)'
    <3>1. /\ unsent' = [unsent EXCEPT ![c] = @ \ {k}]
          /\ UNCHANGED <<callNo, replies>>
      BY <2>6 DEF SendRequest, HasSent
    <3>2. unsent'[x.client] \subseteq unsent[x.client]
      BY <2>0, <3>1, CallerFacts DEF ClientFunctions
    <3> QED
      BY <2>4, <3>1, <3>2
  <2>7. CASE ClientExit(c)
    BY <2>0, <2>4, <2>7, CallerFacts DEF ClientExit, ClientFunctions
  <2>8. ASSUME NEW k \in sent[c], ThreadReturns(c, k)
        PROVE  Pending(x)'
    BY <2>4, <2>8 DEF ThreadReturns
  <2> QED
    BY <1>2, <2>1, <2>2, <2>3, <2>5, <2>6, <2>7, <2>8, ClientSteps
<1> QED
  BY <1>1, <1>2 DEF OthersStep, ServerStep, ClientStep

LEMMA OthersEntry ==
  ASSUME NoCollision, NoClientRestart, IInv, DeliveryInv, EntryInv, OthersStep
  PROVE  EntryInv'
<1>1. ASSUME NEW x \in Calls1, Open(x)
      PROVE  Open(x)'
  <2>1. x \in Call /\ x.client \in Clients /\ Pending(x)
    BY <1>1 DEF Calls1, Call, Open
  <2>2. Pending(x)'
    BY <1>1, <2>1, PendingKept DEF Open
  <2>3. /\ \A i \in DOMAIN backlog[broker] :
             Carries(backlog[broker][i]) /\ CallIn(backlog[broker][i]) = x
               => backlog[broker][i].type = "SERVICE_REQUEST_RESPONSE"
        /\ \A i \in DOMAIN backlog[x.client] :
             Carries(backlog[x.client][i]) => CallIn(backlog[x.client][i]) # x
    BY <1>1 DEF Open
  <2>4. ASSUME NEW i \in DOMAIN backlog'[broker],
               Carries(backlog'[broker][i]), CallIn(backlog'[broker][i]) = x
        PROVE  backlog'[broker][i].type = "SERVICE_REQUEST_RESPONSE"
    <3> DEFINE b == <<"net", broker>>
    <3>1. b \in Place /\ Queues[b] = backlog[broker] /\ Queues'[b] = backlog'[broker]
      BY BrokerPlace, PlacesNext
    <3>2. Origin(b, backlog'[broker][i])
      BY <2>4, <3>1, OthersOrigins
    <3> QED
      BY <2>1, <2>3, <2>4, <3>1, <3>2 DEF Origin, FromClaim, FirstSent
  <2>5. ASSUME NEW i \in DOMAIN backlog'[x.client],
               Carries(backlog'[x.client][i])
        PROVE  CallIn(backlog'[x.client][i]) # x
    <3> DEFINE b == <<"net", x.client>>
    <3>1. /\ b \in Place /\ Queues[b] = backlog[x.client]
          /\ Queues'[b] = backlog'[x.client]
          /\ x.client # broker /\ b \in {"net"} \X Clients
      BY <2>1, BrokerPlace, PlacesNext
    <3>2. Origin(b, backlog'[x.client][i])
      BY <2>5, <3>1, OthersOrigins
    <3> QED
      BY <2>3, <2>5, <3>1, <3>2 DEF Origin, FromClaim, FirstSent
  <2> QED
    BY <2>2, <2>4, <2>5 DEF Open
<1> QED
  BY <1>1 DEF EntryInv, OthersStep, brokerVars, EntryOf

-----------------------------------------------------------------------------
(* The steps of the broker.                                                *)

\* The broker stores the request it has accepted, and passes it on if it can.
StoresRequest ==
  /\ Accept("SERVICE_REQUEST")
  /\ clnt_req_repo' = reg_clnt_req(Current)
  /\ \/ backlog' = [backlog EXCEPT ![broker] = Behind]
     \/ \E q \in Servers : PassedOn(q)

\* It passes the response it has accepted on to the client of entry j.
PassesResponse(j) ==
  /\ Accept("SERVICE_REQUEST_RESPONSE")
  /\ find_client_for_response(Current, j)
  /\ clnt_req_repo' = LIST_DeleteNode(j)
  /\ clnt_req_repo[j].loc \in Clients
  /\ PassedOn(clnt_req_repo[j].loc)

\* When it ends, the repository ends with it.
BrokerEnds == broker \notin listening' /\ clnt_req_repo' = <<>>

LEMMA BrokerSteps ==
  ASSUME IInv, BrokerNext
  PROVE  \/ BrokerStart
         \/ /\ broker \in listening /\ UNCHANGED runs
            /\ \/ BrokerEnds
               \/ NetQuiet /\ UNCHANGED clnt_req_repo
               \/ StoresRequest
               \/ \E j \in 1..Len(clnt_req_repo) : PassesResponse(j)
<1> DEFINE Other ==
      /\ broker \in listening /\ UNCHANGED runs
      /\ \/ BrokerEnds
         \/ NetQuiet /\ UNCHANGED clnt_req_repo
         \/ StoresRequest
         \/ \E j \in 1..Len(clnt_req_repo) : PassesResponse(j)
<1>0. broker \in Procs /\ \A q \in Servers \cup Clients : q \in Procs /\ q # broker
  BY NetworkAssumption DEF Procs
<1>1. ASSUME broker \in listening, BrokerExit
      PROVE  Other
  BY <1>1 DEF BrokerExit, BrokerEnds, netError
<1>2. CASE RegisterService
  <2>1. Accept("SERVICE_REGISTRATION") /\ broker \in listening
    BY <1>2 DEF RegisterService, Accept
  <2>2. CASE Current.sender \in listening
    <3>1. Current.sender \in Servers
      BY <2>1, Accepting, MessageKinds DEF Accept, Registration
    <3>2. RegistrationAck \in Message /\ ~Carries(RegistrationAck)
      BY DEF RegistrationAck, Message, Ack, Carries
    <3>3. /\ backlog' = [backlog EXCEPT ![broker] = Behind,
                           ![Current.sender] = Append(@, RegistrationAck)]
          /\ UNCHANGED <<runs, clnt_req_repo>>
      BY <1>2, <2>2 DEF RegisterService, send_req
    <3>4. NetQuiet
      BY <1>0, <2>1, <3>1, <3>2, <3>3, Accepting, QuietPut
    <3> QED
      BY <2>1, <3>3, <3>4
  <2> QED
    BY <1>1, <1>2, <2>1, <2>2 DEF RegisterService
<1>3. CASE RequestWithoutServer
  BY <1>3 DEF RequestWithoutServer, StoresRequest, Accept
<1>4. CASE ForwardRequest
  <2>1. Accept("SERVICE_REQUEST") /\ broker \in listening
    BY <1>4 DEF ForwardRequest, Accept
  <2>2. PICK j \in 1..Len(svc_repo) :
          IF svc_repo[j].loc \in listening
          THEN /\ clnt_req_repo' = reg_clnt_req(Current)
               /\ send_req(broker, Behind, svc_repo[j].loc, Current)
          ELSE BrokerExit
    BY <1>4 DEF ForwardRequest
  <2>3. svc_repo[j].loc \in Servers
    BY DEF IInv, BrokerInv, SoundService, ServiceReg
  <2>4. CASE svc_repo[j].loc \in listening
    BY <2>1, <2>2, <2>3, <2>4 DEF StoresRequest, PassedOn, send_req
  <2> QED
    BY <1>1, <2>1, <2>2, <2>4
<1>5. CASE ForwardResponse
  <2>1. Accept("SERVICE_REQUEST_RESPONSE") /\ broker \in listening
    BY <1>5 DEF ForwardResponse, Accept
  <2>2. PICK j \in 1..Len(clnt_req_repo) :
          /\ find_client_for_response(Current, j)
          /\ IF clnt_req_repo[j].loc \in listening
             THEN /\ clnt_req_repo' = LIST_DeleteNode(j)
                  /\ send_req(broker, Behind, clnt_req_repo[j].loc, Current)
             ELSE BrokerExit
    BY <1>5 DEF ForwardResponse
  <2>3. clnt_req_repo[j].loc \in Clients
    BY DEF IInv, BrokerInv, SoundEntry, ClientReg
  <2>4. CASE clnt_req_repo[j].loc \in listening
    BY <2>1, <2>2, <2>3, <2>4 DEF PassesResponse, PassedOn, send_req
  <2> QED
    BY <1>1, <2>1, <2>2, <2>4
<1>6. CASE MalformedPacket
  <2>1. broker \in listening
    BY <1>6 DEF MalformedPacket, Accept
  <2>2. CASE BrokerExit
    BY <1>1, <2>1, <2>2
  <2>3. CASE ~BrokerExit
    <3>1. /\ backlog' = [backlog EXCEPT ![broker] = Behind]
          /\ UNCHANGED <<runs, clnt_req_repo>>
      BY <1>6, <2>3 DEF MalformedPacket, brokerVars
    <3>2. NetQuiet
      BY <1>0, <1>6, <3>1, Accepting, QuietTake DEF MalformedPacket
    <3> QED
      BY <2>1, <3>1, <3>2
  <2> QED
    BY <2>2, <2>3
<1>7. CASE UnmatchedResponse \/ TruncatedPacket \/ BrokerTimeout
  BY <1>1, <1>7 DEF UnmatchedResponse, TruncatedPacket, BrokerTimeout, Accept
<1>8. CASE BrokerKilled
  BY <1>8 DEF BrokerKilled, BrokerEnds, netError, netErrorMidSend
<1> QED
  BY <1>2, <1>3, <1>4, <1>5, <1>6, <1>7, <1>8 DEF BrokerNext, BrokerHandle

\* After the broker has passed a packet on to q, all others are about other
\* calls, and were there before.
LEMMA PassedOnOrigins ==
  ASSUME IInv, DeliveryInv, NEW q \in Servers \cup Clients, PassedOn(q),
         UNCHANGED serverVars,
         NEW l \in Place, NEW j \in DOMAIN Queues'[l], NEW o,
         o = Queues'[l][j], Carries(o)
  PROVE  \/ l = <<"net", q>> /\ o = Current
         \/ /\ CallIn(o) # CallIn(Current)
            /\ \E n \in DOMAIN Queues[l] : Queues[l][n] = o
<1> DEFINE a == <<"net", broker>>
           b == <<"net", q>>
<1>1. Moves(a, 1, b, Current)
  BY PassedOnMoves
<1>2. \/ l = b /\ o = Current
      \/ \E n \in DOMAIN Queues[l] : Queues[l][n] = o
  BY <1>1, MovesOrigin
<1>3. CASE l # b
  BY <1>1, <1>2, <1>3, MovesLeave
<1>4. CASE l = b
  <2>1. \A n \in DOMAIN Queues[b] :
          Carries(Queues[b][n]) => CallIn(Queues[b][n]) # CallIn(Current)
    BY <1>1 DEF Moves, DeliveryInv, Unique
  <2> QED
    BY <1>2, <1>4, <2>1
<1> QED
  BY <1>3, <1>4

\* After it has stored a request, only its server has a packet about the call.
LEMMA StoreOrigins ==
  ASSUME IInv, DeliveryInv, StoresRequest, UNCHANGED serverVars,
         NEW l \in Place, NEW j \in DOMAIN Queues'[l], NEW o,
         o = Queues'[l][j], Carries(o)
  PROVE  \/ l \in {"net"} \X Servers /\ o = Current
         \/ /\ CallIn(o) # CallIn(Current)
            /\ \E n \in DOMAIN Queues[l] : Queues[l][n] = o
<1>1. CASE \E q \in Servers : PassedOn(q)
  BY <1>1, PassedOnOrigins
<1>2. CASE backlog' = [backlog EXCEPT ![broker] = Behind]
  <2> DEFINE a == <<"net", broker>>
  <2>1. \A p \in Procs : backlog'[p] = IF p = broker THEN Behind ELSE backlog[p]
    BY <1>2 DEF IInv, NetInv, NetTypeOK
  <2>2. a \in Place /\ Queues[a] = backlog[broker] /\ Queues'[a] = Behind
    BY <2>1, BrokerPlace, PlacesNext
  <2>3. \A k \in Place : k # a => Queues'[k] = Queues[k]
    BY <2>1, Places, PlacesNext DEF serverVars
  <2>4. /\ 1 \in DOMAIN Queues[a] /\ Queues[a][1] = Current
        /\ Carries(Current) /\ Part(Queues'[a], Queues[a], 1)
    BY <2>2, Accepting DEF StoresRequest, Accept, Carries
  <2>5. l # a => Part(Queues'[l], Queues[l], 0)
    BY <2>3, QueuesType, PartSame
  <2>6. CallIn(o) # CallIn(Current)
    BY <2>2, <2>4, <2>5, PartsLeave DEF DeliveryInv
  <2>7. \E n \in DOMAIN Queues[l] : Queues[l][n] = o
    BY <2>3, <2>4, PartsOrigin
  <2> QED
    BY <2>6, <2>7
<1> QED
  BY <1>1, <1>2 DEF StoresRequest

\* The repository after a request has been stored.
LEMMA StoredEntries ==
  ASSUME IInv, StoresRequest
  PROVE  LET n == Len(clnt_req_repo)
         IN  /\ n \in Nat /\ Len(clnt_req_repo') = n + 1
             /\ clnt_req_repo'[n + 1] =
                  [loc |-> Current.sender, op |-> Current.op, id |-> Current.id]
             /\ \A j \in 1..n : clnt_req_repo'[j] = clnt_req_repo[j]
<1> DEFINE e == [loc |-> Current.sender, op |-> Current.op, id |-> Current.id]
<1>1. clnt_req_repo \in Seq(SoundEntry)
  BY DEF IInv, BrokerInv
<1>2. clnt_req_repo' = Append(clnt_req_repo, e)
  BY DEF StoresRequest, reg_clnt_req
<1> HIDE DEF e
<1>3. LET n == Len(clnt_req_repo)
      IN  /\ n \in Nat /\ Len(clnt_req_repo') = n + 1
          /\ clnt_req_repo'[n + 1] = e
          /\ \A j \in 1..n : clnt_req_repo'[j] = clnt_req_repo[j]
  BY <1>1, <1>2
<1> QED
  BY <1>3 DEF e

\* The repository after a response has been passed on.
LEMMA DeletedEntries ==
  ASSUME IInv, NEW j \in 1..Len(clnt_req_repo), PassesResponse(j)
  PROVE  LET n == Len(clnt_req_repo)
         IN  /\ n \in Nat /\ Len(clnt_req_repo') = n - 1
             /\ \A i \in 1..(n - 1) : clnt_req_repo'[i] =
                  IF i < j THEN clnt_req_repo[i] ELSE clnt_req_repo[i + 1]
<1>1. clnt_req_repo \in Seq(SoundEntry)
  BY DEF IInv, BrokerInv
<1>2. clnt_req_repo' = Without(clnt_req_repo, j)
  BY DEF PassesResponse, LIST_DeleteNode
<1>3. Len(clnt_req_repo) \in Nat
  BY <1>1
<1>4. /\ Len(Without(clnt_req_repo, j)) = Len(clnt_req_repo) - 1
      /\ \A i \in 1..(Len(clnt_req_repo) - 1) : Without(clnt_req_repo, j)[i] =
           IF i < j THEN clnt_req_repo[i] ELSE clnt_req_repo[i + 1]
  BY <1>1, WithoutProperties
<1> QED
  BY <1>2, <1>3, <1>4

\* A stored request has its entry, and the others keep theirs.
LEMMA StoreCovers ==
  ASSUME IInv, DeliveryInv, ClaimsCovered, StoresRequest, UNCHANGED serverVars
  PROVE  ClaimsCovered'
<1> SUFFICES ASSUME NEW l \in Place, NEW i \in DOMAIN Queues'[l],
                    NEW o, o = Queues'[l][i], Claim(l, o)
             PROVE  HasEntry(o)'
  BY DEF ClaimsCovered, Claim, HasEntry
<1>1. Carries(o)
  BY DEF Claim, Carries
<1>2. CASE o = Current
  BY <1>2, StoredEntries DEF HasEntry
<1>3. ASSUME NEW n \in DOMAIN Queues[l], Queues[l][n] = o
      PROVE  HasEntry(o)'
  <2>1. HasEntry(o)
    BY <1>3 DEF ClaimsCovered
  <2>2. PICK k \in 1..Len(clnt_req_repo) :
          clnt_req_repo[k].op = o.op /\ clnt_req_repo[k].id = o.id
    BY <2>1 DEF HasEntry
  <2>3. k \in 1..Len(clnt_req_repo') /\ clnt_req_repo'[k] = clnt_req_repo[k]
    BY StoredEntries
  <2> QED
    BY <2>2, <2>3 DEF HasEntry
<1> QED
  BY <1>1, <1>2, <1>3, StoreOrigins

\* No packet waits for the entry that is deleted but the one it is deleted for.
LEMMA PassCovers ==
  ASSUME NoCollision, IInv, DeliveryInv, ClaimsCovered,
         NEW j \in 1..Len(clnt_req_repo), PassesResponse(j),
         UNCHANGED serverVars
  PROVE  ClaimsCovered'
<1> SUFFICES ASSUME NEW l \in Place, NEW i \in DOMAIN Queues'[l],
                    NEW o, o = Queues'[l][i], Claim(l, o)
             PROVE  HasEntry(o)'
  BY DEF ClaimsCovered, Claim, HasEntry
<1>1. Carries(o)
  BY DEF Claim, Carries
<1>2. ~(l = <<"net", clnt_req_repo[j].loc>>)
  BY BrokerPlace DEF PassesResponse, Claim
<1>3. PICK n \in DOMAIN Queues[l] : Queues[l][n] = o
  BY <1>1, <1>2, PassedOnOrigins DEF PassesResponse
<1>4. CallIn(o) # CallIn(Current)
  BY <1>1, <1>2, PassedOnOrigins DEF PassesResponse
<1>5. ~(o.op = Current.op /\ o.id = Current.id)
  <2> DEFINE a == <<"net", broker>>
  <2>1. /\ a \in Place /\ 1 \in DOMAIN Queues[a] /\ Queues[a][1] = Current
        /\ Carries(Current)
    BY BrokerPlace, Accepting DEF PassesResponse, Accept, Carries
  <2>2. ~(l = a /\ n = 1)
    BY <1>3, <1>4, <2>1
  <2> QED
    BY <1>1, <1>3, <2>1, <2>2, SameIds
<1>6. PICK k \in 1..Len(clnt_req_repo) :
        clnt_req_repo[k].op = o.op /\ clnt_req_repo[k].id = o.id
  BY <1>3 DEF ClaimsCovered, HasEntry
<1>7. k # j
  BY <1>5, <1>6 DEF PassesResponse, find_client_for_response, Answers
<1>8. PICK h \in 1..Len(clnt_req_repo') : clnt_req_repo'[h] = clnt_req_repo[k]
  <2>1. CASE k < j
    BY <2>1, DeletedEntries
  <2>2. CASE k > j
    <3>1. k - 1 \in 1..Len(clnt_req_repo') /\ ~(k - 1 < j) /\ (k - 1) + 1 = k
      BY <2>2, DeletedEntries
    <3>2. clnt_req_repo'[k - 1] = clnt_req_repo[(k - 1) + 1]
      BY <3>1, DeletedEntries
    <3> QED
      BY <3>1, <3>2
  <2> QED
    BY <1>7, <2>1, <2>2
<1> QED
  BY <1>6, <1>8 DEF HasEntry

LEMMA BrokerMatch ==
  ASSUME NoCollision, IInv, DeliveryInv, MatchInv, BrokerStep
  PROVE  MatchInv'
<1>0. /\ UNCHANGED serverVars /\ BrokerNext
      /\ runs \in [Procs -> 0..MaxRuns] /\ broker \in Procs
  BY BrokerPlace DEF BrokerStep, IInv, NetInv, NetTypeOK
<1>1. CASE BrokerStart
  <2>1. UNCHANGED <<backlog, results, clnt_req_repo>>
    BY <1>0, <1>1 DEF BrokerStart, brokerVars, serverVars
  <2>2. UNCHANGED Queues
    BY <2>1 DEF Queues
  <2>3. runs'[broker] = runs[broker] + 1 /\ runs[broker] \in Nat
    BY <1>0, <1>1, ProtocolAssumption DEF BrokerStart, Launch
  <2>4. runs'[broker] = 1 => ClaimsCovered'
    <3> SUFFICES ASSUME runs'[broker] = 1, NEW l \in Place,
                        NEW i \in DOMAIN Queues[l], Claim(l, Queues[l][i])
                 PROVE  FALSE
      BY <2>2 DEF ClaimsCovered, Claim, HasEntry
    <3>1. runs[broker] = 0 /\ Carries(Queues[l][i])
      BY <2>3 DEF Claim, Carries
    <3> QED
      BY <3>1 DEF MatchInv, NothingBefore
  <2> QED
    BY <2>3, <2>4 DEF MatchInv, NothingBefore
<1>2. ASSUME broker \in listening, UNCHANGED runs
      PROVE  NothingBefore'
  BY <1>2 DEF MatchInv, NothingBefore
<1>3. ASSUME broker \in listening, UNCHANGED runs,
             runs[broker] = 1 /\ ClaimsCovered => ClaimsCovered'
      PROVE  MatchInv'
  BY <1>2, <1>3 DEF MatchInv
<1>4. ASSUME broker \in listening, UNCHANGED runs, BrokerEnds
      PROVE  MatchInv'
  BY <1>2, <1>4 DEF MatchInv, BrokerEnds
<1>5. ASSUME NetQuiet, UNCHANGED clnt_req_repo, ClaimsCovered
      PROVE  ClaimsCovered'
  <2> SUFFICES ASSUME NEW l \in Place, NEW i \in DOMAIN Queues'[l],
                      NEW o, o = Queues'[l][i], Claim(l, o)
               PROVE  HasEntry(o)'
    BY DEF ClaimsCovered, Claim, HasEntry
  <2>1. Carries(o)
    BY DEF Claim, Carries
  <2>2. Part(Queues'[l], Queues[l], 0)
    BY <1>0, <1>5, QuietParts DEF serverVars
  <2>3. \E n \in DOMAIN Queues[l] : Queues[l][n] = o
    BY <2>1, <2>2, PartsOrigin
  <2> QED
    BY <1>5, <2>3 DEF ClaimsCovered, HasEntry
<1> QED
  BY <1>0, <1>1, <1>3, <1>4, <1>5, BrokerSteps, StoreCovers, PassCovers

-----------------------------------------------------------------------------
(* One entry for a call.                                                   *)

\* A call stays open while no packet about it comes to the broker or its client.
LEMMA OpenKept ==
  ASSUME NEW x \in Calls1, Open(x), UNCHANGED clientVars,
         \A l \in {<<"net", broker>>, <<"net", x.client>>} :
           \A j \in DOMAIN Queues'[l] :
             Carries(Queues'[l][j]) =>
               \/ CallIn(Queues'[l][j]) # x
               \/ \E n \in DOMAIN Queues[l] : Queues[l][n] = Queues'[l][j]
  PROVE  Open(x)'
<1>1. x.client \in Clients
  BY DEF Calls1, Call
<1>2. /\ Queues[<<"net", broker>>] = backlog[broker]
      /\ Queues'[<<"net", broker>>] = backlog'[broker]
      /\ Queues[<<"net", x.client>>] = backlog[x.client]
      /\ Queues'[<<"net", x.client>>] = backlog'[x.client]
  BY <1>1, BrokerPlace, PlacesNext
<1>3. Pending(x)'
  BY DEF Open, Pending, clientVars
<1>4. ASSUME NEW i \in DOMAIN backlog'[broker],
             Carries(backlog'[broker][i]), CallIn(backlog'[broker][i]) = x
      PROVE  backlog'[broker][i].type = "SERVICE_REQUEST_RESPONSE"
  <2>1. \E n \in DOMAIN backlog[broker] : backlog[broker][n] = backlog'[broker][i]
    BY <1>2, <1>4
  <2> QED
    BY <1>4, <2>1 DEF Open
<1>5. ASSUME NEW i \in DOMAIN backlog'[x.client],
             Carries(backlog'[x.client][i]), CallIn(backlog'[x.client][i]) = x
      PROVE  FALSE
  <2>1. \E n \in DOMAIN backlog[x.client] :
          backlog[x.client][n] = backlog'[x.client][i]
    BY <1>2, <1>5
  <2> QED
    BY <1>5, <2>1 DEF Open
<1> QED
  BY <1>3, <1>4, <1>5 DEF Open

\* Different calls have different entries.
LEMMA EntriesDiffer ==
  ASSUME IdsDistinct, NEW x \in Calls1, NEW y \in Calls1,
         EntryOf(x) = EntryOf(y)
  PROVE  x = y
<1>1. /\ x.client = y.client /\ Rand[x.seq] = Rand[y.seq]
      /\ Program[x.client][x.seq] = Program[y.client][y.seq]
  BY DEF EntryOf
<1>2. x.seq = y.seq
  BY <1>1 DEF IdsDistinct, Calls1, Call
<1> QED
  BY <1>1, <1>2 DEF Calls1, Call

\* What is known of the packet that the broker has accepted.
LEMMA CurrentFacts ==
  ASSUME IInv, DeliveryInv, NEW t, Accept(t), Carries(Current)
  PROVE  /\ 1 \in DOMAIN backlog[broker] /\ backlog[broker][1] = Current
         /\ CallIn(Current) \in Calls1 /\ Pending(CallIn(Current))
         /\ OfCall(CallIn(Current), Current.op, Current.id)
BY Accepting, BrokerPlace, TokenFacts

LEMMA StoreEntry ==
  ASSUME IdsDistinct, IInv, DeliveryInv, EntryInv, StoresRequest,
         UNCHANGED <<serverVars, clientVars>>
  PROVE  EntryInv'
<1>0. PICK x0 : x0 = CallIn(Current)
  OBVIOUS
<1>1. Accept("SERVICE_REQUEST") /\ Carries(Current) /\ x0 = Current.params
  BY <1>0 DEF StoresRequest, Accept, Carries, CallIn
<1>2. /\ 1 \in DOMAIN backlog[broker] /\ backlog[broker][1] = Current
      /\ x0 \in Calls1 /\ Pending(x0) /\ OfCall(x0, Current.op, Current.id)
  BY <1>0, <1>1, CurrentFacts
<1>3. Current.sender = x0.client
  BY <1>1, CurrentSound DEF Sound, IInv, Accept
<1>4. [loc |-> Current.sender, op |-> Current.op, id |-> Current.id] = EntryOf(x0)
  BY <1>2, <1>3 DEF EntryOf, OfCall
<1> DEFINE n == Len(clnt_req_repo)
<1>5. /\ n \in Nat /\ Len(clnt_req_repo') = n + 1
      /\ clnt_req_repo'[n + 1] = EntryOf(x0)
      /\ \A j \in 1..n : clnt_req_repo'[j] = clnt_req_repo[j]
  BY <1>4, StoredEntries
<1>6. ~Open(x0)
  BY <1>0, <1>1, <1>2 DEF Open, Accept
<1>7. \A j \in 1..n : clnt_req_repo[j] # EntryOf(x0)
  BY <1>2, <1>6 DEF EntryInv
<1>8. ASSUME NEW x \in Calls1, x # x0, Open(x)
      PROVE  Open(x)'
  <2>1. ASSUME NEW l \in {<<"net", broker>>, <<"net", x.client>>},
               NEW j \in DOMAIN Queues'[l], Carries(Queues'[l][j]),
               CallIn(Queues'[l][j]) = x
        PROVE  \E k \in DOMAIN Queues[l] : Queues[l][k] = Queues'[l][j]
    <3>1. l \in Place
      BY BrokerPlace DEF Calls1, Call
    <3> QED
      BY <1>0, <1>8, <2>1, <3>1, StoreOrigins, BrokerPlace DEF Calls1, Call
  <2> QED
    BY <1>8, <2>1, OpenKept
<1>9. Open(x0)'
  <2>1. x0.client \in Clients
    BY <1>2 DEF Calls1, Call
  <2>2. Pending(x0)'
    BY <1>2 DEF Pending, clientVars
  <2>3. ASSUME NEW p \in {broker, x0.client}, NEW i \in DOMAIN backlog'[p],
               Carries(backlog'[p][i]), CallIn(backlog'[p][i]) = x0
        PROVE  FALSE
    <3> DEFINE l == <<"net", p>>
    <3>1. /\ l \in Place /\ Queues'[l] = backlog'[p]
          /\ l \notin {"net"} \X Servers
      BY <2>1, BrokerPlace, PlacesNext
    <3> QED
      BY <1>0, <2>3, <3>1, StoreOrigins
  <2>4. \A p \in {broker, x0.client} : \A i \in DOMAIN backlog'[p] :
          Carries(backlog'[p][i]) => CallIn(backlog'[p][i]) # x0
    BY <2>3
  <2> QED
    BY <2>2, <2>4 DEF Open
<1>10. ASSUME NEW j \in 1..(n + 1), NEW k \in 1..(n + 1),
              clnt_req_repo'[j] = clnt_req_repo'[k]
       PROVE  j = k
  <2>1. CASE j \in 1..n /\ k \in 1..n
    BY <1>5, <1>10, <2>1 DEF EntryInv
  <2>2. CASE j = n + 1 /\ k \in 1..n
    BY <1>5, <1>7, <1>10, <2>2
  <2>3. CASE j \in 1..n /\ k = n + 1
    BY <1>5, <1>7, <1>10, <2>3
  <2> QED
    BY <1>5, <2>1, <2>2, <2>3
<1>11. ASSUME NEW j \in 1..(n + 1), NEW x \in Calls1,
              clnt_req_repo'[j] = EntryOf(x)
       PROVE  Open(x)'
  <2>1. CASE x = x0
    BY <1>9, <2>1
  <2>2. CASE x # x0
    <3>1. j # n + 1
      BY <1>2, <1>5, <1>11, <2>2, EntriesDiffer
    <3>2. j \in 1..n
      BY <1>5, <3>1
    <3>3. Open(x)
      BY <1>5, <1>11, <3>2 DEF EntryInv
    <3> QED
      BY <1>8, <2>2, <3>3
  <2> QED
    BY <2>1, <2>2
<1> QED
  BY <1>5, <1>10, <1>11 DEF EntryInv, EntryOf

\* The entry that is deleted is the one of the call that has been answered.
LEMMA PassEntry ==
  ASSUME NoCollision, IInv, DeliveryInv, EntryInv,
         NEW j \in 1..Len(clnt_req_repo), PassesResponse(j),
         UNCHANGED <<serverVars, clientVars>>
  PROVE  EntryInv'
<1>0. PICK x0 : x0 = CallIn(Current)
  OBVIOUS
<1> DEFINE n == Len(clnt_req_repo)
           q == clnt_req_repo[j].loc
<1>1. Accept("SERVICE_REQUEST_RESPONSE") /\ Carries(Current) /\ q \in Clients
  BY DEF PassesResponse, Accept, Carries
<1>2. x0 \in Calls1 /\ OfCall(x0, Current.op, Current.id)
  BY <1>0, <1>1, CurrentFacts
<1>3. clnt_req_repo[j] = EntryOf(x0)
  <2>1. PICK k \in 1..Len(Program[q]) :
          /\ clnt_req_repo[j].op = Program[q][k]
          /\ clnt_req_repo[j].id = Rand[k]
    BY DEF IInv, BrokerInv, SoundEntry
  <2>2. clnt_req_repo[j].op = Current.op /\ clnt_req_repo[j].id = Current.id
    BY DEF PassesResponse, find_client_for_response, Answers
  <2>3. q = x0.client
    <3>1. x0.client \in Clients /\ x0.seq \in 1..Len(Program[x0.client])
      BY <1>2 DEF Calls1, Call
    <3>2. /\ Program[q][k] = Program[x0.client][x0.seq]
          /\ Rand[k] = Rand[x0.seq]
      BY <1>2, <2>1, <2>2 DEF OfCall
    <3> QED
      BY <1>1, <3>1, <3>2 DEF NoCollision
  <2>4. clnt_req_repo[j] \in ClientReg
    BY DEF IInv, BrokerInv, SoundEntry
  <2>5. EntryOf(x0) = [loc |-> q, op |-> Current.op, id |-> Current.id]
    BY <1>2, <2>3 DEF EntryOf, OfCall
  <2>6. \A e \in ClientReg : e = [loc |-> e.loc, op |-> e.op, id |-> e.id]
    BY DEF ClientReg
  <2> QED
    BY <2>2, <2>4, <2>5, <2>6
<1>4. /\ n \in Nat /\ Len(clnt_req_repo') = n - 1
      /\ \A i \in 1..(n - 1) : clnt_req_repo'[i] =
           IF i < j THEN clnt_req_repo[i] ELSE clnt_req_repo[i + 1]
  BY DeletedEntries
<1> DEFINE h == [i \in 1..(n - 1) |-> IF i < j THEN i ELSE i + 1]
<1>5. \A i \in 1..(n - 1) :
        h[i] \in 1..n /\ h[i] # j /\ clnt_req_repo'[i] = clnt_req_repo[h[i]]
  BY <1>4
<1>6. \A i, k \in 1..(n - 1) : h[i] = h[k] => i = k
  BY <1>4
<1> HIDE DEF h
<1>7. ASSUME NEW x \in Calls1, x # x0, Open(x)
      PROVE  Open(x)'
  <2>1. ASSUME NEW l \in {<<"net", broker>>, <<"net", x.client>>},
               NEW i \in DOMAIN Queues'[l], Carries(Queues'[l][i]),
               CallIn(Queues'[l][i]) = x
        PROVE  \E k \in DOMAIN Queues[l] : Queues[l][k] = Queues'[l][i]
    <3>1. l \in Place
      BY BrokerPlace DEF Calls1, Call
    <3> QED
      BY <1>0, <1>7, <2>1, <3>1, PassedOnOrigins DEF PassesResponse
  <2> QED
    BY <1>7, <2>1, OpenKept
<1>8. ASSUME NEW i \in 1..(n - 1), NEW k \in 1..(n - 1),
             clnt_req_repo'[i] = clnt_req_repo'[k]
      PROVE  i = k
  BY <1>5, <1>6, <1>8 DEF EntryInv
<1>9. ASSUME NEW i \in 1..(n - 1), NEW x \in Calls1,
             clnt_req_repo'[i] = EntryOf(x)
      PROVE  Open(x)'
  <2>1. Open(x) /\ clnt_req_repo[h[i]] = EntryOf(x) /\ h[i] \in 1..n /\ h[i] # j
    BY <1>5, <1>9 DEF EntryInv
  <2>2. x # x0
    BY <1>3, <2>1 DEF EntryInv
  <2> QED
    BY <1>7, <2>1, <2>2
<1> QED
  BY <1>4, <1>8, <1>9 DEF EntryInv, EntryOf

LEMMA BrokerEntry ==
  ASSUME NoCollision, IdsDistinct, IInv, DeliveryInv, EntryInv, BrokerStep
  PROVE  EntryInv'
<1>0. UNCHANGED <<serverVars, clientVars>> /\ BrokerNext
  BY DEF BrokerStep
<1>1. ASSUME NetQuiet, UNCHANGED clnt_req_repo
      PROVE  EntryInv'
  <2>1. ASSUME NEW x \in Calls1, Open(x)
        PROVE  Open(x)'
    <3>1. ASSUME NEW l \in {<<"net", broker>>, <<"net", x.client>>},
                 NEW i \in DOMAIN Queues'[l], Carries(Queues'[l][i])
          PROVE  \E k \in DOMAIN Queues[l] : Queues[l][k] = Queues'[l][i]
      <4>1. l \in Place
        BY BrokerPlace DEF Calls1, Call
      <4>2. Part(Queues'[l], Queues[l], 0)
        BY <1>0, <1>1, <4>1, QuietParts DEF serverVars
      <4> QED
        BY <3>1, <4>2, PartsOrigin
    <3> QED
      BY <1>0, <2>1, <3>1, OpenKept
  <2> QED
    BY <1>1, <2>1 DEF EntryInv, EntryOf
<1>2. CASE BrokerStart
  BY <1>1, <1>2, QuietKept DEF BrokerStart, brokerVars
<1>3. CASE BrokerEnds
  <2>1. Len(clnt_req_repo') = 0
    BY <1>3 DEF BrokerEnds
  <2> QED
    BY <2>1 DEF EntryInv
<1> QED
  BY <1>0, <1>1, <1>2, <1>3, BrokerSteps, StoreEntry, PassEntry

-----------------------------------------------------------------------------
(* The theorems.                                                           *)

LEMMA InitEntries == Init => MatchInv /\ EntryInv
<1> SUFFICES ASSUME Init PROVE MatchInv /\ EntryInv
  OBVIOUS
<1>1. \A p \in Procs : backlog[p] = <<>>
  BY DEF Init, NetInit
<1>2. \A s \in Servers : results[s] = <<>>
  BY DEF Init, ServerInit
<1>3. \A l \in Place : DOMAIN Queues[l] = {}
  BY <1>1, <1>2, Places
<1>4. listening = {} /\ clnt_req_repo = <<>>
  BY DEF Init, NetInit, BrokerInit
<1> QED
  BY <1>3, <1>4 DEF MatchInv, NothingBefore, EntryInv

\* Nothing changes when nothing is done.
LEMMA EntriesUnchanged ==
  ASSUME UNCHANGED vars
  PROVE  /\ MatchInv => MatchInv'
         /\ EntryInv => EntryInv'
<1>1. /\ UNCHANGED <<listening, backlog, runs, clnt_req_repo, results>>
      /\ UNCHANGED clientVars
  BY DEF vars, netVars, brokerVars, serverVars
<1>2. UNCHANGED Queues
  BY <1>1 DEF Queues
<1>3. MatchInv => MatchInv'
  BY <1>1, <1>2 DEF MatchInv, NothingBefore, ClaimsCovered, HasEntry
<1>4. \A x \in Calls1 : Open(x) => Open(x)'
  BY <1>1 DEF Open, Pending, clientVars
<1> QED
  BY <1>1, <1>3, <1>4 DEF EntryInv, EntryOf

LEMMA MatchNext ==
  ASSUME NoCollision, IInv, DeliveryInv, MatchInv, [Next]_vars
  PROVE  MatchInv'
BY BrokerMatch, OthersMatch, EntriesUnchanged
   DEF Next, BrokerStep, ServerStep, ClientStep, OthersStep

LEMMA EntryNext ==
  ASSUME NoCollision, NoClientRestart, IdsDistinct, IInv, DeliveryInv,
         EntryInv, [Next]_vars
  PROVE  EntryInv'
BY BrokerEntry, OthersEntry, EntriesUnchanged
   DEF Next, BrokerStep, ServerStep, ClientStep, OthersStep

\* What Claims holds for a packet.
IsClaim(u, op, id) ==
  \E l \in Place : \E i \in DOMAIN Queues[l] :
    /\ Carries(Queues[l][i]) /\ Claim(l, Queues[l][i])
    /\ Queues[l][i].op = op /\ Queues[l][i].id = id
    /\ u = TraceOf(l, i)

\* There is one claim at most for an operation and id, and it has its entry.
LEMMA ClaimsAndEntries ==
  ASSUME NoCollision, IInv, DeliveryInv, ClaimsCovered, NEW op, NEW id
  PROVE  Cardinality(Claims(op, id)) <= Cardinality(Entries(op, id))
<1>1. ASSUME NEW u \in Claims(op, id)
      PROVE  IsClaim(u, op, id)
  <2>1. ASSUME NEW s \in Servers,
               NEW i \in Asking(backlog[s], "SERVICE_REQUEST", op, id),
               u = <<s, "request", i>>
        PROVE  IsClaim(u, op, id)
    <3> DEFINE l == <<"net", s>>
    <3>1. /\ l \in Place /\ Queues[l] = backlog[s]
          /\ l[1] = "net" /\ l[2] = s /\ s # broker
      BY Places, BrokerPlace DEF Procs
    <3>2. /\ i \in DOMAIN Queues[l] /\ Carries(Queues[l][i])
          /\ Claim(l, Queues[l][i])
          /\ Queues[l][i].op = op /\ Queues[l][i].id = id
      BY <3>1 DEF Asking, Carries, Claim
    <3>3. u = TraceOf(l, i)
      BY <2>1, <3>1 DEF Asking, TraceOf
    <3> QED
      BY <3>1, <3>2, <3>3 DEF IsClaim
  <2>2. ASSUME NEW s \in Servers,
               NEW i \in Asking(results[s], "SERVICE_REQUEST", op, id),
               u = <<s, "result", i>>
        PROVE  IsClaim(u, op, id)
    <3> DEFINE l == <<"res", s>>
    <3>1. l \in Place /\ Queues[l] = results[s] /\ l[1] = "res" /\ l[2] = s
      BY Places
    <3>2. /\ i \in DOMAIN Queues[l] /\ Carries(Queues[l][i])
          /\ Claim(l, Queues[l][i])
          /\ Queues[l][i].op = op /\ Queues[l][i].id = id
      BY <3>1 DEF Asking, Carries, Claim
    <3>3. u = TraceOf(l, i)
      BY <2>2, <3>1 DEF TraceOf
    <3> QED
      BY <3>1, <3>2, <3>3 DEF IsClaim
  <2>3. ASSUME NEW i \in Asking(backlog[broker], "SERVICE_REQUEST_RESPONSE", op, id),
               u = <<broker, "response", i>>
        PROVE  IsClaim(u, op, id)
    <3> DEFINE l == <<"net", broker>>
    <3>1. l \in Place /\ Queues[l] = backlog[broker]
      BY BrokerPlace
    <3>2. /\ i \in DOMAIN Queues[l] /\ Carries(Queues[l][i])
          /\ Claim(l, Queues[l][i])
          /\ Queues[l][i].op = op /\ Queues[l][i].id = id
      BY <3>1 DEF Asking, Carries, Claim
    <3>3. u = TraceOf(l, i)
      BY <2>3, <3>1 DEF Asking, TraceOf
    <3> QED
      BY <3>1, <3>2, <3>3 DEF IsClaim
  <2> QED
    BY <2>1, <2>2, <2>3 DEF Claims
<1>2. \A u, v \in Claims(op, id) : u = v
  BY <1>1, SameIds DEF IsClaim
<1>3. Len(clnt_req_repo) \in Nat /\ DOMAIN clnt_req_repo = 1..Len(clnt_req_repo)
  BY DEF IInv, BrokerInv
<1>4. IsFiniteSet(Entries(op, id))
  <2>1. IsFiniteSet(1..Len(clnt_req_repo))
    BY <1>3, FS_Interval
  <2>2. Entries(op, id) \subseteq 1..Len(clnt_req_repo)
    BY <1>3 DEF Entries
  <2> QED
    BY <2>1, <2>2, FS_Subset
<1>5. CASE Claims(op, id) = {}
  BY <1>4, <1>5, FS_EmptySet, FS_CardinalityType
<1>6. ASSUME NEW u \in Claims(op, id)
      PROVE  Cardinality(Claims(op, id)) <= Cardinality(Entries(op, id))
  <2>1. Claims(op, id) = {u}
    BY <1>2
  <2>2. Cardinality(Claims(op, id)) = 1
    BY <2>1, FS_Singleton
  <2>3. Entries(op, id) # {}
    <3>1. PICK l \in Place : \E i \in DOMAIN Queues[l] :
            /\ Claim(l, Queues[l][i])
            /\ Queues[l][i].op = op /\ Queues[l][i].id = id
      BY <1>1 DEF IsClaim
    <3>2. PICK i \in DOMAIN Queues[l] :
            /\ Claim(l, Queues[l][i])
            /\ Queues[l][i].op = op /\ Queues[l][i].id = id
      BY <3>1
    <3> QED
      BY <1>3, <3>2 DEF ClaimsCovered, HasEntry, Entries
  <2>4. Cardinality(Entries(op, id)) \in Nat /\ Cardinality(Entries(op, id)) # 0
    BY <1>4, <2>3, FS_EmptySet, FS_CardinalityType
  <2> QED
    BY <2>2, <2>4
<1> QED
  BY <1>5, <1>6

\* In the first run of the broker there is, for every operation and id, an entry
\* for each response that it is going to get: find_client_for_response finds
\* one, however servers end and requests are lost in between.
THEOREM ResponsesMatched ==
  NoCollision /\ NoClientRestart => (Spec => []ResponseMatched)
<1> SUFFICES ASSUME NoCollision, NoClientRestart PROVE Spec => []ResponseMatched
  OBVIOUS
<1>1. Init => MatchInv
  BY InitEntries
<1>2. IInv /\ DeliveryInv /\ MatchInv /\ [Next]_vars => MatchInv'
  BY MatchNext
<1>3. IInv /\ DeliveryInv /\ MatchInv => ResponseMatched
  BY ClaimsAndEntries DEF MatchInv, ResponseMatched
<1> QED
  BY <1>1, <1>2, <1>3, Delivered, Invariance, PTL DEF Spec

\* A call that has been answered has no entry left, where a client never makes
\* two calls that agree in operation and id: the one entry of a call is deleted
\* in the step that passes its response on.
THEOREM AnsweredForgotten ==
  NoCollision /\ NoClientRestart /\ IdsDistinct => (Spec => []AnsweredIsForgotten)
<1> SUFFICES ASSUME NoCollision, NoClientRestart, IdsDistinct
             PROVE  Spec => []AnsweredIsForgotten
  OBVIOUS
<1>1. Init => EntryInv
  BY InitEntries
<1>2. IInv /\ DeliveryInv /\ EntryInv /\ [Next]_vars => EntryInv'
  BY EntryNext
<1>3. ASSUME IInv, DeliveryInv, EntryInv
      PROVE  AnsweredIsForgotten
  <2>0. DOMAIN clnt_req_repo = 1..Len(clnt_req_repo)
    BY <1>3 DEF IInv, BrokerInv
  <2>1. ASSUME NEW x \in Calls1, ~Open(x)
        PROVE  \A j \in DOMAIN clnt_req_repo : clnt_req_repo[j] # EntryOf(x)
    BY <1>3, <2>0, <2>1 DEF EntryInv
  <2>2. ASSUME NEW c \in Clients, NEW i \in DOMAIN replies[c]
        PROVE  replies[c][i] \in Calls1 /\ ~Open(replies[c][i])
    <3> DEFINE x == replies[c][i]
    <3>1. i \in 1..Len(replies[c]) /\ x \in Call
      BY <1>3, CallerFacts
    <3>2. x.client = c /\ x.run = 1 /\ x.seq = i
      <4>1. CallerOK(c)
        BY <1>3 DEF DeliveryInv
      <4>2. x = [client |-> c, run |-> 1, seq |-> i]
        BY <3>1, <4>1 DEF CallerOK
      <4> QED
        BY <4>2
    <3>3. i <= callNo[c] /\ callNo[c] <= Len(Program[c])
      BY <1>3, <3>1, CallerFacts DEF CallerOK, IInv, ClientInv
    <3>4. Len(Program[c]) \in Nat
      BY ProtocolAssumption
    <3>5. x \in Calls1
      BY <1>3, <3>1, <3>2, <3>3, <3>4, CallerFacts DEF Calls1
    <3>6. ~Pending(x)
      BY <1>3, <3>1, <3>2, CallerFacts DEF Pending
    <3> QED
      BY <3>5, <3>6 DEF Open
  <2>3. ASSUME NEW c \in Clients, NEW i \in DOMAIN backlog[c],
               backlog[c][i].type = "SERVICE_REQUEST_RESPONSE"
        PROVE  backlog[c][i].reply \in Calls1 /\ ~Open(backlog[c][i].reply)
    <3> DEFINE m == backlog[c][i]
               x == m.reply
    <3>1. Carries(m) /\ CallIn(m) = x
      BY <2>3 DEF Carries, CallIn
    <3>2. x \in Calls1
      BY <1>3, <3>1, BrokerPlace, TokenFacts
    <3>3. backlog[c] \in Seq(Sound(c))
      BY <1>3, BrokerPlace DEF IInv, NetInv
    <3>4. m \in Sound(c)
      BY <3>3
    <3>5. x.client = c
      BY <2>3, <3>4 DEF Sound
    <3> QED
      BY <3>1, <3>2, <3>5 DEF Open
  <2>4. ASSUME NEW c \in Clients,
               NEW x \in {replies[c][i] : i \in DOMAIN replies[c]}
                         \cup {backlog[c][i].reply :
                                 i \in {n \in DOMAIN backlog[c] :
                                          backlog[c][n].type
                                            = "SERVICE_REQUEST_RESPONSE"}}
        PROVE  x \in Calls1 /\ ~Open(x)
    BY <2>2, <2>3
  <2> QED
    BY <2>1, <2>4 DEF AnsweredIsForgotten
<1> QED
  BY <1>1, <1>2, <1>3, Delivered, Invariance, PTL DEF Spec
=============================================================================
