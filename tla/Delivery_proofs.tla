-------------------------- MODULE Delivery_proofs --------------------------
(***************************************************************************)
(* Proof that the whole system implements RpcService, and that no sending  *)
(* thread finds its frame gone, when no client is started again and        *)
(* operation and message id identify the client.  Broker and servers may   *)
(* end and be started again at any time.                                   *)
(*                                                                         *)
(* The invariant follows a call through the system: it stands in one       *)
(* packet at most, it is the last call of its client and has not returned, *)
(* and the packet is a response, or is with a thread that has the result,  *)
(* exactly when the call has been carried out.  A step takes packets away, *)
(* or moves one of them; none is made twice.                               *)
(***************************************************************************)
EXTENDS RpcBroker_proofs, FiniteSetTheorems

\* No client is started again.
NoClientRestart == Restartable \cap Clients = {}

\* The packets that stand for a call, and the call they stand for.
Carries(m) == m.type \in {"SERVICE_REQUEST", "SERVICE_REQUEST_RESPONSE"}

CallIn(m) == IF m.type = "SERVICE_REQUEST" THEN m.params ELSE m.reply

\* Where packets wait: at a process, or with the threads of a server that have
\* carried them out.
Place == ({"net"} \X Procs) \cup ({"res"} \X Servers)

Queues ==
  [l \in Place |-> IF l[1] = "net" THEN backlog[l[2]] ELSE results[l[2]]]

\* No two packets of f stand for the same call.
Unique(f) ==
  \A l, k \in Place : \A i \in DOMAIN f[l], j \in DOMAIN f[k] :
    (/\ Carries(f[l][i]) /\ Carries(f[k][j])
     /\ CallIn(f[l][i]) = CallIn(f[k][j])) => l = k /\ i = j

\* x is the last call of its client, sent and not returned.
Pending(x) ==
  /\ x.run = 1
  /\ x.seq = callNo[x.client]
  /\ x.seq \notin unsent[x.client]
  /\ Len(replies[x.client]) < x.seq

\* How often the call of a packet m at l has been carried out.
Done(l, m) ==
  IF l[1] = "res" \/ m.type = "SERVICE_REQUEST_RESPONSE" THEN 1 ELSE 0

TokenOK(l, m) ==
  Carries(m) => /\ Pending(CallIn(m))
                /\ executions[CallIn(m)] = Done(l, m)

TokensOK(f) == \A l \in Place : \A i \in DOMAIN f[l] : TokenOK(l, f[l][i])

\* A call that has not been sent has not been carried out.
UnsentOK ==
  \A x \in Call :
    x.seq > callNo[x.client] \/ x.seq \in unsent[x.client]
      => executions[x] = 0

\* In its only run a client has at most one call without a result.
CallerOK(c) ==
  /\ runs[c] <= 1
  /\ runs[c] = 0 => callNo[c] = 0 /\ replies[c] = <<>>
  /\ unsent[c] \subseteq {callNo[c]}
  /\ unsent[c] # {} => clientPc[c] \in {"bind", "wait"}
  /\ clientPc[c] = "idle" => Len(replies[c]) = callNo[c]
  /\ clientPc[c] \in {"bind", "wait"} => Len(replies[c]) + 1 = callNo[c]
  /\ Len(replies[c]) <= callNo[c]
  /\ \A i \in 1..Len(replies[c]) :
       replies[c][i] = [client |-> c, run |-> 1, seq |-> i]

DeliveryInv ==
  /\ Unique(Queues)
  /\ TokensOK(Queues)
  /\ UnsentOK
  /\ \A c \in Clients : CallerOK(c)

-----------------------------------------------------------------------------
(* What is left of a queue.                                                *)

\* Every packet about a call in r is one of q, and not the i-th.
Part(r, q, i) ==
  \E h \in [DOMAIN r -> Nat] :
    /\ \A j \in DOMAIN r :
         Carries(r[j]) => h[j] \in DOMAIN q /\ h[j] # i /\ q[h[j]] = r[j]
    /\ \A j, k \in DOMAIN r :
         Carries(r[j]) /\ Carries(r[k]) /\ h[j] = h[k] => j = k

LEMMA PartSame ==
  ASSUME NEW q \in Seq(Message)
  PROVE  Part(q, q, 0)
<1> DEFINE h == [j \in DOMAIN q |-> j]
<1>1. h \in [DOMAIN q -> Nat] /\ 0 \notin DOMAIN q
  OBVIOUS
<1>2. \A j \in DOMAIN q : h[j] = j
  OBVIOUS
<1> HIDE DEF h
<1> QED
  BY <1>1, <1>2 DEF Part

LEMMA PartNone ==
  ASSUME NEW q \in Seq(Message), NEW i
  PROVE  Part(<<>>, q, i)
<1> DEFINE h == [j \in DOMAIN <<>> |-> 0]
<1>1. h \in [DOMAIN <<>> -> Nat] /\ DOMAIN <<>> = {}
  OBVIOUS
<1> HIDE DEF h
<1> QED
  BY <1>1 DEF Part

LEMMA PartWithout ==
  ASSUME NEW q \in Seq(Message), NEW i \in 1..Len(q)
  PROVE  Part(Without(q, i), q, i)
<1> DEFINE r == Without(q, i)
           h == [j \in DOMAIN r |-> IF j < i THEN j ELSE j + 1]
<1>1. /\ r \in Seq(Message) /\ Len(r) = Len(q) - 1
      /\ \A j \in 1..(Len(q) - 1) : r[j] = IF j < i THEN q[j] ELSE q[j + 1]
  BY WithoutProperties
<1> HIDE DEF r
<1>2. Len(q) \in Nat /\ DOMAIN q = 1..Len(q) /\ DOMAIN r = 1..(Len(q) - 1)
  BY <1>1
<1>3. \A j \in DOMAIN r : h[j] = IF j < i THEN j ELSE j + 1
  OBVIOUS
<1>4. h \in [DOMAIN r -> Nat]
  BY <1>2
<1> HIDE DEF h
<1>5. \A j \in DOMAIN r : h[j] \in DOMAIN q /\ h[j] # i /\ q[h[j]] = r[j]
  BY <1>1, <1>2, <1>3
<1>6. \A j, k \in DOMAIN r : h[j] = h[k] => j = k
  BY <1>2, <1>3
<1>7. Part(r, q, i)
  BY <1>4, <1>5, <1>6 DEF Part
<1> QED
  BY <1>7 DEF r

LEMMA PartTail ==
  ASSUME NEW q \in Seq(Message), q # <<>>
  PROVE  Part(Tail(q), q, 1)
<1> DEFINE r == Tail(q)
           h == [j \in DOMAIN r |-> j + 1]
<1>1. /\ r \in Seq(Message) /\ Len(r) = Len(q) - 1
      /\ \A j \in 1..(Len(q) - 1) : r[j] = q[j + 1]
  OBVIOUS
<1> HIDE DEF r
<1>2. Len(q) \in Nat /\ DOMAIN q = 1..Len(q) /\ DOMAIN r = 1..(Len(q) - 1)
  BY <1>1
<1>3. \A j \in DOMAIN r : h[j] = j + 1
  OBVIOUS
<1>4. h \in [DOMAIN r -> Nat]
  BY <1>2
<1> HIDE DEF h
<1>5. \A j \in DOMAIN r : h[j] \in DOMAIN q /\ h[j] # 1 /\ q[h[j]] = r[j]
  BY <1>1, <1>2, <1>3
<1>6. \A j, k \in DOMAIN r : h[j] = h[k] => j = k
  BY <1>2, <1>3
<1>7. Part(r, q, 1)
  BY <1>4, <1>5, <1>6 DEF Part
<1> QED
  BY <1>7 DEF r

\* A packet about no call does not count.
LEMMA PartAppend ==
  ASSUME NEW q \in Seq(Message), NEW m \in Message, ~Carries(m)
  PROVE  Part(Append(q, m), q, 0)
<1> DEFINE r == Append(q, m)
           h == [j \in DOMAIN r |-> j]
<1>1. /\ Len(q) \in Nat /\ DOMAIN q = 1..Len(q)
      /\ DOMAIN r = 1..(Len(q) + 1) /\ r[Len(q) + 1] = m
      /\ \A j \in 1..Len(q) : r[j] = q[j]
  OBVIOUS
<1> HIDE DEF r
<1>2. \A j \in DOMAIN r : h[j] = j
  OBVIOUS
<1>3. h \in [DOMAIN r -> Nat]
  BY <1>1
<1> HIDE DEF h
<1>4. ASSUME NEW j \in DOMAIN r, Carries(r[j])
      PROVE  h[j] \in DOMAIN q /\ h[j] # 0 /\ q[h[j]] = r[j]
  <2>1. j # Len(q) + 1
    BY <1>1, <1>4
  <2> QED
    BY <1>1, <1>2, <2>1
<1>5. Part(r, q, 0)
  BY <1>2, <1>3, <1>4 DEF Part
<1> QED
  BY <1>5 DEF r

LEMMA PartWeaken ==
  ASSUME NEW q \in Seq(Message), NEW r, NEW i, Part(r, q, i)
  PROVE  Part(r, q, 0)
<1>1. 0 \notin DOMAIN q
  OBVIOUS
<1> QED
  BY <1>1 DEF Part

-----------------------------------------------------------------------------
(* What is left of all the queues.                                         *)

\* Taking packets away makes none twice.
LEMMA PartsUnique ==
  ASSUME NEW f, NEW g, Unique(f), \A l \in Place : Part(g[l], f[l], 0)
  PROVE  Unique(g)
<1> SUFFICES ASSUME NEW l \in Place, NEW k \in Place,
                    NEW i \in DOMAIN g[l], NEW j \in DOMAIN g[k],
                    Carries(g[l][i]), Carries(g[k][j]),
                    CallIn(g[l][i]) = CallIn(g[k][j])
             PROVE  l = k /\ i = j
  BY DEF Unique
<1>1. PICK h \in [DOMAIN g[l] -> Nat] :
        /\ \A n \in DOMAIN g[l] :
             Carries(g[l][n]) =>
               h[n] \in DOMAIN f[l] /\ h[n] # 0 /\ f[l][h[n]] = g[l][n]
        /\ \A n, o \in DOMAIN g[l] :
             Carries(g[l][n]) /\ Carries(g[l][o]) /\ h[n] = h[o] => n = o
  BY DEF Part
<1>2. PICK h2 \in [DOMAIN g[k] -> Nat] :
        \A n \in DOMAIN g[k] :
          Carries(g[k][n]) =>
            h2[n] \in DOMAIN f[k] /\ h2[n] # 0 /\ f[k][h2[n]] = g[k][n]
  BY DEF Part
<1>3. l = k
  <2>1. /\ h[i] \in DOMAIN f[l] /\ f[l][h[i]] = g[l][i]
        /\ h2[j] \in DOMAIN f[k] /\ f[k][h2[j]] = g[k][j]
    BY <1>1, <1>2
  <2> QED
    BY <2>1 DEF Unique
<1>4. /\ h[i] \in DOMAIN f[l] /\ f[l][h[i]] = g[l][i]
      /\ h[j] \in DOMAIN f[l] /\ f[l][h[j]] = g[l][j]
  BY <1>1, <1>3
<1>5. h[i] = h[j]
  BY <1>3, <1>4 DEF Unique
<1> QED
  BY <1>1, <1>3, <1>5

\* What is left was there before.
LEMMA PartsOrigin ==
  ASSUME NEW r, NEW q, NEW i, Part(r, q, i), NEW j \in DOMAIN r, Carries(r[j])
  PROVE  \E n \in DOMAIN q : n # i /\ q[n] = r[j]
BY DEF Part

\* When the packet about a call is taken away, none about it is left.
LEMMA PartsLeave ==
  ASSUME NEW f, NEW g, Unique(f), NEW a \in Place, NEW i \in DOMAIN f[a],
         Carries(f[a][i]), Part(g[a], f[a], i),
         NEW l \in Place, l # a => Part(g[l], f[l], 0),
         NEW j \in DOMAIN g[l], Carries(g[l][j])
  PROVE  CallIn(g[l][j]) # CallIn(f[a][i])
<1>1. CASE l = a
  <2>1. PICK n \in DOMAIN f[a] : n # i /\ f[a][n] = g[l][j]
    BY <1>1, PartsOrigin
  <2> QED
    BY <2>1 DEF Unique
<1>2. CASE l # a
  <2>1. PICK n \in DOMAIN f[l] : f[l][n] = g[l][j]
    BY <1>2, PartsOrigin
  <2> QED
    BY <1>2, <2>1 DEF Unique
<1> QED
  BY <1>1, <1>2

\* A packet about a call that no other packet is about may be added.
LEMMA AddedUnique ==
  ASSUME NEW g, NEW h, Unique(g), NEW b \in Place, NEW m \in Message,
         g[b] \in Seq(Message), h[b] = Append(g[b], m),
         \A l \in Place \ {b} : h[l] = g[l],
         \A l \in Place : \A j \in DOMAIN g[l] :
           Carries(g[l][j]) => CallIn(g[l][j]) # CallIn(m)
  PROVE  Unique(h)
<1> DEFINE e == Len(g[b]) + 1
<1>1. /\ DOMAIN g[b] = 1..Len(g[b]) /\ Len(g[b]) \in Nat
      /\ DOMAIN h[b] = 1..e /\ h[b][e] = m
      /\ \A n \in 1..Len(g[b]) : h[b][n] = g[b][n]
  OBVIOUS
<1>2. ASSUME NEW l \in Place, NEW i \in DOMAIN h[l], ~(l = b /\ i = e)
      PROVE  i \in DOMAIN g[l] /\ h[l][i] = g[l][i]
  <2>1. CASE l = b
    BY <1>1, <1>2, <2>1
  <2> QED
    BY <2>1
<1>3. ASSUME NEW l \in Place, NEW i \in DOMAIN h[l], ~(l = b /\ i = e),
             Carries(h[l][i])
      PROVE  CallIn(h[l][i]) # CallIn(m)
  BY <1>2, <1>3
<1> HIDE DEF e
<1> SUFFICES ASSUME NEW l \in Place, NEW k \in Place,
                    NEW i \in DOMAIN h[l], NEW j \in DOMAIN h[k],
                    Carries(h[l][i]), Carries(h[k][j]),
                    CallIn(h[l][i]) = CallIn(h[k][j])
             PROVE  l = k /\ i = j
  BY DEF Unique
<1>4. CASE l = b /\ i = e
  BY <1>1, <1>3, <1>4
<1>5. CASE k = b /\ j = e
  BY <1>1, <1>3, <1>5
<1>6. CASE ~(l = b /\ i = e) /\ ~(k = b /\ j = e)
  <2>1. /\ i \in DOMAIN g[l] /\ h[l][i] = g[l][i]
        /\ j \in DOMAIN g[k] /\ h[k][j] = g[k][j]
    BY <1>2, <1>6
  <2> QED
    BY <2>1 DEF Unique
<1> QED
  BY <1>4, <1>5, <1>6

-----------------------------------------------------------------------------
(* The queues of the system.                                               *)

LEMMA Places ==
  /\ \A p \in Procs : <<"net", p>> \in Place /\ Queues[<<"net", p>>] = backlog[p]
  /\ \A s \in Servers :
       <<"res", s>> \in Place /\ Queues[<<"res", s>>] = results[s]
  /\ \A l \in Place :
       \/ \E p \in Procs : l = <<"net", p>>
       \/ \E s \in Servers : l = <<"res", s>>
BY DEF Place, Queues

\* The packets that wait anywhere are packets, and about calls.
LEMMA QueuesType ==
  IInv => \A l \in Place :
            /\ Queues[l] \in Seq(Message)
            /\ \A i \in DOMAIN Queues[l] :
                 Carries(Queues[l][i]) => CallIn(Queues[l][i]) \in Call
<1> SUFFICES ASSUME IInv, NEW l \in Place
             PROVE  /\ Queues[l] \in Seq(Message)
                    /\ \A i \in DOMAIN Queues[l] :
                         Carries(Queues[l][i]) => CallIn(Queues[l][i]) \in Call
  OBVIOUS
<1>1. ASSUME NEW m \in Message, Carries(m)
      PROVE  CallIn(m) \in Call
  BY <1>1, MessageKinds DEF Carries, CallIn, Request, Response
<1>2. Queues[l] \in Seq(Message)
  <2>1. ASSUME NEW p \in Procs PROVE backlog[p] \in Seq(Message)
    BY DEF IInv, NetInv, NetTypeOK
  <2>2. ASSUME NEW s \in Servers PROVE results[s] \in Seq(Message)
    <3>1. results[s] \in Seq(Request) /\ Request \subseteq Message
      BY DEF IInv, ServerInv, ServerTypeOK, Message
    <3> QED
      BY <3>1, SeqMonotone
  <2> QED
    BY <2>1, <2>2, Places
<1>3. \A i \in DOMAIN Queues[l] : Queues[l][i] \in Message
  BY <1>2
<1> QED
  BY <1>1, <1>2, <1>3
-----------------------------------------------------------------------------
(* The three kinds of steps.                                               *)

\* A step that takes packets away at most.
LEMMA QuietStep ==
  ASSUME IInv, Unique(Queues), TokensOK(Queues),
         \A l \in Place : Part(Queues'[l], Queues[l], 0),
         executions' = executions,
         \A x \in Call : Pending(x) => Pending(x)'
  PROVE  Unique(Queues)' /\ TokensOK(Queues)'
<1>1. Unique(Queues)'
  BY PartsUnique DEF Unique
<1>2. ASSUME NEW l \in Place, NEW i \in DOMAIN Queues'[l], Carries(Queues'[l][i])
      PROVE  TokenOK(l, Queues[l][i])'
  <2>1. PICK n \in DOMAIN Queues[l] : Queues[l][n] = Queues'[l][i]
    BY <1>2, PartsOrigin
  <2>2. CallIn(Queues[l][n]) \in Call
    BY <1>2, <2>1, QueuesType
  <2> QED
    BY <1>2, <2>1, <2>2 DEF TokensOK, TokenOK, Done
<1> QED
  BY <1>1, <1>2 DEF TokensOK, TokenOK

\* A step that puts a packet m about a call, and takes others away at most.
LEMMA AddStep ==
  ASSUME IInv, Unique(Queues), TokensOK(Queues),
         NEW b \in Place, NEW m \in Message, Carries(m),
         Queues'[b] = Append(Queues[b], m),
         \A l \in Place \ {b} : Part(Queues'[l], Queues[l], 0),
         \A l \in Place \ {b} : \A j \in DOMAIN Queues'[l] :
           Carries(Queues'[l][j]) => CallIn(Queues'[l][j]) # CallIn(m),
         \A j \in DOMAIN Queues[b] :
           Carries(Queues[b][j]) => CallIn(Queues[b][j]) # CallIn(m),
         \A x \in Call : x # CallIn(m) =>
           executions'[x] = executions[x] /\ (Pending(x) => Pending(x)'),
         Pending(CallIn(m))',
         executions'[CallIn(m)] = Done(b, m)
  PROVE  Unique(Queues)' /\ TokensOK(Queues)'
<1> DEFINE g == [l \in Place |-> IF l = b THEN Queues[b] ELSE Queues'[l]]
<1>1. g[b] = Queues[b] /\ \A l \in Place \ {b} : g[l] = Queues'[l]
  OBVIOUS
<1> HIDE DEF g
<1>2. Queues[b] \in Seq(Message)
  BY QueuesType
<1>3. \A l \in Place : Part(g[l], Queues[l], 0)
  BY <1>1, <1>2, PartSame
<1>4. Unique(g)
  BY <1>3, PartsUnique
<1>5. Unique(Queues')
  <2>1. g[b] \in Seq(Message) /\ Queues'[b] = Append(g[b], m)
    BY <1>1, <1>2
  <2>2. \A l \in Place \ {b} : Queues'[l] = g[l]
    BY <1>1
  <2>3. \A l \in Place : \A j \in DOMAIN g[l] :
          Carries(g[l][j]) => CallIn(g[l][j]) # CallIn(m)
    BY <1>1
  <2> QED
    BY <1>4, <2>1, <2>2, <2>3, AddedUnique
<1>6. ASSUME NEW l \in Place, NEW j \in DOMAIN g[l], NEW o, o = g[l][j],
             Carries(o)
      PROVE  TokenOK(l, o)'
  <2>1. PICK n \in DOMAIN Queues[l] : Queues[l][n] = o
    BY <1>3, <1>6, PartsOrigin
  <2>2. CallIn(o) # CallIn(m) /\ CallIn(o) \in Call
    <3>1. CallIn(o) \in Call
      BY <1>6, <2>1, QueuesType
    <3>2. CASE l = b
      BY <1>1, <1>6, <3>1, <3>2
    <3>3. CASE l # b
      BY <1>1, <1>6, <3>1, <3>3
    <3> QED
      BY <3>2, <3>3
  <2>3. Pending(CallIn(o)) /\ executions[CallIn(o)] = Done(l, o)
    BY <1>6, <2>1 DEF TokensOK, TokenOK
  <2>4. /\ executions'[CallIn(o)] = executions[CallIn(o)]
        /\ Pending(CallIn(o))'
    BY <2>2, <2>3
  <2> QED
    BY <2>3, <2>4 DEF TokenOK, Done
<1>7. ASSUME NEW l \in Place, NEW i \in DOMAIN Queues'[l], NEW o,
             o = Queues'[l][i], Carries(o)
      PROVE  TokenOK(l, o)'
  <2>1. CASE l # b
    BY <1>1, <1>6, <1>7, <2>1
  <2>2. CASE l = b
    <3>1. /\ DOMAIN Queues'[b] = 1..(Len(Queues[b]) + 1)
          /\ DOMAIN Queues[b] = 1..Len(Queues[b]) /\ Len(Queues[b]) \in Nat
          /\ Queues'[b][Len(Queues[b]) + 1] = m
          /\ \A n \in 1..Len(Queues[b]) : Queues'[b][n] = Queues[b][n]
      BY <1>2
    <3>2. CASE i = Len(Queues[b]) + 1
      <4>1. o = m
        BY <1>7, <2>2, <3>1, <3>2
      <4>2. Pending(CallIn(o))' /\ executions'[CallIn(o)] = Done(l, o)
        BY <2>2, <4>1
      <4> QED
        BY <4>2 DEF TokenOK, Done
    <3>3. CASE i # Len(Queues[b]) + 1
      <4>1. i \in 1..Len(Queues[b])
        BY <1>7, <2>2, <3>1, <3>3
      <4>2. i \in DOMAIN Queues[b] /\ o = Queues[b][i]
        BY <1>7, <2>2, <3>1, <4>1
      <4> QED
        BY <1>1, <1>6, <1>7, <2>2, <4>2
    <3> QED
      BY <3>2, <3>3
  <2> QED
    BY <2>1, <2>2
<1> QED
  BY <1>5, <1>7 DEF TokensOK, TokenOK, Unique

\* The i-th packet at a goes to the end of the queue at b, as packet m about
\* the same call.
Moves(a, i, b, m) ==
  /\ a \in Place /\ b \in Place /\ a # b
  /\ i \in DOMAIN Queues[a] /\ Carries(Queues[a][i])
  /\ m \in Message /\ Carries(m) /\ CallIn(m) = CallIn(Queues[a][i])
  /\ Queues'[b] = Append(Queues[b], m)
  /\ Part(Queues'[a], Queues[a], i)
  /\ \A l \in Place \ {a, b} : Queues'[l] = Queues[l]

LEMMA MoveStep ==
  ASSUME IInv, Unique(Queues), TokensOK(Queues),
         NEW a, NEW i, NEW b, NEW m, Moves(a, i, b, m),
         \A x \in Call : x # CallIn(m) => executions'[x] = executions[x],
         \A x \in Call : Pending(x) => Pending(x)',
         executions'[CallIn(m)] = Done(b, m)
  PROVE  Unique(Queues)' /\ TokensOK(Queues)'
<1> USE DEF Moves
<1> DEFINE x == CallIn(m)
<1>1. \A l \in Place \ {b} : Part(Queues'[l], Queues[l], 0)
  BY QueuesType, PartSame, PartWeaken
<1>2. ASSUME NEW l \in Place \ {b}, NEW j \in DOMAIN Queues'[l],
             Carries(Queues'[l][j])
      PROVE  CallIn(Queues'[l][j]) # x
  BY <1>1, <1>2, PartsLeave
<1>3. \A j \in DOMAIN Queues[b] :
        Carries(Queues[b][j]) => CallIn(Queues[b][j]) # x
  BY DEF Unique
<1>4. x \in Call /\ Pending(x)
  BY QueuesType DEF TokensOK, TokenOK
<1> QED
  BY <1>1, <1>2, <1>3, <1>4, AddStep

LEMMA PlacesNext ==
  /\ \A p \in Procs : Queues'[<<"net", p>>] = backlog'[p]
  /\ \A s \in Servers : Queues'[<<"res", s>>] = results'[s]
BY DEF Place, Queues

-----------------------------------------------------------------------------
(* The network.                                                            *)

\* Connections are taken away at most, or made with packets about no call.
NetQuiet == \A p \in Procs : Part(backlog'[p], backlog[p], 0)

LEMMA QuietTake ==
  ASSUME IInv, NEW p \in Procs, NEW rest, Part(rest, backlog[p], 0),
         backlog' = [backlog EXCEPT ![p] = rest]
  PROVE  NetQuiet
<1>1. \A r \in Procs : backlog'[r] = IF r = p THEN rest ELSE backlog[r]
  BY DEF IInv, NetInv, NetTypeOK
<1>2. \A r \in Procs : backlog[r] \in Seq(Message)
  BY DEF IInv, NetInv, NetTypeOK
<1> QED
  BY <1>1, <1>2, PartSame DEF NetQuiet

LEMMA QuietPut ==
  ASSUME IInv, NEW p \in Procs, NEW q \in Procs, p # q,
         NEW rest, Part(rest, backlog[p], 0),
         NEW m \in Message, ~Carries(m),
         backlog' = [backlog EXCEPT ![p] = rest, ![q] = Append(@, m)]
  PROVE  NetQuiet
<1>1. \A r \in Procs : backlog'[r] = IF r = p THEN rest
                                     ELSE IF r = q THEN Append(backlog[q], m)
                                     ELSE backlog[r]
  BY DEF IInv, NetInv, NetTypeOK
<1>2. \A r \in Procs : backlog[r] \in Seq(Message)
  BY DEF IInv, NetInv, NetTypeOK
<1> QED
  BY <1>1, <1>2, PartSame, PartAppend DEF NetQuiet

LEMMA QuietKept ==
  ASSUME IInv, UNCHANGED backlog
  PROVE  NetQuiet
BY PartSame DEF NetQuiet, IInv, NetInv, NetTypeOK

LEMMA QuietExit ==
  ASSUME IInv, NEW p \in Procs, netError(p)
  PROVE  NetQuiet
BY PartNone, QuietTake DEF netError, IInv, NetInv, NetTypeOK

LEMMA QuietMidSend ==
  ASSUME IInv, NEW p \in Procs, NEW q \in Procs, p # q, netErrorMidSend(p, q)
  PROVE  NetQuiet
<1>1. Eof \in Message /\ ~Carries(Eof)
  BY DEF Eof, Message, Broken, Carries
<1>2. Part(<<>>, backlog[p], 0)
  BY PartNone DEF IInv, NetInv, NetTypeOK
<1> QED
  BY <1>1, <1>2, QuietPut DEF netErrorMidSend

\* A quiet step of the network that leaves the results, or drops some.
LEMMA QuietParts ==
  ASSUME IInv, NetQuiet,
         \A s \in Servers : results'[s] = results[s] \/ results'[s] = <<>>
  PROVE  \A l \in Place : Part(Queues'[l], Queues[l], 0)
<1>1. \A p \in Procs : Part(Queues'[<<"net", p>>], Queues[<<"net", p>>], 0)
  BY Places, PlacesNext DEF NetQuiet
<1>2. ASSUME NEW s \in Servers
      PROVE  Part(Queues'[<<"res", s>>], Queues[<<"res", s>>], 0)
  <2>1. results[s] \in Seq(Message)
    BY QueuesType, Places
  <2> QED
    BY <2>1, PartSame, PartNone, Places, PlacesNext
<1> QED
  BY <1>1, <1>2, Places

LEMMA QuietNetStep ==
  ASSUME IInv, Unique(Queues), TokensOK(Queues), NetQuiet,
         \A s \in Servers : results'[s] = results[s] \/ results'[s] = <<>>,
         executions' = executions,
         \A x \in Call : Pending(x) => Pending(x)'
  PROVE  Unique(Queues)' /\ TokensOK(Queues)'
BY QuietParts, QuietStep

-----------------------------------------------------------------------------
(* The steps of the broker.                                                *)

\* The broker passes its oldest packet, which is about a call, on to q.
PassedOn(q) ==
  /\ Accept("SERVICE_REQUEST") \/ Accept("SERVICE_REQUEST_RESPONSE")
  /\ send_req(broker, Behind, q, Current)

\* What the broker has accepted is a packet, taken from its queue.
LEMMA Accepting ==
  ASSUME IInv, NEW t, Accept(t)
  PROVE  /\ Part(Behind, backlog[broker], 0)
         /\ Part(Behind, backlog[broker], 1)
         /\ 1 \in DOMAIN backlog[broker] /\ backlog[broker][1] = Current
         /\ Current \in Message
<1>1. backlog[broker] \in Seq(Message) /\ backlog[broker] # <<>>
  BY DEF IInv, NetInv, NetTypeOK, Procs, Accept
<1>2. Part(Behind, backlog[broker], 1)
  BY <1>1, PartTail DEF Behind
<1>3. Part(Behind, backlog[broker], 0)
  BY <1>1, <1>2, PartWeaken
<1>4. 1 \in DOMAIN backlog[broker] /\ backlog[broker][1] = Current
  BY <1>1 DEF Current
<1> QED
  BY <1>1, <1>2, <1>3, <1>4

LEMMA BrokerExitQuiet ==
  ASSUME IInv, BrokerExit
  PROVE  NetQuiet
BY QuietExit DEF BrokerExit, Procs

\* The broker passes a packet on, or makes none about a call.
LEMMA BrokerQuiet ==
  ASSUME IInv, BrokerNext
  PROVE  NetQuiet \/ \E q \in Servers \cup Clients : PassedOn(q)
<1>0. broker \in Procs /\ \A q \in Servers \cup Clients : q \in Procs /\ q # broker
  BY NetworkAssumption DEF Procs
<1>1. CASE BrokerStart
  BY <1>1, QuietKept DEF BrokerStart
<1>2. CASE RegisterService
  <2>1. Accept("SERVICE_REGISTRATION")
    BY <1>2 DEF RegisterService
  <2>2. Current.sender \in Servers
    BY <2>1, Accepting, MessageKinds DEF Accept, Registration
  <2>3. RegistrationAck \in Message /\ ~Carries(RegistrationAck)
    BY DEF RegistrationAck, Message, Ack, Carries
  <2>4. CASE Current.sender \in listening
    BY <1>0, <1>2, <2>1, <2>2, <2>3, <2>4, Accepting, QuietPut
       DEF RegisterService, send_req
  <2> QED
    BY <1>2, <2>4, BrokerExitQuiet DEF RegisterService
<1>3. CASE RequestWithoutServer
  BY <1>0, <1>3, Accepting, QuietTake DEF RequestWithoutServer
<1>4. CASE ForwardRequest
  <2>1. PICK j \in 1..Len(svc_repo) :
          IF svc_repo[j].loc \in listening
          THEN send_req(broker, Behind, svc_repo[j].loc, Current)
          ELSE BrokerExit
    BY <1>4 DEF ForwardRequest
  <2>2. svc_repo[j].loc \in Servers
    BY DEF IInv, BrokerInv, SoundService, ServiceReg
  <2> QED
    BY <1>4, <2>1, <2>2, BrokerExitQuiet DEF ForwardRequest, PassedOn
<1>5. CASE ForwardResponse
  <2>1. PICK j \in 1..Len(clnt_req_repo) :
          IF clnt_req_repo[j].loc \in listening
          THEN send_req(broker, Behind, clnt_req_repo[j].loc, Current)
          ELSE BrokerExit
    BY <1>5 DEF ForwardResponse
  <2>2. clnt_req_repo[j].loc \in Clients
    BY DEF IInv, BrokerInv, SoundEntry, ClientReg
  <2> QED
    BY <1>5, <2>1, <2>2, BrokerExitQuiet DEF ForwardResponse, PassedOn
<1>6. CASE MalformedPacket
  BY <1>0, <1>6, Accepting, QuietTake, BrokerExitQuiet DEF MalformedPacket
<1>7. CASE UnmatchedResponse \/ TruncatedPacket \/ BrokerTimeout
  BY <1>7, BrokerExitQuiet DEF UnmatchedResponse, TruncatedPacket, BrokerTimeout
<1>8. CASE BrokerKilled
  BY <1>0, <1>8, QuietExit, QuietMidSend DEF BrokerKilled
<1> QED
  BY <1>1, <1>2, <1>3, <1>4, <1>5, <1>6, <1>7, <1>8 DEF BrokerNext, BrokerHandle

\* A packet that is passed on is moved.
LEMMA PassedOnMoves ==
  ASSUME IInv, NEW q \in Servers \cup Clients, PassedOn(q),
         UNCHANGED serverVars
  PROVE  Moves(<<"net", broker>>, 1, <<"net", q>>, Current)
<1> DEFINE a == <<"net", broker>>
           b == <<"net", q>>
           m == Current
<1>1. broker \in Procs /\ q \in Procs /\ q # broker
  BY NetworkAssumption DEF Procs
<1>2. /\ a \in Place /\ b \in Place /\ a # b
      /\ Queues[a] = backlog[broker] /\ Queues[b] = backlog[q]
  BY <1>1, Places
<1>3. /\ 1 \in DOMAIN Queues[a] /\ Queues[a][1] = m
      /\ Part(Behind, Queues[a], 1)
      /\ m \in Message /\ Carries(m)
  BY <1>2, Accepting DEF PassedOn, Accept, Carries
<1>4. \A p \in Procs : backlog'[p] = IF p = broker THEN Behind
                                     ELSE IF p = q THEN Append(backlog[q], m)
                                     ELSE backlog[p]
  BY <1>1 DEF PassedOn, send_req, IInv, NetInv, NetTypeOK
<1>5. Queues'[b] = Append(Queues[b], m) /\ Queues'[a] = Behind
  BY <1>1, <1>2, <1>4, PlacesNext
<1>6. \A l \in Place \ {a, b} : Queues'[l] = Queues[l]
  BY <1>4, Places, PlacesNext DEF serverVars
<1> HIDE DEF a, b, m
<1>7. Moves(a, 1, b, m)
  BY <1>2, <1>3, <1>5, <1>6 DEF Moves
<1> QED
  BY <1>7 DEF a, b, m

LEMMA PassedOnStep ==
  ASSUME IInv, Unique(Queues), TokensOK(Queues),
         NEW q \in Servers \cup Clients, PassedOn(q),
         UNCHANGED <<serverVars, clientVars>>
  PROVE  Unique(Queues)' /\ TokensOK(Queues)'
<1> DEFINE a == <<"net", broker>>
           b == <<"net", q>>
           m == Current
<1>1. Moves(a, 1, b, m)
  BY PassedOnMoves
<1>2. Queues[a][1] = m
  BY Accepting, Places DEF PassedOn, Procs
<1>3. executions'[CallIn(m)] = Done(b, m)
  BY <1>1, <1>2 DEF Moves, TokensOK, TokenOK, Done, serverVars
<1>4. \A x \in Call : /\ executions'[x] = executions[x]
                      /\ Pending(x) => Pending(x)'
  BY DEF Pending, serverVars, clientVars
<1> HIDE DEF a, b, m
<1> QED
  BY <1>1, <1>3, <1>4, MoveStep

LEMMA BrokerStepTokens ==
  ASSUME IInv, Unique(Queues), TokensOK(Queues), BrokerStep
  PROVE  Unique(Queues)' /\ TokensOK(Queues)'
<1>1. UNCHANGED <<serverVars, clientVars>> /\ BrokerNext
  BY DEF BrokerStep
<1>2. CASE NetQuiet
  BY <1>1, <1>2, QuietNetStep DEF serverVars, clientVars, Pending
<1> QED
  BY <1>1, <1>2, BrokerQuiet, PassedOnStep

-----------------------------------------------------------------------------
(* The steps of a server.                                                  *)

\* Carrying out a request moves it to the results.
LEMMA ExecuteMoves ==
  ASSUME IInv, NEW s \in Servers, NEW i \in 1..Len(backlog[s]), Execute(s, i)
  PROVE  Moves(<<"net", s>>, i, <<"res", s>>, backlog[s][i])
<1> DEFINE a == <<"net", s>>
           b == <<"res", s>>
           m == backlog[s][i]
<1>1. s \in Procs
  BY DEF Procs
<1>2. /\ a \in Place /\ b \in Place /\ a # b
      /\ Queues[a] = backlog[s] /\ Queues[b] = results[s]
  BY <1>1, Places
<1>3. backlog[s] \in Seq(Message)
  BY <1>1 DEF IInv, NetInv, NetTypeOK
<1>4. /\ i \in DOMAIN Queues[a] /\ Queues[a][i] = m
      /\ m \in Message /\ Carries(m)
  BY <1>2, <1>3 DEF Execute, Serving, Carries
<1>5. Part(Without(backlog[s], i), Queues[a], i)
  BY <1>2, <1>3, PartWithout
<1>6. /\ \A p \in Procs : backlog'[p] = IF p = s THEN Without(backlog[s], i)
                                        ELSE backlog[p]
      /\ \A t \in Servers : results'[t] = IF t = s THEN Append(results[s], m)
                                          ELSE results[t]
  BY <1>1 DEF Execute, Discard, Accepted, IInv, NetInv, NetTypeOK, ServerInv,
              ServerTypeOK
<1>7. Queues'[b] = Append(Queues[b], m) /\ Part(Queues'[a], Queues[a], i)
  BY <1>1, <1>2, <1>5, <1>6, PlacesNext
<1>8. \A l \in Place \ {a, b} : Queues'[l] = Queues[l]
  BY <1>6, Places, PlacesNext
<1> HIDE DEF a, b, m
<1>9. Moves(a, i, b, m)
  BY <1>2, <1>4, <1>7, <1>8 DEF Moves
<1> QED
  BY <1>9 DEF a, b, m

LEMMA ExecuteStep ==
  ASSUME IInv, Unique(Queues), TokensOK(Queues), NEW s \in Servers,
         NEW i \in 1..Len(backlog[s]), Execute(s, i), UNCHANGED clientVars
  PROVE  /\ Unique(Queues)' /\ TokensOK(Queues)'
         /\ backlog[s][i].params \in Call
         /\ Pending(backlog[s][i].params)
         /\ executions[backlog[s][i].params] = 0
         /\ executions' = [executions EXCEPT ![backlog[s][i].params] = 1]
<1> DEFINE a == <<"net", s>>
           b == <<"res", s>>
           m == backlog[s][i]
           x == m.params
<1>1. Moves(a, i, b, m)
  BY ExecuteMoves
<1>2. /\ a \in Place /\ Queues[a] = backlog[s]
      /\ m.type = "SERVICE_REQUEST" /\ Carries(m) /\ CallIn(m) = x
  BY Places DEF Execute, Serving, Carries, CallIn, Procs
<1>3. i \in DOMAIN Queues[a] /\ Queues[a][i] = m
  BY <1>1, <1>2 DEF Moves
<1>4. x \in Call
  BY <1>2, <1>3, QueuesType
<1>5. Pending(x) /\ executions[x] = Done(a, m)
  BY <1>2, <1>3 DEF TokensOK, TokenOK
<1>6. Done(a, m) = 0 /\ Done(b, m) = 1
  BY <1>2 DEF Done
<1>7. /\ executions' = [executions EXCEPT ![x] = @ + 1]
      /\ executions \in [Call -> Nat]
  BY DEF Execute, IInv, ServerInv, ServerTypeOK
<1>8. executions[x] = 0 /\ executions'[x] = 1
  BY <1>4, <1>5, <1>6, <1>7
<1>9. executions' = [executions EXCEPT ![x] = 1]
  BY <1>4, <1>7, <1>8
<1>10. \A y \in Call : /\ y # x => executions'[y] = executions[y]
                       /\ Pending(y) => Pending(y)'
  BY <1>7 DEF Pending, clientVars
<1>11. executions'[CallIn(m)] = Done(b, m)
  BY <1>2, <1>6, <1>8
<1>12. Unique(Queues)' /\ TokensOK(Queues)'
  <2> HIDE DEF a, b, m, x
  <2> QED
    BY <1>1, <1>2, <1>10, <1>11, MoveStep
<1> QED
  BY <1>4, <1>5, <1>8, <1>9, <1>12

\* Sending a result moves it to the queue of the broker.
LEMMA SendResultMoves ==
  ASSUME IInv, NEW s \in Servers, NEW j \in 1..Len(results[s]),
         SendResult(s, j), broker \in listening
  PROVE  /\ Moves(<<"res", s>>, j, <<"net", broker>>,
                  pack_client_response_data(results[s][j]))
         /\ results[s][j] \in Request /\ Queues[<<"res", s>>][j] = results[s][j]
<1> DEFINE a == <<"res", s>>
           b == <<"net", broker>>
           o == results[s][j]
           m == pack_client_response_data(o)
<1>1. s \in Procs /\ broker \in Procs /\ s # broker
  BY NetworkAssumption DEF Procs
<1>2. /\ a \in Place /\ b \in Place /\ a # b
      /\ Queues[a] = results[s] /\ Queues[b] = backlog[broker]
  BY <1>1, Places
<1>3. results[s] \in Seq(Request)
  BY DEF IInv, ServerInv, ServerTypeOK
<1>4. o \in Request /\ j \in DOMAIN Queues[a] /\ Queues[a][j] = o
  BY <1>2, <1>3
<1>5. Carries(o) /\ CallIn(o) = o.params
  BY <1>4 DEF Request, Carries, CallIn
<1>6. m \in Message /\ Carries(m) /\ CallIn(m) = CallIn(o)
  BY <1>4, <1>5 DEF pack_client_response_data, Message, Request, Response,
                    Carries, CallIn
<1>7. results[s] \in Seq(Message) /\ backlog[s] \in Seq(Message)
  BY <1>1, <1>2, QueuesType DEF IInv, NetInv, NetTypeOK
<1>8. Part(Without(results[s], j), Queues[a], j)
  BY <1>2, <1>7, PartWithout
<1>9. /\ \A p \in Procs : backlog'[p] =
                            IF p = broker THEN Append(backlog[broker], m)
                            ELSE backlog[p]
      /\ \A t \in Servers : results'[t] =
                              IF t = s THEN Without(results[s], j)
                              ELSE results[t]
  BY <1>1 DEF SendResult, send_req, IInv, NetInv, NetTypeOK, ServerInv,
              ServerTypeOK
<1>10. Queues'[b] = Append(Queues[b], m) /\ Part(Queues'[a], Queues[a], j)
  BY <1>1, <1>2, <1>8, <1>9, PlacesNext
<1>11. \A l \in Place \ {a, b} : Queues'[l] = Queues[l]
  BY <1>9, Places, PlacesNext
<1> HIDE DEF a, b, o, m
<1>12. Moves(a, j, b, m)
  BY <1>2, <1>4, <1>5, <1>6, <1>10, <1>11 DEF Moves
<1> QED
  BY <1>4, <1>12 DEF a, b, o, m

LEMMA SendResultStep ==
  ASSUME IInv, Unique(Queues), TokensOK(Queues), NEW s \in Servers,
         NEW j \in 1..Len(results[s]), SendResult(s, j), broker \in listening,
         UNCHANGED clientVars
  PROVE  Unique(Queues)' /\ TokensOK(Queues)'
<1> DEFINE a == <<"res", s>>
           b == <<"net", broker>>
           o == results[s][j]
           m == pack_client_response_data(o)
<1>1. Moves(a, j, b, m) /\ Queues[a][j] = o
  BY SendResultMoves
<1>2. executions[CallIn(o)] = Done(a, o)
  BY <1>1 DEF Moves, TokensOK, TokenOK
<1>3. Done(a, o) = 1 /\ Done(b, m) = 1
  BY DEF Done, pack_client_response_data
<1>4. UNCHANGED executions /\ \A y \in Call : Pending(y) => Pending(y)'
  BY DEF SendResult, Pending, clientVars
<1>5. executions'[CallIn(m)] = Done(b, m)
  BY <1>1, <1>2, <1>3, <1>4 DEF Moves
<1> HIDE DEF a, b, m, o
<1> QED
  BY <1>1, <1>4, <1>5, MoveStep

\* All other steps of a server are quiet.
LEMMA ServerQuiet ==
  ASSUME IInv, NEW s \in Servers, ServerNext(s),
         ~(\E i \in 1..Len(backlog[s]) : Execute(s, i)),
         ~(/\ broker \in listening
           /\ \E j \in 1..Len(results[s]) : SendResult(s, j))
  PROVE  /\ NetQuiet
         /\ \A t \in Servers : results'[t] = results[t] \/ results'[t] = <<>>
         /\ UNCHANGED executions
<1>1. s \in Procs /\ broker \in Procs /\ s # broker
  BY NetworkAssumption DEF Procs
<1>2. results = [t \in Servers |-> results[t]] /\ backlog[s] \in Seq(Message)
  BY <1>1 DEF IInv, ServerInv, ServerTypeOK, NetInv, NetTypeOK
<1>3. CASE ServerStart(s) \/ ServerBind(s)
  BY <1>3, QuietKept DEF ServerStart, ServerBind
<1>4. CASE ServerRegister(s) /\ broker \in listening
  <2>1. RegistrationOf(s) \in Message /\ ~Carries(RegistrationOf(s))
    BY ProtocolAssumption
       DEF RegistrationOf, Message, Registration, Carries
  <2>2. Part(backlog[s], backlog[s], 0)
    BY <1>2, PartSame
  <2>3. /\ backlog' = [backlog EXCEPT ![s] = backlog[s],
                         ![broker] = Append(@, RegistrationOf(s))]
        /\ UNCHANGED <<results, executions>>
    BY <1>4 DEF ServerRegister, send_req
  <2>4. NetQuiet
    BY <1>1, <2>1, <2>2, <2>3, QuietPut
  <2> QED
    BY <2>3, <2>4
<1>5. CASE ServerExit(s) /\ (netError(s) \/ netErrorMidSend(s, broker))
  BY <1>1, <1>2, <1>5, QuietExit, QuietMidSend DEF ServerExit
<1>6. ASSUME NEW i \in 1..Len(backlog[s]),
             ReceiveAck(s, i) \/ DropUnregistered(s, i)
      PROVE  NetQuiet /\ UNCHANGED <<results, executions>>
  <2>1. Part(Accepted(s, i), backlog[s], 0)
    BY <1>2, PartWithout, PartWeaken DEF Accepted
  <2> QED
    BY <1>1, <1>6, <2>1, QuietTake
       DEF ReceiveAck, DropUnregistered, Discard, serverVars
<1> QED
  BY <1>3, <1>4, <1>5, <1>6
     DEF ServerNext, ServerMain, ServerRegister, ServerThread, SendResult,
         ServerTruncated, ServerTimeout, ServerKilled, ServerStops

LEMMA ServerStepTokens ==
  ASSUME IInv, Unique(Queues), TokensOK(Queues),
         NEW s \in Servers, ServerStep(s)
  PROVE  Unique(Queues)' /\ TokensOK(Queues)'
<1>1. UNCHANGED clientVars /\ ServerNext(s)
  BY DEF ServerStep
<1>2. \A x \in Call : Pending(x) => Pending(x)'
  BY <1>1 DEF Pending, clientVars
<1> QED
  BY <1>1, <1>2, ExecuteStep, SendResultStep, ServerQuiet, QuietNetStep

-----------------------------------------------------------------------------
(* The steps of a client.                                                  *)

\* Client d is as it was.
SameClient(d) ==
  /\ clientPc'[d] = clientPc[d] /\ callNo'[d] = callNo[d]
  /\ unsent'[d] = unsent[d] /\ replies'[d] = replies[d]
  /\ runs'[d] = runs[d]

OnlyClient(c) == \A d \in Clients \ {c} : SameClient(d)

LEMMA OthersKept ==
  ASSUME DeliveryInv, NEW c \in Clients, OnlyClient(c), CallerOK(c)'
  PROVE  \A d \in Clients : CallerOK(d)'
<1>1. ASSUME NEW d \in Clients, d # c
      PROVE  CallerOK(d)'
  BY <1>1 DEF DeliveryInv, OnlyClient, SameClient, CallerOK
<1> QED
  BY <1>1

\* What is known of a client, and of its calls.
LEMMA CallerFacts ==
  ASSUME IInv, DeliveryInv, NEW c \in Clients
  PROVE  /\ c \in Procs /\ broker \in Procs /\ c # broker
         /\ CallerOK(c) /\ ClientOK(c) /\ ClientFunctions
         /\ runs \in [Procs -> 0..MaxRuns] /\ runs[c] \in Nat
         /\ callNo[c] \in Nat /\ callNo[c] <= MaxCalls /\ MaxCalls \in Nat
         /\ replies[c] \in Seq(Call) /\ Len(replies[c]) \in Nat
<1>1. /\ c \in Procs /\ broker \in Procs /\ c # broker
      /\ ClientOK(c) /\ ClientFunctions
  BY ClientFactsOf DEF IInv
<1>2. CallerOK(c)
  BY DEF DeliveryInv
<1>3. /\ runs \in [Procs -> 0..MaxRuns]
      /\ callNo[c] \in 0..MaxCalls /\ replies[c] \in Seq(Call)
  BY DEF IInv, NetInv, NetTypeOK, ClientInv, ClientTypeOK
<1>4. MaxCalls \in Nat /\ runs[c] \in Nat
  BY <1>1, <1>3, ProtocolAssumption
<1> QED
  BY <1>1, <1>2, <1>3, <1>4

\* A sending thread that has not run sends the call its client waits for.
LEMMA SenderFacts ==
  ASSUME IInv, DeliveryInv, NEW c \in Clients, NEW k \in unsent[c]
  PROVE  /\ FrameLive(c, k) /\ k = callNo[c] /\ runs[c] = 1
         /\ Len(replies[c]) + 1 = callNo[c]
         /\ CallOf(c, k) \in Call /\ CallOf(c, k).run = 1
<1>1. /\ k = callNo[c] /\ clientPc[c] \in {"bind", "wait"}
      /\ runs[c] = 1 /\ Len(replies[c]) + 1 = callNo[c]
  BY CallerFacts DEF CallerOK, ClientOK
<1>2. callNo[c] \in 1..MaxCalls /\ runs[c] \in 1..MaxRuns
  BY <1>1, CallerFacts
<1> QED
  BY <1>1, <1>2 DEF FrameLive, CallOf, Call

\* The steps of a client.
LEMMA ClientSteps ==
  ASSUME IInv, DeliveryInv, NEW c \in Clients, ClientNext(c)
  PROVE  \/ ClientStart(c)
         \/ CallStub(c)
         \/ ClientBind(c)
         \/ ReceiveResponse(c)
         \/ broker \in listening /\ \E k \in unsent[c] : SendRequest(c, k)
         \/ \E k \in sent[c] : ThreadReturns(c, k)
         \/ ClientExit(c) /\ (netError(c) \/ netErrorMidSend(c, broker))
<1>1. \A k \in unsent[c] : ~SendDangling(c, k)
  BY SenderFacts DEF SendDangling
<1> QED
  BY <1>1
     DEF ClientNext, ClientMain, ClientSender, ClientTruncated, ClientTimeout,
         ClientFinish, ClientKilled, ClientStops, SendRequest

\* A step of a client that makes no packet about a call.
LEMMA ClientQuietStep ==
  ASSUME IInv, DeliveryInv, NEW c \in Clients, NetQuiet,
         UNCHANGED serverVars, OnlyClient(c), CallerOK(c)',
         \A x \in Call : x.client = c => (Pending(x) => Pending(x)'),
         \A x \in Call :
           x.client = c /\ (x.seq > callNo'[c] \/ x.seq \in unsent'[c])
             => x.seq > callNo[c] \/ x.seq \in unsent[c]
  PROVE  DeliveryInv'
<1>1. \A x \in Call : x.client # c => (Pending(x) => Pending(x)')
  BY DEF Pending, OnlyClient, SameClient, Call
<1>2. Unique(Queues)' /\ TokensOK(Queues)'
  BY <1>1, QuietNetStep DEF DeliveryInv, serverVars
<1>3. UnsentOK'
  <2> SUFFICES ASSUME NEW x \in Call,
                      x.seq > callNo'[x.client] \/ x.seq \in unsent'[x.client]
               PROVE  executions'[x] = 0
    BY DEF UnsentOK
  <2>1. x.client \in Clients
    BY DEF Call
  <2>2. x.seq > callNo[x.client] \/ x.seq \in unsent[x.client]
    BY <2>1 DEF OnlyClient, SameClient
  <2> QED
    BY <2>2 DEF DeliveryInv, UnsentOK, serverVars
<1> QED
  BY <1>2, <1>3, OthersKept DEF DeliveryInv

\* The end of a client.
LEMMA ClientExitStep ==
  ASSUME IInv, DeliveryInv, NEW c \in Clients, ClientExit(c),
         netError(c) \/ netErrorMidSend(c, broker), UNCHANGED serverVars
  PROVE  DeliveryInv'
<1>1. NetQuiet
  BY CallerFacts, QuietExit, QuietMidSend
<1>2. /\ clientPc'[c] = "down" /\ unsent'[c] = {}
      /\ callNo' = callNo /\ replies' = replies /\ runs' = runs
  BY CallerFacts DEF ClientExit, ClientFunctions, netError, netErrorMidSend
<1>3. OnlyClient(c)
  BY <1>2, CallerFacts DEF ClientExit, OnlyClient, SameClient, ClientFunctions
<1>4. CallerOK(c)'
  BY <1>2, CallerFacts DEF CallerOK
<1>5. \A x \in Call : x.client = c => (Pending(x) => Pending(x)')
  BY <1>2 DEF Pending
<1> QED
  BY <1>1, <1>2, <1>3, <1>4, <1>5, ClientQuietStep

\* A client is started when nothing of it is on its way.
LEMMA ClientStartStep ==
  ASSUME IInv, DeliveryInv, NoClientRestart, NEW c \in Clients,
         ClientStart(c), UNCHANGED serverVars
  PROVE  /\ DeliveryInv'
         /\ UNCHANGED <<callNo, replies>>
<1>1. NetQuiet
  BY QuietKept DEF ClientStart
<1>2. runs[c] = 0 /\ callNo[c] = 0 /\ replies[c] = <<>>
  BY CallerFacts DEF ClientStart, Launch, NoClientRestart, CallerOK
<1>3. /\ clientPc'[c] = "idle" /\ unsent'[c] = {} /\ callNo'[c] = 0
      /\ replies'[c] = <<>> /\ runs'[c] = 1
  BY <1>2, CallerFacts DEF ClientStart, Launch, ClientFunctions
<1>4. OnlyClient(c)
  BY CallerFacts
     DEF ClientStart, Launch, OnlyClient, SameClient, ClientFunctions, Procs
<1>5. CallerOK(c)'
  BY <1>3 DEF CallerOK
<1>6. \A x \in Call : x.client = c => ~Pending(x)
  BY <1>2 DEF Pending, Call
<1>7. DeliveryInv'
  BY <1>1, <1>2, <1>3, <1>4, <1>5, <1>6, ClientQuietStep
<1>8. UNCHANGED <<callNo, replies>>
  <2>1. callNo' = [callNo EXCEPT ![c] = 0] /\ replies' = [replies EXCEPT ![c] = <<>>]
    BY DEF ClientStart
  <2> QED
    BY <1>2, <2>1, CallerFacts DEF ClientFunctions
<1> QED
  BY <1>7, <1>8

\* A call is made when the one before has returned.
LEMMA CallStubStep ==
  ASSUME IInv, DeliveryInv, NEW c \in Clients, CallStub(c),
         UNCHANGED serverVars
  PROVE  DeliveryInv'
<1>1. NetQuiet
  BY QuietKept DEF CallStub, netVars
<1>2. /\ clientPc[c] = "idle" /\ Len(replies[c]) = callNo[c]
      /\ unsent[c] = {} /\ runs[c] = 1
  BY CallerFacts DEF CallStub, CallerOK, ClientOK
<1>3. /\ clientPc'[c] = "bind" /\ unsent'[c] = {callNo[c] + 1}
      /\ callNo'[c] = callNo[c] + 1 /\ replies' = replies /\ runs' = runs
  BY <1>2, CallerFacts DEF CallStub, ClientFunctions, netVars
<1>4. OnlyClient(c)
  BY <1>3, CallerFacts DEF CallStub, OnlyClient, SameClient, ClientFunctions
<1>5. CallerOK(c)'
  BY <1>2, <1>3, CallerFacts DEF CallerOK
<1>6. \A x \in Call : x.client = c => ~Pending(x)
  BY <1>2, CallerFacts DEF Pending
<1>7. \A x \in Call :
        x.client = c /\ (x.seq > callNo'[c] \/ x.seq \in unsent'[c])
          => x.seq > callNo[c]
  BY <1>3, CallerFacts DEF Call
<1> QED
  BY <1>1, <1>4, <1>5, <1>6, <1>7, ClientQuietStep

LEMMA ClientBindStep ==
  ASSUME IInv, DeliveryInv, NEW c \in Clients, ClientBind(c),
         UNCHANGED serverVars
  PROVE  DeliveryInv'
<1>1. NetQuiet
  BY QuietKept DEF ClientBind
<1>2. /\ clientPc[c] = "bind" /\ clientPc'[c] = "wait"
      /\ unsent' = unsent /\ callNo' = callNo /\ replies' = replies
      /\ runs' = runs
  BY CallerFacts DEF ClientBind, ClientFunctions
<1>3. OnlyClient(c)
  BY <1>2, CallerFacts DEF ClientBind, OnlyClient, SameClient, ClientFunctions
<1>4. CallerOK(c)'
  BY <1>2, CallerFacts DEF CallerOK
<1> QED
  BY <1>1, <1>2, <1>3, <1>4, ClientQuietStep DEF Pending

\* What a thread does after it has sent touches nothing of a call.
LEMMA ThreadReturnsStep ==
  ASSUME IInv, DeliveryInv, NEW c \in Clients, NEW k, ThreadReturns(c, k),
         UNCHANGED serverVars
  PROVE  DeliveryInv'
<1>1. NetQuiet
  BY QuietKept DEF ThreadReturns, netVars
<1>2. UNCHANGED <<runs, clientPc, unsent, callNo, replies>>
  BY DEF ThreadReturns, netVars
<1>3. OnlyClient(c)
  BY <1>2 DEF OnlyClient, SameClient
<1>4. CallerOK(c)'
  BY <1>2, CallerFacts DEF CallerOK
<1> QED
  BY <1>1, <1>2, <1>3, <1>4, ClientQuietStep DEF Pending

\* The request of a call is the first packet about it.
LEMMA SendRequestStep ==
  ASSUME IInv, DeliveryInv, NEW c \in Clients, NEW k \in unsent[c],
         SendRequest(c, k), broker \in listening, UNCHANGED serverVars
  PROVE  DeliveryInv'
<1>0. PICK x : x = CallOf(c, k)
  OBVIOUS
<1> DEFINE m == pack_client_request_data(x)
           b == <<"net", broker>>
<1>1. /\ unsent'[c] = unsent[c] \ {k}
      /\ UNCHANGED <<clientPc, callNo, replies, runs>>
      /\ backlog' = [backlog EXCEPT ![c] = backlog[c], ![broker] = Append(@, m)]
  BY <1>0, CallerFacts DEF SendRequest, HasSent, send_req, ClientFunctions
<1>2. OnlyClient(c)
  BY <1>1, CallerFacts
     DEF SendRequest, HasSent, OnlyClient, SameClient, ClientFunctions
<1>3. CallerOK(c)'
  BY <1>1, CallerFacts DEF CallerOK
<1>4. /\ x \in Call /\ x.run = 1 /\ x.client = c /\ x.seq = k /\ k = callNo[c]
      /\ Len(replies[c]) + 1 = k /\ k \in Nat
  BY <1>0, SenderFacts, CallerFacts DEF CallOf
<1>5. m \in Message /\ Carries(m) /\ CallIn(m) = x /\ Done(b, m) = 0
  <2>1. m \in Sound(broker)
    <3>1. k \in 1..callNo[c] /\ runs[c] # 0
      BY SenderFacts, CallerFacts DEF ClientOK
    <3> QED
      BY <1>0, <3>1, CallSound DEF IInv
  <2>2. m.type = "SERVICE_REQUEST" /\ m.params = x
    BY DEF pack_client_request_data
  <2> QED
    BY <2>1, <2>2, SoundMessage, CallerFacts DEF Carries, CallIn, Done
<1>6. ~Pending(x) /\ executions[x] = 0
  BY <1>4 DEF Pending, DeliveryInv, UnsentOK
<1>7. Pending(x)'
  BY <1>1, <1>4, CallerFacts DEF Pending
<1>8. \A y \in Call : Pending(y) => Pending(y)'
  <2> SUFFICES ASSUME NEW y \in Call, Pending(y) PROVE Pending(y)'
    OBVIOUS
  <2>1. y.client \in Clients /\ unsent'[y.client] \subseteq unsent[y.client]
    BY <1>1, <1>2 DEF OnlyClient, SameClient, Call
  <2> QED
    BY <1>1, <2>1 DEF Pending
<1>9. b \in Place /\ Queues[b] = backlog[broker]
  BY CallerFacts, Places
<1>10. \A p \in Procs : backlog'[p] = IF p = broker THEN Append(backlog[broker], m)
                                      ELSE backlog[p]
  BY <1>1, CallerFacts DEF IInv, NetInv, NetTypeOK
<1>11. Queues'[b] = Append(Queues[b], m)
  BY <1>9, <1>10, CallerFacts, PlacesNext
<1>12. ASSUME NEW l \in Place \ {b}
       PROVE  Queues'[l] = Queues[l]
  BY <1>10, Places, PlacesNext DEF serverVars
<1>13. ASSUME NEW l \in Place \ {b}
       PROVE  Part(Queues'[l], Queues[l], 0)
  BY <1>12, QueuesType, PartSame
<1>14. ASSUME NEW l \in Place, NEW j \in DOMAIN Queues[l], Carries(Queues[l][j])
       PROVE  CallIn(Queues[l][j]) # x
  BY <1>6, <1>14 DEF DeliveryInv, TokensOK, TokenOK
<1>15. UNCHANGED executions
  BY DEF serverVars
<1>16. Unique(Queues)' /\ TokensOK(Queues)'
  <2> HIDE DEF b, m
  <2> QED
    BY <1>5, <1>6, <1>7, <1>8, <1>9, <1>11, <1>12, <1>13, <1>14, <1>15, AddStep
       DEF DeliveryInv
<1>17. UnsentOK'
  <2> SUFFICES ASSUME NEW y \in Call,
                      y.seq > callNo'[y.client] \/ y.seq \in unsent'[y.client]
               PROVE  executions'[y] = 0
    BY DEF UnsentOK
  <2>1. y.client \in Clients /\ unsent'[y.client] \subseteq unsent[y.client]
    BY <1>1, <1>2 DEF OnlyClient, SameClient, Call
  <2> QED
    BY <1>1, <1>15, <2>1 DEF DeliveryInv, UnsentOK
<1> QED
  BY <1>2, <1>3, <1>16, <1>17, OthersKept DEF DeliveryInv

\* What a client takes is the result of the call it waits for.
LEMMA TakenFacts ==
  ASSUME IInv, DeliveryInv, NoCollision, NEW c \in Clients, ReceiveResponse(c)
  PROVE  LET m == Head(backlog[c])
         IN  /\ 1 \in DOMAIN backlog[c] /\ backlog[c][1] = m
             /\ Carries(m) /\ CallIn(m) = m.reply
             /\ m.reply \in Call
             /\ m.reply = [client |-> c, run |-> 1, seq |-> callNo[c]]
             /\ Pending(m.reply) /\ executions[m.reply] = 1
             /\ Len(replies[c]) + 1 = callNo[c]
<1> DEFINE m == Head(backlog[c])
<1>1. /\ backlog[c] \in Seq(Sound(c)) /\ backlog[c] # <<>>
      /\ m.type = "SERVICE_REQUEST_RESPONSE"
  BY CallerFacts DEF ReceiveResponse, IInv, NetInv
<1>2. 1 \in DOMAIN backlog[c] /\ backlog[c][1] = m /\ m \in Sound(c)
  BY <1>1
<1>3. Carries(m) /\ CallIn(m) = m.reply /\ m.reply \in Call
  BY <1>1, <1>2, MessageKinds DEF Sound, Carries, CallIn, Response
<1>4. m.reply.client = c
  BY <1>1, <1>2 DEF Sound
<1>5. TokenOK(<<"net", c>>, m)
  BY <1>2, CallerFacts, Places DEF DeliveryInv, TokensOK
<1>6. Pending(m.reply) /\ executions[m.reply] = 1
  BY <1>1, <1>3, <1>5 DEF TokenOK, Done
<1>7. m.reply = [client |-> c, run |-> 1, seq |-> callNo[c]]
  BY <1>3, <1>4, <1>6 DEF Pending, Call
<1>8. Len(replies[c]) + 1 = callNo[c]
  BY CallerFacts DEF ReceiveResponse, CallerOK
<1> QED
  BY <1>2, <1>3, <1>6, <1>7, <1>8

LEMMA ReceiveResponseStep ==
  ASSUME IInv, DeliveryInv, NoCollision, NEW c \in Clients,
         ReceiveResponse(c), UNCHANGED serverVars
  PROVE  DeliveryInv'
<1> DEFINE x == Head(backlog[c]).reply
           a == <<"net", c>>
<1>1. /\ x \in Call /\ x = [client |-> c, run |-> 1, seq |-> callNo[c]]
      /\ Pending(x)
      /\ 1 \in DOMAIN backlog[c] /\ Carries(backlog[c][1])
      /\ CallIn(backlog[c][1]) = x
      /\ Len(replies[c]) + 1 = callNo[c]
  BY TakenFacts
<1>2. /\ clientPc'[c] = "idle" /\ unsent' = unsent /\ callNo' = callNo
      /\ replies'[c] = Append(replies[c], x) /\ runs' = runs
      /\ backlog' = [backlog EXCEPT ![c] = <<>>]
  BY CallerFacts DEF ReceiveResponse, ClientFunctions
<1>3. OnlyClient(c)
  BY <1>2, CallerFacts
     DEF ReceiveResponse, OnlyClient, SameClient, ClientFunctions
<1>4. CallerOK(c)'
  <2>1. unsent[c] = {}
    BY <1>1, CallerFacts DEF CallerOK, Pending
  <2>2. /\ Len(replies'[c]) = callNo[c]
        /\ \A i \in 1..callNo[c] :
             replies'[c][i] = IF i = callNo[c] THEN x ELSE replies[c][i]
    BY <1>1, <1>2, CallerFacts
  <2>3. ASSUME NEW i \in 1..callNo[c]
        PROVE  replies'[c][i] = [client |-> c, run |-> 1, seq |-> i]
    <3>1. CASE i = callNo[c]
      BY <1>1, <2>2, <3>1
    <3>2. CASE i # callNo[c]
      <4>1. i \in 1..Len(replies[c])
        BY <1>1, <3>2, CallerFacts
      <4> QED
        BY <2>2, <3>2, <4>1, CallerFacts DEF CallerOK
    <3> QED
      BY <3>1, <3>2
  <2>4. callNo[c] # 0 /\ runs[c] <= 1
    BY <1>1, CallerFacts DEF CallerOK
  <2>5. runs[c] # 0
    BY <2>4, CallerFacts DEF CallerOK
  <2> QED
    BY <1>2, <2>1, <2>2, <2>3, <2>4, <2>5, CallerFacts DEF CallerOK
<1>5. a \in Place /\ Queues[a] = backlog[c]
  BY CallerFacts, Places
<1>6. Queues'[a] = <<>>
  BY <1>2, CallerFacts, PlacesNext DEF IInv, NetInv, NetTypeOK
<1>7. ASSUME NEW l \in Place, l # a
      PROVE  Queues'[l] = Queues[l]
  BY <1>2, <1>7, CallerFacts, Places, PlacesNext
     DEF serverVars, IInv, NetInv, NetTypeOK
<1>8. Part(Queues'[a], Queues[a], 1)
  BY <1>5, <1>6, QueuesType, PartNone
<1>9. ASSUME NEW l \in Place
      PROVE  Part(Queues'[l], Queues[l], 0)
  BY <1>5, <1>6, <1>7, QueuesType, PartNone, PartSame
<1>10. \A y \in Call : y # x /\ Pending(y) => Pending(y)'
  <2> SUFFICES ASSUME NEW y \in Call, y # x, Pending(y) PROVE Pending(y)'
    OBVIOUS
  <2>1. y.client # c
    BY <1>1 DEF Pending, Call
  <2> QED
    BY <1>3, <2>1 DEF Pending, OnlyClient, SameClient, Call
<1>11. Unique(Queues)'
  BY <1>9, PartsUnique DEF Unique, DeliveryInv
<1>12. ASSUME NEW l \in Place, NEW i \in DOMAIN Queues'[l], NEW o,
              o = Queues'[l][i], Carries(o)
       PROVE  TokenOK(l, o)'
  <2>1. CallIn(o) # x
    BY <1>1, <1>5, <1>8, <1>9, <1>12, PartsLeave DEF DeliveryInv
  <2>2. PICK n \in DOMAIN Queues[l] : Queues[l][n] = o
    BY <1>9, <1>12, PartsOrigin
  <2>3. /\ Pending(CallIn(o)) /\ executions[CallIn(o)] = Done(l, o)
        /\ CallIn(o) \in Call
    BY <1>12, <2>2, QueuesType DEF DeliveryInv, TokensOK, TokenOK
  <2> QED
    BY <1>10, <2>1, <2>3 DEF TokenOK, Done, serverVars
<1>13. TokensOK(Queues)'
  BY <1>12 DEF TokensOK, TokenOK
<1>14. UnsentOK'
  BY <1>2 DEF DeliveryInv, UnsentOK, serverVars
<1> QED
  BY <1>3, <1>4, <1>11, <1>13, <1>14, OthersKept DEF DeliveryInv

-----------------------------------------------------------------------------
(* The invariant.                                                          *)

LEMMA DeliveryInit == Init => DeliveryInv
<1> SUFFICES ASSUME Init PROVE DeliveryInv
  OBVIOUS
<1>1. \A p \in Procs : backlog[p] = <<>>
  BY DEF Init, NetInit
<1>2. \A s \in Servers : results[s] = <<>>
  BY DEF Init, ServerInit
<1>3. \A l \in Place : DOMAIN Queues[l] = {}
  BY <1>1, <1>2, Places
<1>4. Unique(Queues) /\ TokensOK(Queues)
  BY <1>3 DEF Unique, TokensOK
<1>5. UnsentOK
  BY DEF Init, ServerInit, UnsentOK
<1>6. ASSUME NEW c \in Clients
      PROVE  CallerOK(c)
  <2>1. /\ clientPc[c] = "down" /\ callNo[c] = 0 /\ unsent[c] = {}
        /\ replies[c] = <<>> /\ runs[c] = 0
    BY DEF Init, NetInit, ClientInit, Procs
  <2> QED
    BY <2>1 DEF CallerOK
<1> QED
  BY <1>4, <1>5, <1>6 DEF DeliveryInv

\* The steps of the others leave the clients and what they have not sent.
LEMMA CallersUnchanged ==
  ASSUME DeliveryInv, UNCHANGED clientVars,
         \A c \in Clients : runs'[c] = runs[c]
  PROVE  \A c \in Clients : CallerOK(c)'
BY DEF DeliveryInv, CallerOK, clientVars

\* A server carries out calls that have been sent.
LEMMA UnsentStep ==
  ASSUME IInv, DeliveryInv, NEW s \in Servers, ServerStep(s)
  PROVE  UnsentOK'
<1>1. UNCHANGED clientVars /\ ServerNext(s)
  BY DEF ServerStep
<1>2. CASE UNCHANGED executions
  BY <1>1, <1>2 DEF DeliveryInv, UnsentOK, clientVars
<1>3. ASSUME NEW i \in 1..Len(backlog[s]), Execute(s, i)
      PROVE  UnsentOK'
  <2> DEFINE x == backlog[s][i].params
  <2>1. /\ x \in Call /\ Pending(x)
        /\ executions' = [executions EXCEPT ![x] = 1]
    BY <1>1, <1>3, ExecuteStep DEF DeliveryInv
  <2>2. executions \in [Call -> Nat] /\ x.client \in Clients
    BY <2>1 DEF IInv, ServerInv, ServerTypeOK, Call
  <2>3. ~(x.seq > callNo[x.client] \/ x.seq \in unsent[x.client])
    BY <2>1, <2>2, CallerFacts DEF Pending
  <2>4. \A y \in Call : y # x => executions'[y] = executions[y]
    BY <2>1, <2>2
  <2> HIDE DEF x
  <2> QED
    BY <1>1, <2>3, <2>4 DEF DeliveryInv, UnsentOK, clientVars
<1>4. ASSUME NEW j \in 1..Len(results[s]), SendResult(s, j), broker \in listening
      PROVE  UNCHANGED executions
  BY <1>4 DEF SendResult
<1> QED
  BY <1>1, <1>2, <1>3, <1>4, ServerQuiet

LEMMA DeliveryNext ==
  ASSUME NoCollision, NoClientRestart, IInv, DeliveryInv, [Next]_vars
  PROVE  DeliveryInv'
<1>1. CASE BrokerStep
  <2>1. Unique(Queues)' /\ TokensOK(Queues)'
    BY <1>1, BrokerStepTokens DEF DeliveryInv
  <2>2. UnsentOK'
    BY <1>1 DEF BrokerStep, DeliveryInv, UnsentOK, serverVars, clientVars
  <2>3. \A c \in Clients : CallerOK(c)'
    BY <1>1, RunsKept, CallersUnchanged DEF BrokerStep, IInv
  <2> QED
    BY <2>1, <2>2, <2>3 DEF DeliveryInv
<1>2. ASSUME NEW s \in Servers, ServerStep(s)
      PROVE  DeliveryInv'
  <2>1. Unique(Queues)' /\ TokensOK(Queues)'
    BY <1>2, ServerStepTokens DEF DeliveryInv
  <2>2. \A c \in Clients : CallerOK(c)'
    BY <1>2, RunsKept, CallersUnchanged DEF ServerStep, IInv
  <2> QED
    BY <1>2, <2>1, <2>2, UnsentStep DEF DeliveryInv
<1>3. ASSUME NEW c \in Clients, ClientStep(c)
      PROVE  DeliveryInv'
  BY <1>3, ClientSteps, ClientStartStep, CallStubStep, ClientBindStep,
     ReceiveResponseStep, SendRequestStep, ThreadReturnsStep, ClientExitStep
     DEF ClientStep
<1>4. CASE UNCHANGED vars
  <2>1. UNCHANGED <<netVars, serverVars, clientVars>>
    BY <1>4 DEF vars
  <2>2. Unique(Queues)' /\ TokensOK(Queues)'
    <3>1. NetQuiet
      BY <2>1, QuietKept DEF netVars
    <3>2. \A x \in Call : Pending(x) => Pending(x)'
      BY <2>1 DEF Pending, clientVars
    <3> QED
      BY <2>1, <3>1, <3>2, QuietNetStep DEF DeliveryInv, serverVars
  <2>3. UnsentOK'
    BY <2>1 DEF DeliveryInv, UnsentOK, serverVars, clientVars
  <2>4. \A c \in Clients : CallerOK(c)'
    BY <2>1, CallersUnchanged DEF netVars
  <2> QED
    BY <2>2, <2>3, <2>4 DEF DeliveryInv
<1> QED
  BY <1>1, <1>2, <1>3, <1>4 DEF Next

\* Every call is in one packet at most, which tells whether it has been
\* carried out, and its client has made no other since.
THEOREM Delivered ==
  NoCollision /\ NoClientRestart => (Spec => []DeliveryInv)
<1> SUFFICES ASSUME NoCollision, NoClientRestart PROVE Spec => []DeliveryInv
  OBVIOUS
<1>1. IInv /\ DeliveryInv /\ [Next]_vars => DeliveryInv'
  BY DeliveryNext
<1> QED
  BY <1>1, DeliveryInit, Invariance, PTL DEF Spec

\* A call does not return before its request has been sent, whenever broker and
\* servers end or are started: packet, address and port (common.c:20) are read
\* in the frame of the call.  Of verbose, read after the send, nothing is said.
THEOREM RequestsSentFromFrames ==
  NoCollision /\ NoClientRestart => (Spec => []SentFromFrame)
<1> SUFFICES ASSUME NoCollision, NoClientRestart PROVE Spec => []SentFromFrame
  OBVIOUS
<1>1. IInv /\ DeliveryInv => SentFromFrame
  BY SenderFacts DEF SentFromFrame
<1> QED
  BY <1>1, Delivered, Invariance, PTL

-----------------------------------------------------------------------------
(* A call is in one place.                                                 *)

\* What Traces holds for the i-th packet at l.
TraceOf(l, i) ==
  <<l[2],
    IF l[1] = "res" THEN "result"
    ELSE IF Queues[l][i].type = "SERVICE_REQUEST" THEN "request" ELSE "response",
    i>>

LEMMA TraceKinds ==
  ASSUME IInv, DeliveryInv, NEW x \in Call, NEW u \in Traces(x)
  PROVE  \/ u = <<x.client, "unsent", x.seq>> /\ x.seq \in unsent[x.client]
         \/ /\ u = <<x.client, "reply", x.seq>>
            /\ x.seq <= Len(replies[x.client])
         \/ \E l \in Place : \E i \in DOMAIN Queues[l] :
              /\ Carries(Queues[l][i]) /\ CallIn(Queues[l][i]) = x
              /\ u = TraceOf(l, i)
<1>1. CASE \E k \in unsent[x.client] :
             CallOf(x.client, k) = x /\ u = <<x.client, "unsent", k>>
  BY <1>1 DEF CallOf
<1>2. ASSUME NEW p \in Procs, NEW i \in DOMAIN backlog[p],
             \/ i \in RequestsOf(backlog[p], x) /\ u = <<p, "request", i>>
             \/ i \in ResponsesOf(backlog[p], x) /\ u = <<p, "response", i>>
      PROVE  \E l \in Place : \E n \in DOMAIN Queues[l] :
               /\ Carries(Queues[l][n]) /\ CallIn(Queues[l][n]) = x
               /\ u = TraceOf(l, n)
  <2> DEFINE l == <<"net", p>>
  <2>1. l \in Place /\ Queues[l] = backlog[p] /\ l[1] = "net" /\ l[2] = p
    BY Places
  <2>2. Carries(Queues[l][i]) /\ CallIn(Queues[l][i]) = x
    BY <1>2, <2>1 DEF RequestsOf, ResponsesOf, Carries, CallIn
  <2>3. u = TraceOf(l, i)
    BY <1>2, <2>1 DEF RequestsOf, ResponsesOf, TraceOf
  <2> QED
    BY <2>1, <2>2, <2>3
<1>3. ASSUME NEW s \in Servers, NEW i \in RequestsOf(results[s], x),
             u = <<s, "result", i>>
      PROVE  \E l \in Place : \E n \in DOMAIN Queues[l] :
               /\ Carries(Queues[l][n]) /\ CallIn(Queues[l][n]) = x
               /\ u = TraceOf(l, n)
  <2> DEFINE l == <<"res", s>>
  <2>1. l \in Place /\ Queues[l] = results[s] /\ l[1] = "res" /\ l[2] = s
    BY Places
  <2>2. i \in DOMAIN Queues[l] /\ Carries(Queues[l][i]) /\ CallIn(Queues[l][i]) = x
    BY <2>1 DEF RequestsOf, Carries, CallIn
  <2>3. u = TraceOf(l, i)
    BY <1>3, <2>1 DEF TraceOf
  <2> QED
    BY <2>1, <2>2, <2>3
<1>4. ASSUME NEW c \in Clients, NEW i \in DOMAIN replies[c], replies[c][i] = x,
             u = <<c, "reply", i>>
      PROVE  /\ u = <<x.client, "reply", x.seq>>
             /\ x.seq <= Len(replies[x.client])
  <2>1. i \in 1..Len(replies[c])
    BY CallerFacts
  <2>2. x = [client |-> c, run |-> 1, seq |-> i]
    BY <1>4, <2>1, CallerFacts DEF CallerOK
  <2> QED
    BY <1>4, <2>1, <2>2
<1> QED
  BY <1>1, <1>2, <1>3, <1>4 DEF Traces, RequestsOf, ResponsesOf

\* While it stands in one place it stands in no other.
LEMMA TraceUnique ==
  ASSUME IInv, DeliveryInv, NEW x \in Call,
         NEW u \in Traces(x), NEW v \in Traces(x)
  PROVE  u = v
<1>1. x.client \in Clients /\ x.seq \in Nat
  BY DEF Call
<1>2. x.seq \in unsent[x.client] =>
        ~Pending(x) /\ ~(x.seq <= Len(replies[x.client]))
  BY <1>1, SenderFacts, CallerFacts DEF Pending
<1>3. x.seq <= Len(replies[x.client]) => ~Pending(x)
  BY <1>1, CallerFacts DEF Pending
<1>4. \A l \in Place : \A i \in DOMAIN Queues[l] :
        Carries(Queues[l][i]) /\ CallIn(Queues[l][i]) = x => Pending(x)
  BY DEF DeliveryInv, TokensOK, TokenOK
<1>5. \A l, k \in Place : \A i \in DOMAIN Queues[l], j \in DOMAIN Queues[k] :
        (/\ Carries(Queues[l][i]) /\ CallIn(Queues[l][i]) = x
         /\ Carries(Queues[k][j]) /\ CallIn(Queues[k][j]) = x)
          => l = k /\ i = j
  BY DEF DeliveryInv, Unique
<1>6. \/ u = <<x.client, "unsent", x.seq>> /\ x.seq \in unsent[x.client]
      \/ /\ u = <<x.client, "reply", x.seq>>
         /\ x.seq <= Len(replies[x.client])
      \/ \E l \in Place : \E i \in DOMAIN Queues[l] :
           /\ Carries(Queues[l][i]) /\ CallIn(Queues[l][i]) = x
           /\ u = TraceOf(l, i)
  BY TraceKinds
<1>7. \/ v = <<x.client, "unsent", x.seq>> /\ x.seq \in unsent[x.client]
      \/ /\ v = <<x.client, "reply", x.seq>>
         /\ x.seq <= Len(replies[x.client])
      \/ \E l \in Place : \E i \in DOMAIN Queues[l] :
           /\ Carries(Queues[l][i]) /\ CallIn(Queues[l][i]) = x
           /\ v = TraceOf(l, i)
  BY TraceKinds
<1>8. CASE x.seq \in unsent[x.client]
  BY <1>2, <1>4, <1>6, <1>7, <1>8
<1>9. CASE x.seq <= Len(replies[x.client])
  BY <1>2, <1>3, <1>4, <1>6, <1>7, <1>9
<1>10. CASE /\ x.seq \notin unsent[x.client]
            /\ ~(x.seq <= Len(replies[x.client]))
  <2>1. PICK l \in Place : \E i \in DOMAIN Queues[l] :
          /\ Carries(Queues[l][i]) /\ CallIn(Queues[l][i]) = x
          /\ u = TraceOf(l, i)
    BY <1>6, <1>10
  <2>2. PICK i \in DOMAIN Queues[l] :
          /\ Carries(Queues[l][i]) /\ CallIn(Queues[l][i]) = x
          /\ u = TraceOf(l, i)
    BY <2>1
  <2>3. PICK k \in Place : \E j \in DOMAIN Queues[k] :
          /\ Carries(Queues[k][j]) /\ CallIn(Queues[k][j]) = x
          /\ v = TraceOf(k, j)
    BY <1>7, <1>10
  <2>4. PICK j \in DOMAIN Queues[k] :
          /\ Carries(Queues[k][j]) /\ CallIn(Queues[k][j]) = x
          /\ v = TraceOf(k, j)
    BY <2>3
  <2>5. l = k /\ i = j
    BY <1>5, <2>2, <2>4
  <2> QED
    BY <2>2, <2>4, <2>5
<1> QED
  BY <1>8, <1>9, <1>10

\* A call is in one place at most: no step of broker, server or client makes a
\* second request or response of it, whichever of them end in between.
THEOREM CallsInOnePlace ==
  NoCollision /\ NoClientRestart => (Spec => []CallAtOnePlace)
<1> SUFFICES ASSUME NoCollision, NoClientRestart PROVE Spec => []CallAtOnePlace
  OBVIOUS
<1>1. IInv /\ DeliveryInv => CallAtOnePlace
  <2> SUFFICES ASSUME IInv, DeliveryInv, NEW x \in Call
               PROVE  Cardinality(Traces(x)) <= 1
    BY DEF CallAtOnePlace
  <2>1. CASE Traces(x) = {}
    BY <2>1, FS_EmptySet
  <2>2. ASSUME NEW u \in Traces(x)
        PROVE  Cardinality(Traces(x)) <= 1
    <3>1. Traces(x) = {u}
      BY TraceUnique
    <3>2. Cardinality({u}) = 1
      BY FS_Singleton
    <3> QED
      BY <3>1, <3>2
  <2> QED
    BY <2>1, <2>2
<1> QED
  BY <1>1, Delivered, Invariance, PTL

-----------------------------------------------------------------------------
(* The promise of RpcService is kept.                                      *)

LEMMA InitMaps == Init => Promise!ServiceInit
BY DEF Init, ServerInit, ClientInit, Promise!ServiceInit, Call, Promise!Call

LEMMA StepMaps ==
  ASSUME NoCollision, NoClientRestart, IInv, DeliveryInv, [Next]_vars
  PROVE  [Promise!ServiceNext]_(Promise!serviceVars)
<1> USE DEF Promise!serviceVars
<1>1. CASE BrokerStep \/ UNCHANGED vars
  BY <1>1 DEF BrokerStep, vars, serverVars, clientVars
<1>2. ASSUME NEW s \in Servers, ServerStep(s)
      PROVE  [Promise!ServiceNext]_(Promise!serviceVars)
  <2>1. UNCHANGED clientVars /\ ServerNext(s)
    BY <1>2 DEF ServerStep
  <2>2. ASSUME NEW i \in 1..Len(backlog[s]), Execute(s, i)
        PROVE  Promise!ServiceNext
    <3> DEFINE x == backlog[s][i].params
    <3>1. /\ x \in Call /\ Pending(x) /\ executions[x] = 0
          /\ executions' = [executions EXCEPT ![x] = 1]
      BY <2>1, <2>2, ExecuteStep DEF DeliveryInv
    <3>2. /\ x = Promise!TheCall(x.client, x.seq)
          /\ x.client \in Clients /\ x.seq \in 1..MaxCalls
          /\ x.seq <= callNo[x.client]
      BY <3>1, CallerFacts DEF Call, Pending, Promise!TheCall
    <3> HIDE DEF x
    <3>3. Promise!Perform(x.client, x.seq)
      BY <2>1, <3>1, <3>2 DEF Promise!Perform, clientVars
    <3> QED
      BY <3>2, <3>3 DEF Promise!ServiceNext
  <2>3. CASE UNCHANGED executions
    BY <2>1, <2>3 DEF clientVars
  <2>4. ASSUME NEW j \in 1..Len(results[s]), SendResult(s, j),
               broker \in listening
        PROVE  UNCHANGED executions
    BY <2>4 DEF SendResult
  <2> QED
    BY <2>1, <2>2, <2>3, <2>4, ServerQuiet
<1>3. ASSUME NEW c \in Clients, ClientStep(c)
      PROVE  [Promise!ServiceNext]_(Promise!serviceVars)
  <2>1. UNCHANGED serverVars /\ ClientNext(c)
    BY <1>3 DEF ClientStep
  <2>2. CASE CallStub(c)
    <3>1. Len(replies[c]) = callNo[c]
      BY <2>2, CallerFacts DEF CallStub, CallerOK
    <3>2. Promise!Issue(c)
      BY <2>1, <2>2, <3>1 DEF CallStub, Promise!Issue, serverVars
    <3> QED
      BY <3>2 DEF Promise!ServiceNext
  <2>3. CASE ReceiveResponse(c)
    <3> DEFINE x == Head(backlog[c]).reply
    <3>1. /\ x \in Call /\ x = Promise!TheCall(c, callNo[c])
          /\ executions[x] = 1 /\ Len(replies[c]) < callNo[c]
      BY <2>3, TakenFacts, CallerFacts DEF Promise!TheCall
    <3>2. Promise!Return(c)
      BY <2>1, <2>3, <3>1 DEF ReceiveResponse, Promise!Return, serverVars
    <3> QED
      BY <3>2 DEF Promise!ServiceNext
  <2>4. CASE ClientStart(c)
    BY <2>1, <2>4, ClientStartStep DEF serverVars
  <2> QED
    BY <2>1, <2>2, <2>3, <2>4, ClientSteps
       DEF ClientBind, SendRequest, HasSent, ThreadReturns, ClientExit, serverVars
<1> QED
  BY <1>1, <1>2, <1>3 DEF Next

\* The system implements RpcService: every call is carried out at most once,
\* and returns only after that, with its own result.
THEOREM ImplementsService ==
  NoCollision /\ NoClientRestart => (Spec => PromiseKept)
<1> SUFFICES ASSUME NoCollision, NoClientRestart PROVE Spec => PromiseKept
  OBVIOUS
<1>1. IInv /\ DeliveryInv /\ [Next]_vars
        => [Promise!ServiceNext]_(Promise!serviceVars)
  BY StepMaps
<1> QED
  BY <1>1, InitMaps, Delivered, Invariance, PTL
     DEF Spec, PromiseKept, Promise!ServiceSpec
=============================================================================
