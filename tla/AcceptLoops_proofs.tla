------------------------- MODULE AcceptLoops_proofs -------------------------
(***************************************************************************)
(* Proof that the loops of broker and server do what modules Broker and    *)
(* Server take for one step, in both builds, for every number of calls and *)
(* of threads and every length of the accept queues.                       *)
(*                                                                         *)
(* The invariant is the one of a lock: what the broker has accepted and    *)
(* not closed is one connection while the holder of the lock handles it,   *)
(* and none otherwise.  So the connections of the broker, the one in its   *)
(* hands before those in its queue, are a queue of which only the head is  *)
(* handled.                                                                *)
(***************************************************************************)
EXTENDS AcceptLoops, Lists_proofs

LoopTypeOK ==
  /\ unsent \subseteq Calls
  /\ brokerQueue \in Seq(Connection)
  /\ brokerHands \in Seq(Connection)
  /\ serverQueue \in Seq(Connection)
  /\ serverHands \in Seq(Connection)

OneInHand ==
  /\ lock \in {"free", "accept", "handle"}
  /\ lock = "handle" => Len(brokerHands) = 1
  /\ lock # "handle" => brokerHands = <<>>

LoopInv == LoopTypeOK /\ OneInHand

-----------------------------------------------------------------------------
(* Sequences: a queue in two parts.                                        *)

\* What is appended to the second part is appended to the whole.
LEMMA AppendToBack ==
  ASSUME NEW S, NEW h \in Seq(S), NEW q \in Seq(S), NEW m \in S
  PROVE  h \o Append(q, m) = Append(h \o q, m)
OBVIOUS

\* What moves from the head of the second part to the end of the first does
\* not move in the whole.
LEMMA MoveToFront ==
  ASSUME NEW S, NEW h \in Seq(S), NEW q \in Seq(S), q # <<>>
  PROVE  Append(h, Head(q)) \o Tail(q) = h \o q
<1>1. Head(q) \in S /\ Tail(q) \in Seq(S) /\ <<Head(q)>> \in Seq(S)
  BY HeadTailProperties
<1>2. <<Head(q)>> \o Tail(q) = q
  OBVIOUS
<1>3. Append(h, Head(q)) = h \o <<Head(q)>>
  BY <1>1, AppendIsConcat
<1>4. (h \o <<Head(q)>>) \o Tail(q) = h \o (<<Head(q)>> \o Tail(q))
  BY <1>1, ConcatAssociative
<1> QED
  BY <1>2, <1>3, <1>4

\* An element left out of the first part is left out of the whole.
LEMMA WithoutFront ==
  ASSUME NEW S, NEW h \in Seq(S), NEW q \in Seq(S), NEW i \in 1..Len(h)
  PROVE  /\ Without(h, i) \in Seq(S)
         /\ Without(h, i) \o q = Without(h \o q, i)
         /\ i \in 1..Len(h \o q) /\ (h \o q)[i] = h[i]
<1>0. Len(h) \in Nat /\ Len(q) \in Nat /\ i \in Int
  OBVIOUS
<1>1. /\ h \o q \in Seq(S)
      /\ Len(h \o q) = Len(h) + Len(q)
      /\ \A j \in 1..(Len(h) + Len(q)) :
           (h \o q)[j] = IF j <= Len(h) THEN h[j] ELSE q[j - Len(h)]
  BY ConcatProperties
<1>2. i \in 1..Len(h \o q) /\ (h \o q)[i] = h[i]
  BY <1>0, <1>1
<1> DEFINE w == Without(h, i)
           v == Without(h \o q, i)
<1>3. /\ w \in Seq(S) /\ Len(w) = Len(h) - 1
      /\ \A j \in 1..(Len(h) - 1) : w[j] = IF j < i THEN h[j] ELSE h[j + 1]
  BY WithoutProperties
<1>4. /\ v \in Seq(S) /\ Len(v) = Len(h) + Len(q) - 1
      /\ \A j \in 1..(Len(h) + Len(q) - 1) :
           v[j] = IF j < i THEN (h \o q)[j] ELSE (h \o q)[j + 1]
  <2> HIDE DEF v
  <2>1. /\ v \in Seq(S) /\ Len(v) = Len(h \o q) - 1
        /\ \A j \in 1..(Len(h \o q) - 1) :
             v[j] = IF j < i THEN (h \o q)[j] ELSE (h \o q)[j + 1]
    BY <1>1, <1>2, WithoutProperties, Zenon DEF v
  <2>2. Len(h \o q) - 1 = Len(h) + Len(q) - 1
    BY <1>1
  <2> QED
    BY <2>1, <2>2, Zenon
<1> HIDE DEF w, v
<1>5. /\ w \o q \in Seq(S)
      /\ Len(w \o q) = Len(w) + Len(q)
      /\ \A j \in 1..(Len(w) + Len(q)) :
           (w \o q)[j] = IF j <= Len(w) THEN w[j] ELSE q[j - Len(w)]
  BY <1>3, ConcatProperties
<1>6. ASSUME NEW j \in 1..Len(v)
      PROVE  (w \o q)[j] = v[j]
  <2>1. CASE j <= Len(h) - 1
    <3>1. (w \o q)[j] = w[j]
      BY <1>0, <1>3, <1>4, <1>5, <2>1
    <3>2. (h \o q)[j] = h[j] /\ (h \o q)[j + 1] = h[j + 1]
      BY <1>0, <1>1, <2>1, <1>4
    <3> QED
      BY <1>0, <1>3, <1>4, <2>1, <3>1, <3>2
  <2>2. CASE ~(j <= Len(h) - 1)
    <3>1. (w \o q)[j] = q[j - (Len(h) - 1)]
      BY <1>0, <1>3, <1>4, <1>5, <2>2
    <3>2. (h \o q)[j + 1] = q[j + 1 - Len(h)]
      BY <1>0, <1>1, <1>4, <2>2
    <3>3. j - (Len(h) - 1) = j + 1 - Len(h) /\ ~(j < i)
      BY <1>0, <1>4, <2>2
    <3>4. v[j] = (h \o q)[j + 1]
      BY <1>0, <1>4, <3>3
    <3> QED
      BY <3>1, <3>2, <3>3, <3>4
  <2> QED
    BY <2>1, <2>2
<1>7. w \o q = v
  <2>1. Len(w \o q) = Len(v)
    BY <1>0, <1>3, <1>4, <1>5
  <2>2. \A j \in 1..Len(w \o q) : (w \o q)[j] = v[j]
    BY <1>6, <2>1
  <2> QED
    BY <1>4, <1>5, <2>1, <2>2, SeqEqual, Zenon
<1> QED
  BY <1>2, <1>3, <1>7 DEF w, v

-----------------------------------------------------------------------------
(* The invariant.                                                          *)

LEMMA RequestIsConnection ==
  ASSUME NEW x \in Calls
  PROVE  RequestOf(x) \in Connection /\ ResponseOf(x) \in Connection
BY DEF RequestOf, ResponseOf, Connection

LEMMA HandsWhole ==
  ASSUME LoopInv, lock = "handle"
  PROVE  brokerHands # <<>> /\ brokerHands = <<Head(brokerHands)>>
         /\ Head(brokerHands) \in Connection /\ Tail(brokerHands) = <<>>
<1>1. brokerHands \in Seq(Connection) /\ Len(brokerHands) = 1
  BY DEF LoopInv, LoopTypeOK, OneInHand
<1>2. brokerHands # <<>>
  BY <1>1, EmptySeq
<1>3. /\ Head(brokerHands) \in Connection
      /\ Tail(brokerHands) \in Seq(Connection)
      /\ Len(Tail(brokerHands)) = 0
  BY <1>1, <1>2, HeadTailProperties
<1>4. Tail(brokerHands) = <<>>
  BY <1>3, EmptySeq
<1>5. brokerHands[1] = Head(brokerHands)
  BY <1>1
<1>6. brokerHands = <<Head(brokerHands)>>
  BY <1>1, <1>3, <1>5
<1> QED
  BY <1>2, <1>3, <1>4, <1>6

LEMMA LoopInvInit == Init => LoopInv
BY DEF Init, LoopInv, LoopTypeOK, OneInHand

LEMMA PassRequestInv ==
  ASSUME LoopInv, PassRequest
  PROVE  LoopInv'
<1>1. PICK m \in Connection :
        /\ Holding(m, "request")
        /\ serverQueue' = Append(serverQueue, RequestOf(m.call))
        /\ UNCHANGED <<threading, unsent, brokerQueue, lockWaiters, acceptWaiters,
                       serverHands, answered>>
  BY DEF PassRequest
<1>2. brokerHands' = <<>> /\ lock' = "free"
  BY <1>1, HandsWhole DEF Holding, ReleaseLock
<1>3. RequestOf(m.call) \in Connection
  BY RequestIsConnection DEF Connection
<1>4. serverQueue' \in Seq(Connection)
  BY <1>1, <1>3 DEF LoopInv, LoopTypeOK
<1> QED
  BY <1>1, <1>2, <1>4 DEF LoopInv, LoopTypeOK, OneInHand

LEMMA PassResponseInv ==
  ASSUME LoopInv, PassResponse
  PROVE  LoopInv'
<1>1. PICK m \in Connection :
        /\ Holding(m, "response")
        /\ UNCHANGED <<threading, unsent, brokerQueue, lockWaiters, serverVars>>
  BY DEF PassResponse
<1>2. brokerHands' = <<>> /\ lock' = "free"
  BY <1>1, HandsWhole DEF Holding, ReleaseLock
<1> QED
  BY <1>1, <1>2 DEF LoopInv, LoopTypeOK, OneInHand, serverVars

LEMMA BrokerAcceptInv ==
  ASSUME LoopInv, BrokerAccept
  PROVE  LoopInv'
<1>1. brokerHands = <<>>
  BY DEF LoopInv, OneInHand, BrokerAccept
<1>2. Head(brokerQueue) \in Connection /\ Tail(brokerQueue) \in Seq(Connection)
  BY HeadTailProperties DEF LoopInv, LoopTypeOK, BrokerAccept
<1>3. brokerHands' = <<Head(brokerQueue)>>
  BY <1>1, <1>2 DEF BrokerAccept
<1>4. brokerHands' \in Seq(Connection) /\ Len(brokerHands') = 1
  BY <1>2, <1>3
<1> QED
  BY <1>2, <1>4
  DEF LoopInv, LoopTypeOK, OneInHand, BrokerAccept, serverVars

LEMMA ServerAcceptInv ==
  ASSUME LoopInv, ServerAccept
  PROVE  LoopInv'
<1>1. Head(serverQueue) \in Connection /\ Tail(serverQueue) \in Seq(Connection)
  BY HeadTailProperties DEF LoopInv, LoopTypeOK, ServerAccept
<1>2. serverHands' \in Seq(Connection)
  BY <1>1 DEF LoopInv, LoopTypeOK, ServerAccept
<1> QED
  BY <1>1, <1>2 DEF LoopInv, LoopTypeOK, OneInHand, ServerAccept, brokerVars

LEMMA RespondInv ==
  ASSUME LoopInv, NEW i \in 1..Len(serverHands), Respond(i)
  PROVE  LoopInv'
<1>1. serverHands' \in Seq(Connection)
  BY WithoutProperties DEF LoopInv, LoopTypeOK, Respond
<1>2. ResponseOf(serverHands[i].call) \in Connection
  <2>1. serverHands[i] \in Connection
    BY DEF LoopInv, LoopTypeOK
  <2> QED
    BY <2>1, RequestIsConnection DEF Connection
<1>3. brokerQueue' \in Seq(Connection)
  BY <1>2 DEF LoopInv, LoopTypeOK, Respond
<1> QED
  BY <1>1, <1>3 DEF LoopInv, LoopTypeOK, OneInHand, Respond

LEMMA LoopInvNext == LoopInv /\ [Next]_vars => LoopInv'
<1> SUFFICES ASSUME LoopInv, [Next]_vars
             PROVE  LoopInv'
  OBVIOUS
<1>1. ASSUME NEW x \in Calls, Connect(x)
      PROVE  LoopInv'
  <2>1. brokerQueue' \in Seq(Connection)
    BY <1>1, RequestIsConnection DEF LoopInv, LoopTypeOK, Connect
  <2> QED
    BY <1>1, <2>1 DEF LoopInv, LoopTypeOK, OneInHand, Connect, serverVars
<1>2. CASE WaitForConnections
  BY <1>2 DEF LoopInv, LoopTypeOK, OneInHand, WaitForConnections, serverVars
<1>3. CASE AquireLock
  BY <1>3 DEF LoopInv, LoopTypeOK, OneInHand, AquireLock, serverVars
<1>4. CASE LockRefused
  BY <1>4 DEF LoopInv, LoopTypeOK, OneInHand, LockRefused, serverVars
<1>5. CASE BrokerAccept
  BY <1>5, BrokerAcceptInv
<1>6. CASE PassRequest
  BY <1>6, PassRequestInv
<1>7. CASE PassResponse
  BY <1>7, PassResponseInv
<1>8. CASE StartThread
  BY <1>8 DEF LoopInv, LoopTypeOK, OneInHand, StartThread, brokerVars
<1>9. CASE ServerAccept
  BY <1>9, ServerAcceptInv
<1>10. ASSUME NEW i \in 1..Len(serverHands), Respond(i)
       PROVE  LoopInv'
  BY <1>10, RespondInv
<1>11. CASE UNCHANGED vars
  BY <1>11
  DEF LoopInv, LoopTypeOK, OneInHand, vars, brokerVars, serverVars
<1> QED
  BY <1>1, <1>2, <1>3, <1>4, <1>5, <1>6, <1>7, <1>8, <1>9, <1>10, <1>11
  DEF Next, ProcessDataAvail, ServerThread

-----------------------------------------------------------------------------
(* Every step is a step of Backlogs, or none.                              *)

LEMMA SameConnections ==
  /\ \A x \in Calls : /\ Abstract!RequestOf(x) = RequestOf(x)
                      /\ Abstract!ResponseOf(x) = ResponseOf(x)
  /\ \A q, i : Abstract!Without(q, i) = Without(q, i)
BY DEF Abstract!RequestOf, Abstract!ResponseOf, RequestOf, ResponseOf,
       Abstract!Without, Without

LEMMA ConnectMaps ==
  ASSUME LoopInv, NEW x \in Calls, Connect(x)
  PROVE  Abstract!Connect(x)
<1>1. brokerHands \o Append(brokerQueue, RequestOf(x))
        = Append(brokerHands \o brokerQueue, RequestOf(x))
  BY AppendToBack, RequestIsConnection DEF LoopInv, LoopTypeOK
<1> QED
  BY <1>1, SameConnections DEF Connect, Abstract!Connect, serverVars

LEMMA AcceptsMap ==
  ASSUME LoopInv, BrokerAccept \/ ServerAccept
  PROVE  UNCHANGED Abstract!backlogVars
<1>1. CASE BrokerAccept
  <2>1. brokerHands' \o brokerQueue' = brokerHands \o brokerQueue
    BY <1>1, MoveToFront DEF LoopInv, LoopTypeOK, BrokerAccept
  <2> QED
    BY <1>1, <2>1 DEF BrokerAccept, Abstract!backlogVars, serverVars
<1>2. CASE ServerAccept
  <2>1. serverHands' \o serverQueue' = serverHands \o serverQueue
    BY <1>2, MoveToFront DEF LoopInv, LoopTypeOK, ServerAccept
  <2> QED
    BY <1>2, <2>1 DEF ServerAccept, Abstract!backlogVars, brokerVars
<1> QED
  BY <1>1, <1>2

\* What is in the broker's hands is the head of its connections.
LEMMA HandsAreHead ==
  ASSUME LoopInv, lock = "handle"
  PROVE  /\ brokerHands \o brokerQueue # <<>>
         /\ Head(brokerHands \o brokerQueue) = Head(brokerHands)
         /\ Tail(brokerHands \o brokerQueue) = <<>> \o brokerQueue
<1> DEFINE m == Head(brokerHands)
<1>1. brokerHands = <<m>> /\ m \in Connection /\ brokerQueue \in Seq(Connection)
  BY HandsWhole DEF LoopInv, LoopTypeOK
<1> HIDE DEF m
<1>2. <<m>> \o brokerQueue # <<>> /\ Head(<<m>> \o brokerQueue) = m
  BY <1>1
<1>3. Tail(<<m>> \o brokerQueue) = brokerQueue
  BY <1>1
<1>4. <<>> \o brokerQueue = brokerQueue
  BY <1>1, ConcatEmptySeq
<1> QED
  BY <1>1, <1>2, <1>3, <1>4 DEF m

LEMMA PassRequestMaps ==
  ASSUME LoopInv, PassRequest
  PROVE  Abstract!BrokerHandles
<1>1. PICK m \in Connection :
        /\ Holding(m, "request")
        /\ serverQueue' = Append(serverQueue, RequestOf(m.call))
        /\ UNCHANGED <<threading, unsent, brokerQueue, lockWaiters, acceptWaiters,
                       serverHands, answered>>
  BY DEF PassRequest
<1>2. /\ m = Head(brokerHands) /\ m.type = "request" /\ lock = "handle"
      /\ brokerHands' = <<>>
  BY <1>1, HandsWhole DEF Holding
<1>3. m.call \in Calls /\ RequestOf(m.call) \in Connection
  BY RequestIsConnection DEF Connection
<1>4. serverHands \o Append(serverQueue, RequestOf(m.call))
        = Append(serverHands \o serverQueue, RequestOf(m.call))
  BY <1>3, AppendToBack DEF LoopInv, LoopTypeOK
<1> QED
  BY <1>1, <1>2, <1>3, <1>4, HandsAreHead, SameConnections
  DEF Abstract!BrokerHandles

LEMMA PassResponseMaps ==
  ASSUME LoopInv, PassResponse
  PROVE  Abstract!BrokerHandles
<1>1. PICK m \in Connection :
        /\ Holding(m, "response")
        /\ answered' = answered \cup {m.call}
        /\ UNCHANGED <<threading, unsent, brokerQueue, lockWaiters, serverVars>>
  BY DEF PassResponse
<1>2. /\ m = Head(brokerHands) /\ m.type = "response" /\ lock = "handle"
      /\ brokerHands' = <<>>
  BY <1>1, HandsWhole DEF Holding
<1> QED
  BY <1>1, <1>2, HandsAreHead DEF Abstract!BrokerHandles, serverVars

LEMMA RespondMaps ==
  ASSUME LoopInv, NEW i \in 1..Len(serverHands), Respond(i)
  PROVE  /\ i \in 1..Len(serverHands \o serverQueue)
         /\ Abstract!ServerHandles(i)
<1>1. /\ Without(serverHands, i) \o serverQueue
           = Without(serverHands \o serverQueue, i)
      /\ i \in 1..Len(serverHands \o serverQueue)
      /\ (serverHands \o serverQueue)[i] = serverHands[i]
  <2>1. serverHands \in Seq(Connection) /\ serverQueue \in Seq(Connection)
    BY DEF LoopInv, LoopTypeOK
  <2>2. Without(serverHands, i) \o serverQueue
          = Without(serverHands \o serverQueue, i)
    BY <2>1, WithoutFront
  <2>3. i \in 1..Len(serverHands \o serverQueue)
    BY <2>1, WithoutFront
  <2>4. (serverHands \o serverQueue)[i] = serverHands[i]
    BY <2>1, WithoutFront
  <2> QED
    BY <2>2, <2>3, <2>4
<1>2. serverHands[i].call \in Calls
  <2>1. serverHands[i] \in Connection
    BY DEF LoopInv, LoopTypeOK
  <2> QED
    BY <2>1 DEF Connection
<1>3. brokerHands \o Append(brokerQueue, ResponseOf(serverHands[i].call))
        = Append(brokerHands \o brokerQueue, ResponseOf(serverHands[i].call))
  BY <1>2, AppendToBack, RequestIsConnection DEF LoopInv, LoopTypeOK
<1> QED
  BY <1>1, <1>2, <1>3, SameConnections DEF Respond, Abstract!ServerHandles

LEMMA StepMaps ==
  LoopInv /\ [Next]_vars => [Abstract!BacklogsNext]_(Abstract!backlogVars)
<1> SUFFICES ASSUME LoopInv, [Next]_vars
             PROVE  [Abstract!BacklogsNext]_(Abstract!backlogVars)
  OBVIOUS
<1>1. ASSUME NEW x \in Calls, Connect(x)
      PROVE  Abstract!BacklogsNext
  BY <1>1, ConnectMaps DEF Abstract!BacklogsNext
<1>2. CASE WaitForConnections \/ AquireLock \/ LockRefused
  BY <1>2 DEF WaitForConnections, AquireLock, LockRefused, serverVars,
              Abstract!backlogVars
<1>3. CASE BrokerAccept \/ ServerAccept
  BY <1>3, AcceptsMap
<1>4. CASE PassRequest
  BY <1>4, PassRequestMaps DEF Abstract!BacklogsNext
<1>5. CASE PassResponse
  BY <1>5, PassResponseMaps DEF Abstract!BacklogsNext
<1>6. CASE StartThread
  BY <1>6 DEF StartThread, brokerVars, Abstract!backlogVars
<1>7. ASSUME NEW i \in 1..Len(serverHands), Respond(i)
      PROVE  Abstract!BacklogsNext
  BY <1>7, RespondMaps DEF Abstract!BacklogsNext
<1>8. CASE UNCHANGED vars
  BY <1>8 DEF vars, brokerVars, serverVars, Abstract!backlogVars
<1> QED
  BY <1>1, <1>2, <1>3, <1>4, <1>5, <1>6, <1>7, <1>8
  DEF Next, ProcessDataAvail, ServerThread

\* In both builds the loops of broker and server handle their connections as
\* the steps of modules Broker and Server do: the broker (broker.c 90-143) one
\* at a time and in order, the server (server.c 85-118) in any order, none
\* lost and none handled twice.
THEOREM LoopsRefineBacklogs == Spec => HandlesAsOneStep
<1>1. Init => Abstract!BacklogsInit
  BY DEF Init, Abstract!BacklogsInit
<1>2. Spec => []LoopInv
  BY LoopInvInit, LoopInvNext, PTL DEF Spec
<1> QED
  BY <1>1, <1>2, StepMaps, PTL
  DEF Spec, HandlesAsOneStep, Abstract!BacklogsSpec
=============================================================================
