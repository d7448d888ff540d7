------------------------------- MODULE Client -------------------------------
(***************************************************************************)
(* A client process: client/client.c, the generated stubs                  *)
(* (client/generate_proxy.pl) and client/send_and_receive.c.               *)
(*                                                                         *)
(* A stub starts a thread that sends the request and, at the same time,    *)
(* opens the socket on which the response is expected.  The thread works   *)
(* on arguments in the stack frame of send_and_receive.                    *)
(***************************************************************************)
EXTENDS Network

VARIABLES
  clientPc,  \* where the main thread of each client is
  callNo,    \* number of calls made in this run
  unsent,    \* calls whose sending thread has not run yet
  sent,      \* calls whose sending thread has sent and not returned
  replies    \* results that the calls of this run returned, in order

clientVars == <<clientPc, callNo, unsent, sent, replies>>

ClientTypeOK ==
  /\ clientPc \in [Clients -> {"down", "idle", "bind", "wait"}]
  /\ callNo \in [Clients -> 0..MaxCalls]
  /\ unsent \in [Clients -> SUBSET (1..MaxCalls)]
  /\ sent \in [Clients -> SUBSET (1..MaxCalls)]
  /\ replies \in [Clients -> Seq(Call)]

ClientInit ==
  /\ clientPc = [c \in Clients |-> "down"]
  /\ callNo = [c \in Clients |-> 0]
  /\ unsent = [c \in Clients |-> {}]
  /\ sent = [c \in Clients |-> {}]
  /\ replies = [c \in Clients |-> <<>>]

-----------------------------------------------------------------------------

\* The k-th call of the current run of client c.
CallOf(c, k) == [client |-> c, run |-> runs[c], seq |-> k]

\* The frame of send_and_receive for call k of client c still exists.
FrameLive(c, k) == clientPc[c] \in {"bind", "wait"} /\ callNo[c] = k

\* The process ends, its threads with it.
ClientExit(c) ==
  /\ clientPc' = [clientPc EXCEPT ![c] = "down"]
  /\ unsent' = [unsent EXCEPT ![c] = {}]
  /\ sent' = [sent EXCEPT ![c] = {}]
  /\ UNCHANGED <<callNo, replies>>

ClientStart(c) ==
  /\ clientPc[c] = "down"
  /\ Launch(c)
  /\ clientPc' = [clientPc EXCEPT ![c] = "idle"]
  /\ callNo' = [callNo EXCEPT ![c] = 0]
  /\ unsent' = [unsent EXCEPT ![c] = {}]
  /\ sent' = [sent EXCEPT ![c] = {}]
  /\ replies' = [replies EXCEPT ![c] = <<>>]
  /\ UNCHANGED <<listening, backlog>>

\* The stub packs the request and send_and_receive starts the thread.
CallStub(c) ==
  /\ clientPc[c] = "idle"
  /\ callNo[c] < Len(Program[c])
  /\ callNo' = [callNo EXCEPT ![c] = @ + 1]
  /\ unsent' = [unsent EXCEPT ![c] = @ \cup {callNo[c] + 1}]
  /\ clientPc' = [clientPc EXCEPT ![c] = "bind"]
  /\ UNCHANGED <<netVars, sent, replies>>

\* Mutant: the thread sends again what it has sent.
SendAgain(c, k) ==
  /\ k \in unsent[c]
  /\ FrameLive(c, k)
  /\ send_req(c, backlog[c], broker, pack_client_request_data(CallOf(c, k)))
  /\ UNCHANGED clientVars

\* The thread of call k has sent, and has not returned.
HasSent(c, k) ==
  /\ unsent' = [unsent EXCEPT ![c] = @ \ {k}]
  /\ sent' = [sent EXCEPT ![c] = @ \cup {k}]
  /\ UNCHANGED <<clientPc, callNo, replies>>

\* thread_send_request reads packet, address and port while they exist, and
\* sends.
SendRequest(c, k) ==
  /\ k \in unsent[c]
  /\ FrameLive(c, k)
  /\ IF broker \in listening
     THEN /\ send_req(c, backlog[c], broker,
                      pack_client_request_data(CallOf(c, k)))
          /\ HasSent(c, k)
     ELSE netError(c) /\ ClientExit(c)

\* thread_send_request runs after its frame is gone: it faults, or sends what
\* it finds there -- the request unharmed, a released buffer, or the request of
\* the call that uses the frame now.
SendDangling(c, k) ==
  /\ k \in unsent[c]
  /\ ~FrameLive(c, k)
  /\ \/ netError(c) /\ ClientExit(c)
     \/ /\ \E m \in {pack_client_request_data(CallOf(c, k)), Garbage}
                      \cup {pack_client_request_data(CallOf(c, j)) :
                              j \in {i \in {callNo[c]} : FrameLive(c, i)}} :
             send_req(c, backlog[c], broker, m)
        /\ HasSent(c, k)

\* After the send the thread reads verbose, in its frame or, when the call has
\* returned meanwhile, in whatever is at that place of the stack of main; only
\* whether it prints depends on it.
ThreadReturns(c, k) ==
  /\ k \in sent[c]
  /\ sent' = [sent EXCEPT ![c] = @ \ {k}]
  /\ UNCHANGED <<netVars, clientPc, callNo, unsent, replies>>

\* waitForResponse opens the socket and waits on it.
ClientBind(c) ==
  /\ clientPc[c] = "bind"
  /\ clientPc' = [clientPc EXCEPT ![c] = "wait"]
  /\ listening' = listening \cup {c}
  /\ UNCHANGED <<backlog, runs, callNo, unsent, sent, replies>>

\* The first connection is taken for the response, whatever it answers; the
\* socket is closed with everything else that is queued on it.
ReceiveResponse(c) ==
  /\ clientPc[c] = "wait"
  /\ backlog[c] # <<>>
  /\ Head(backlog[c]).type = "SERVICE_REQUEST_RESPONSE"
  /\ replies' = [replies EXCEPT ![c] = Append(@, Head(backlog[c]).reply)]
  /\ clientPc' = [clientPc EXCEPT ![c] = "idle"]
  /\ listening' = listening \ {c}
  /\ backlog' = [backlog EXCEPT ![c] = <<>>]
  /\ UNCHANGED <<runs, callNo, unsent, sent>>

\* A connection closed before its packet ends the process.
ClientTruncated(c) ==
  /\ clientPc[c] = "wait"
  /\ backlog[c] # <<>>
  /\ Head(backlog[c]).type = "EOF"
  /\ netError(c)
  /\ ClientExit(c)

\* A process that ends while its sending thread has connected to the broker.
ClientStops(c) ==
  /\ ClientExit(c)
  /\ \/ netError(c)
     \/ unsent[c] # {} /\ netErrorMidSend(c, broker)

\* Mutant: the stub returns without a result when select times out.
GiveUpWaiting(c) ==
  /\ c \in TimedWaits
  /\ clientPc[c] = "wait"
  /\ backlog[c] = <<>>
  /\ clientPc' = [clientPc EXCEPT ![c] = "idle"]
  /\ listening' = listening \ {c}
  /\ UNCHANGED <<backlog, runs, callNo, unsent, sent, replies>>

\* select times out with no connection waiting: netError.
ClientTimeout(c) ==
  /\ c \in TimedWaits
  /\ clientPc[c] = "wait"
  /\ backlog[c] = <<>>
  /\ ClientStops(c)

\* main returns after its last call, once the sending threads have ended.
ClientFinish(c) ==
  /\ clientPc[c] = "idle"
  /\ callNo[c] = Len(Program[c])
  /\ unsent[c] = {} /\ sent[c] = {}
  /\ netError(c)
  /\ ClientExit(c)

\* The client is stopped from outside.
ClientKilled(c) ==
  /\ c \in Killable
  /\ clientPc[c] # "down"
  /\ ClientStops(c)

ClientSender(c) ==
  \/ \E k \in unsent[c] : SendRequest(c, k) \/ SendDangling(c, k)
  \/ \E k \in sent[c] : ThreadReturns(c, k)

ClientMain(c) ==
  \/ ClientBind(c)
  \/ ReceiveResponse(c)
  \/ ClientTruncated(c)

ClientNext(c) ==
  \/ ClientStart(c)
  \/ CallStub(c)
  \/ ClientSender(c)
  \/ ClientMain(c)
  \/ ClientTimeout(c)
  \/ ClientFinish(c)
  \/ ClientKilled(c)
=============================================================================
