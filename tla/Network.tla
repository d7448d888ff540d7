------------------------------ MODULE Network ------------------------------
(***************************************************************************)
(* The processes and the TCP connections between them, as common/common.c  *)
(* uses them through the stulibc library.                                  *)
(*                                                                         *)
(* Every message travels on a connection of its own: send_req connects,    *)
(* writes one packet and closes.  A connection succeeds exactly when the   *)
(* peer has called netTcpServer and not yet closed its socket; it is then  *)
(* queued for the peer, whether or not the peer has accepted it.  When it  *)
(* fails, netTcpClient reports through netError with status 1, which ends  *)
(* the calling process.                                                    *)
(***************************************************************************)
EXTENDS Protocol, Lists, FiniteSets

CONSTANTS
  broker,     \* location of the broker
  TimedWaits, \* processes configured to wait in select for 60s, not forever
  Killable,   \* processes that may be stopped from outside
  Restartable \* processes that are started again after they have ended

VARIABLES
  listening,  \* processes with an open listening socket
  backlog,    \* backlog[p]: connections made to p and not yet handled by it
  runs        \* runs[p]: how often process p has been started

netVars == <<listening, backlog, runs>>

Procs == {broker} \cup Servers \cup Clients

ASSUME NetworkAssumption ==
  /\ broker \notin Servers \cup Clients
  /\ Servers \cap Clients = {}
  /\ TimedWaits \subseteq Procs
  /\ Killable \subseteq Procs
  /\ Restartable \subseteq Procs

NetTypeOK ==
  /\ listening \subseteq Procs
  /\ backlog \in [Procs -> Seq(Message)]
  /\ runs \in [Procs -> 0..MaxRuns]

NetInit ==
  /\ listening = {}
  /\ backlog = [p \in Procs |-> <<>>]
  /\ runs = [p \in Procs |-> 0]

-----------------------------------------------------------------------------

\* Process p is started (again).
Launch(p) ==
  /\ runs[p] < MaxRuns
  /\ runs[p] = 0 \/ p \in Restartable
  /\ runs' = [runs EXCEPT ![p] = @ + 1]

\* Process p has queue rest left, and sends m to process q, which listens.
send_req(p, rest, q, m) ==
  /\ q \in listening
  /\ backlog' = [backlog EXCEPT ![p] = rest, ![q] = Append(@, m)]
  /\ UNCHANGED <<listening, runs>>

\* Process p ends: its sockets and the connections queued on them are gone.
netError(p) ==
  /\ listening' = listening \ {p}
  /\ backlog' = [backlog EXCEPT ![p] = <<>>]
  /\ UNCHANGED runs

\* Process p ends between the connect and the writes of a send_req to q.
netErrorMidSend(p, q) ==
  /\ q \in listening
  /\ listening' = listening \ {p}
  /\ backlog' = [backlog EXCEPT ![p] = <<>>, ![q] = Append(@, Eof)]
  /\ UNCHANGED runs
=============================================================================
