------------------------------- MODULE Server -------------------------------
(***************************************************************************)
(* A server process: server/server.c, service_register_with_broker.c and   *)
(* unpack_marshal_call.c.                                                  *)
(*                                                                         *)
(* main registers with the broker first and opens its own socket after.    *)
(* Each connection is accepted by a thread of its own, so the connections  *)
(* in backlog[s] are handled in any order.  A thread that carries out a    *)
(* request takes two steps, as other threads may run, and end the process, *)
(* between the operation and the response.  The flag isRegistered is       *)
(* shared by the threads.                                                  *)
(***************************************************************************)
EXTENDS Network

VARIABLES
  serverPc,      \* where the main thread of each server is
  isRegistered,  \* servers whose isRegistered flag is set
  results,       \* results[s]: requests carried out and not yet answered
  executions     \* how often each call has been carried out by a server

serverVars == <<serverPc, isRegistered, results, executions>>

ServerTypeOK ==
  /\ serverPc \in [Servers -> {"down", "register", "bind", "serve"}]
  /\ isRegistered \subseteq Servers
  /\ results \in [Servers -> Seq(Request)]
  /\ executions \in [Call -> Nat]

ServerInit ==
  /\ serverPc = [s \in Servers |-> "down"]
  /\ isRegistered = {}
  /\ results = [s \in Servers |-> <<>>]
  /\ executions = [x \in Call |-> 0]

-----------------------------------------------------------------------------

\* The process ends, its threads with it: results not yet sent are lost.
ServerExit(s) ==
  /\ serverPc' = [serverPc EXCEPT ![s] = "down"]
  /\ isRegistered' = isRegistered \ {s}
  /\ results' = [results EXCEPT ![s] = <<>>]
  /\ UNCHANGED executions

\* The process ends, possibly while main has a connection to the broker open
\* to register, or a thread has one to send a response.
ServerStops(s) ==
  /\ ServerExit(s)
  /\ \/ netError(s)
     \/ /\ serverPc[s] = "register" \/ results[s] # <<>>
        /\ netErrorMidSend(s, broker)

ServerStart(s) ==
  /\ serverPc[s] = "down"
  /\ Launch(s)
  /\ serverPc' = [serverPc EXCEPT ![s] = "register"]
  /\ UNCHANGED <<listening, backlog, isRegistered, results, executions>>

\* service_register_with_broker, before the socket exists.
ServerRegister(s) ==
  /\ serverPc[s] = "register"
  /\ IF broker \in listening
     THEN /\ send_req(s, backlog[s], broker, RegistrationOf(s))
          /\ serverPc' = [serverPc EXCEPT ![s] = "bind"]
          /\ UNCHANGED <<isRegistered, results, executions>>
     ELSE netError(s) /\ ServerExit(s)

\* netTcpServer, then the select loop.
ServerBind(s) ==
  /\ serverPc[s] = "bind"
  /\ serverPc' = [serverPc EXCEPT ![s] = "serve"]
  /\ listening' = listening \cup {s}
  /\ UNCHANGED <<backlog, runs, isRegistered, results, executions>>

-----------------------------------------------------------------------------

\* A thread of s has the i-th connection, with a packet of type t.
Serving(s, i, t) ==
  /\ serverPc[s] = "serve"
  /\ i \in 1..Len(backlog[s])
  /\ backlog[s][i].type = t

\* Mutant: two threads read the same connection.
ReadTwice(s, i) == backlog[s]

\* What is left when a thread has accepted the i-th connection and closed it.
Accepted(s, i) == Without(backlog[s], i)

\* The thread is done with the i-th connection and has sent nothing.
Discard(s, i) ==
  /\ backlog' = [backlog EXCEPT ![s] = Accepted(s, i)]
  /\ UNCHANGED <<listening, runs>>

\* Mutant: the acknowledgement is read and the flag not set.
IgnoreAck(s, i) ==
  /\ Serving(s, i, "SERVICE_REGISTRATION_ACK")
  /\ Discard(s, i)
  /\ UNCHANGED serverVars

ReceiveAck(s, i) ==
  /\ Serving(s, i, "SERVICE_REGISTRATION_ACK")
  /\ isRegistered' = isRegistered \cup {s}
  /\ Discard(s, i)
  /\ UNCHANGED <<serverPc, results, executions>>

\* unpack_marshal_call_send: the operation is run.
Execute(s, i) ==
  /\ Serving(s, i, "SERVICE_REQUEST")
  /\ s \in isRegistered
  /\ executions' = [executions EXCEPT ![backlog[s][i].params] = @ + 1]
  /\ results' = [results EXCEPT ![s] = Append(@, backlog[s][i])]
  /\ Discard(s, i)
  /\ UNCHANGED <<serverPc, isRegistered>>

\* Its result is sent to the broker; a refused connection ends the process.
SendResult(s, j) ==
  /\ j \in 1..Len(results[s])
  /\ IF broker \in listening
     THEN /\ send_req(s, backlog[s], broker,
                      pack_client_response_data(results[s][j]))
          /\ results' = [results EXCEPT ![s] = Without(@, j)]
          /\ UNCHANGED <<serverPc, isRegistered, executions>>
     ELSE netError(s) /\ ServerExit(s)

\* Mutant: the flag is not looked at.
DropRequest(s, i) ==
  /\ Serving(s, i, "SERVICE_REQUEST")
  /\ Discard(s, i)
  /\ UNCHANGED serverVars

\* A request that a thread sees before another has seen the acknowledgement
\* is dropped; nobody is told.
DropUnregistered(s, i) ==
  /\ Serving(s, i, "SERVICE_REQUEST")
  /\ s \notin isRegistered
  /\ Discard(s, i)
  /\ UNCHANGED serverVars

\* A connection closed before its packet ends the process.
ServerTruncated(s, i) ==
  /\ Serving(s, i, "EOF")
  /\ ServerStops(s)

\* select times out with no connection to accept: those in backlog[s] are all
\* with their threads.
ServerTimeout(s) ==
  /\ s \in TimedWaits
  /\ serverPc[s] = "serve"
  /\ ServerStops(s)

\* The server is stopped from outside.
ServerKilled(s) ==
  /\ s \in Killable
  /\ serverPc[s] # "down"
  /\ ServerStops(s)

ServerThread(s) ==
  \/ \E i \in 1..Len(backlog[s]) :
       \/ ReceiveAck(s, i)
       \/ Execute(s, i)
       \/ DropUnregistered(s, i)
       \/ ServerTruncated(s, i)
  \/ \E j \in 1..Len(results[s]) : SendResult(s, j)

ServerMain(s) == ServerRegister(s) \/ ServerBind(s)

ServerNext(s) ==
  \/ ServerStart(s)
  \/ ServerMain(s)
  \/ ServerThread(s)
  \/ ServerTimeout(s)
  \/ ServerKilled(s)
=============================================================================
