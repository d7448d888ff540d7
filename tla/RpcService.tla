----------------------------- MODULE RpcService -----------------------------
(***************************************************************************)
(* What the clients of the broker are promised (common/protocol.h and the  *)
(* comment of send_and_receive): a client makes its calls one after the    *)
(* other, each is carried out at most once, and each returns only after it *)
(* has been carried out, with the result of that very call.  Broker,       *)
(* servers, connections and messages do not appear.                        *)
(***************************************************************************)
EXTENDS Protocol

VARIABLES
  issued,    \* issued[c]: number of calls client c has made
  performed, \* performed[x]: how often call x has been carried out
  returned   \* returned[c]: the results that came back to c, in order

serviceVars == <<issued, performed, returned>>

\* The k-th call of client c, in the only run of its process.
TheCall(c, k) == [client |-> c, run |-> 1, seq |-> k]

ServiceInit ==
  /\ issued = [c \in Clients |-> 0]
  /\ performed = [x \in Call |-> 0]
  /\ returned = [c \in Clients |-> <<>>]

\* A client makes its next call when all earlier ones have returned.
Issue(c) ==
  /\ Len(returned[c]) = issued[c]
  /\ issued[c] < Len(Program[c])
  /\ issued' = [issued EXCEPT ![c] = @ + 1]
  /\ UNCHANGED <<performed, returned>>

\* A call that has been made is carried out, once.
Perform(c, k) ==
  /\ k <= issued[c]
  /\ performed[TheCall(c, k)] = 0
  /\ performed' = [performed EXCEPT ![TheCall(c, k)] = 1]
  /\ UNCHANGED <<issued, returned>>

\* The pending call of c returns with its own result.
Return(c) ==
  LET x == TheCall(c, issued[c])
  IN  /\ Len(returned[c]) < issued[c]
      /\ performed[x] = 1
      /\ returned' = [returned EXCEPT ![c] = Append(@, x)]
      /\ UNCHANGED <<issued, performed>>

ServiceNext ==
  \E c \in Clients :
    \/ Issue(c)
    \/ \E k \in 1..MaxCalls : Perform(c, k)
    \/ Return(c)

ServiceSpec == ServiceInit /\ [][ServiceNext]_serviceVars
=============================================================================
