----------------------------- MODULE LocalCall -----------------------------
(***************************************************************************)
(* What a stub stands for: a call of the operation itself.  A caller sees  *)
(* no packet, only that the call returns the value of the operation for    *)
(* its arguments.  The operation is the one of server_interface.c, where   *)
(* echo reverses its text.  Two exceptions are as the code has them: a     *)
(* call with an int below zero among its arguments never returns, and one  *)
(* whose result is below zero returns 0.                                   *)
(***************************************************************************)
EXTENDS Interface

VARIABLES
  call,    \* the call being made, or NoCall
  result   \* the value the last call returned

NoCall == [op |-> "none", args |-> <<>>]
NoResult == [kind |-> "none"]

Negative(v) == v.kind = "int" /\ v.int < 0

LocalInit == call = NoCall /\ result = NoResult

Enter ==
  /\ call = NoCall
  /\ \E op \in Operations : \E args \in ArgumentsOf(op) :
       call' = [op |-> op, args |-> args]
  /\ UNCHANGED result

Leave ==
  /\ call # NoCall
  /\ \A i \in DOMAIN call.args : ~Negative(call.args[i])
  /\ LET v == Local(call.op, call.args)
     IN  result' = IF Negative(v) THEN Int32(0) ELSE v
  /\ call' = NoCall

LocalSpec == LocalInit /\ [][Enter \/ Leave]_<<call, result>>
=============================================================================
