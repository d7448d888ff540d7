------------------------------ MODULE Marshal ------------------------------
(***************************************************************************)
(* One client, one server and the broker at the level of headers: what     *)
(* each of them packs, which headers the others read from it, and in which *)
(* order.  Nobody ends or is late here (module RpcBroker is about that),   *)
(* and there is one packet under way at a time.                            *)
(*                                                                         *)
(* The two loops over the headers of a packet, of a registration in the    *)
(* broker and of a request in the server, are modelled header by header:   *)
(* the variables they fill are unwritten until the header is met that they *)
(* are set from.  ptrOperation is declared in the body of the server's     *)
(* loop, set in one round and read in the next: C leaves its value open    *)
(* there, and what is read is up to the build.                             *)
(***************************************************************************)
EXTENDS Wire, Interface, Lists

CONSTANTS
  Ids,        \* what rand() may return
  ServerLoc,  \* address and port of the server
  ClientLoc   \* address and wait port of the client

\* rand() returns no negative value, and two sockets that listen differ in
\* address or port.
ASSUME MarshalAssumption ==
  /\ Ids \subseteq 0..MaxInt
  /\ \/ ServerLoc.address # ClientLoc.address
     \/ ServerLoc.port # ClientLoc.port

VARIABLES
  slotKept,   \* whether this build leaves a variable of a loop's body in its
              \* place from round to round; chosen once
  place,      \* who has the packet: "broker", "server", "client", or nobody
  packet,     \* the packet under way, or the last one
  off,        \* the next header in the loop of broker or server; 0: no loop
  locals,     \* the variables which that loop fills
  svc_repo,   \* registrations the broker has unpacked
  clnt_req_repo, \* requests the broker waits to see answered
  serverPc,   \* "start", "unregistered", "registered" or "down"
  call,       \* the call of the stub, or NoCall
  result      \* what the last call returned

loopVars == <<off, locals>>
repoVars == <<svc_repo, clnt_req_repo>>
callVars == <<call, result>>
vars == <<slotKept, place, packet, loopVars, repoVars, serverPc, callVars>>

NoCall == [op |-> "none", args |-> <<>>]
NoResult == [kind |-> "none"]

\* The locals of unpack_service_registration_buffer before its loop.
NoRegistration ==
  [address |-> Unwritten, port |-> Unwritten, num_services |-> 0,
   services |-> Unwritten]

\* The variables of unpack_marshal_call_send before its loop; op is
\* ptrOperation.
NoRequest ==
  [message_id |-> Unwritten, op |-> Unwritten, params |-> <<>>]

Init ==
  /\ slotKept \in BOOLEAN
  /\ place = "nobody" /\ packet = <<>>
  /\ off = 0 /\ locals = NoRequest
  /\ svc_repo = <<>> /\ clnt_req_repo = <<>>
  /\ serverPc = "start"
  /\ call = NoCall /\ result = NoResult

-----------------------------------------------------------------------------

\* Somebody sends a packet.
Send(to, p) == place' = to /\ packet' = p

\* Somebody has a packet of this type, and is not in a loop over it.
Has(who, type) ==
  /\ place = who
  /\ off = 0
  /\ IsTyped(packet)
  /\ get_req_type(packet) = type

\* Who listens at address and port.
At(address, port) ==
  CASE address = msgpack_pack_str(ServerLoc.address)
         /\ port = msgpack_pack_str(ServerLoc.port) -> "server"
    [] address = msgpack_pack_str(ClientLoc.address)
         /\ port = msgpack_pack_str(ClientLoc.port) -> "client"
    [] OTHER -> "nobody"

\* The header the loop looks at.
Header == packet[off]

-----------------------------------------------------------------------------
(* The registration. *)

service_register_with_broker ==
  /\ serverPc = "start"
  /\ serverPc' = "unregistered"
  /\ Send("broker", RegistrationPacket(ServerLoc, services))
  /\ UNCHANGED <<loopVars, repoVars, callVars, slotKept>>

StartRegistration ==
  /\ Has("broker", SERVICE_REGISTRATION)
  /\ off' = 1
  /\ locals' = NoRegistration
  /\ UNCHANGED <<place, packet, repoVars, serverPc, callVars, slotKept>>

\* The locals after header h: services is allocated by the number of services
\* and filled by the array.
RegistrationLocals(h) ==
  CASE h.val.kind = "str" /\ h.name = "sender-address" ->
         [locals EXCEPT !.address = h.val]
    [] h.val.kind = "str" /\ h.name = "reply-port" ->
         [locals EXCEPT !.port = h.val]
    [] h.val.kind = "positive" /\ h.name = "services-count" ->
         [locals EXCEPT !.num_services = h.val.int,
                        !.services = [kind |-> "array", items |->
                                       [i \in 1..h.val.int |-> Unwritten]]]
    [] h.val.kind = "array" ->
         [locals EXCEPT !.services.items =
            [i \in DOMAIN @ |->
               IF i <= Len(h.val.items) THEN h.val.items[i] ELSE @[i]]]
    [] OTHER -> locals

unpack_service_registration_buffer ==
  /\ place = "broker"
  /\ off \in 1..Len(packet)
  /\ locals' = RegistrationLocals(Header)
  /\ off' = off + 1
  /\ UNCHANGED <<place, packet, repoVars, serverPc, callVars, slotKept>>

\* The registration is stored, and acknowledged to where it came from.
reg_svc_req ==
  /\ place = "broker"
  /\ off > Len(packet)
  /\ svc_repo' = Append(svc_repo, locals)
  /\ Send(At(get_hdr_str(packet, "sender-address"),
             get_hdr_str(packet, "reply-port")),
          AckPacket(get_hdr_int(packet, "message-id")))
  /\ off' = 0
  /\ UNCHANGED <<locals, clnt_req_repo, serverPc, callVars, slotKept>>

ReceiveAck ==
  /\ Has("server", SERVICE_REGISTRATION_ACK)
  /\ serverPc' = "registered"
  /\ place' = "nobody"
  /\ UNCHANGED <<packet, loopVars, repoVars, callVars, slotKept>>

-----------------------------------------------------------------------------
(* The call. *)

\* A value as pack_client_request_data and pack_client_response_data pack it,
\* by the letter of the format.
Packed(v) ==
  IF v.kind = "int" THEN msgpack_pack_int(v.int) ELSE msgpack_pack_str(v.str)

CallStub ==
  /\ serverPc = "registered"
  /\ place = "nobody"
  /\ call = NoCall
  /\ \E op \in Operations : \E args \in ArgumentsOf(op) : \E id \in Ids :
       /\ call' = [op |-> op, args |-> args]
       /\ Send("broker", RequestPacket(id, ClientLoc, op,
                           [i \in DOMAIN args |-> Packed(args[i])]))
  /\ UNCHANGED <<loopVars, repoVars, serverPc, result, slotKept>>

\* The registrations that offer op.
Offering(op) ==
  {j \in 1..Len(svc_repo) :
     \E i \in 1..svc_repo[j].num_services : svc_repo[j].services.items[i] = op}

RelayRequest ==
  /\ Has("broker", SERVICE_REQUEST)
  /\ clnt_req_repo' = Append(clnt_req_repo,
       [address    |-> get_hdr_str(packet, "sender-address"),
        port       |-> get_hdr_str(packet, "reply-port"),
        operation  |-> get_hdr_str(packet, "op"),
        message_id |-> get_hdr_int(packet, "message-id")])
  /\ LET found == Offering(get_op_name(packet))
     IN  place' = IF found = {}
                  THEN "nobody"
                  ELSE At(svc_repo[First(found)].address,
                          svc_repo[First(found)].port)
  /\ UNCHANGED <<packet, loopVars, svc_repo, serverPc, callVars, slotKept>>

StartRequest ==
  /\ Has("server", SERVICE_REQUEST)
  /\ serverPc = "registered"
  /\ off' = 1
  /\ locals' = NoRequest
  /\ UNCHANGED <<place, packet, repoVars, serverPc, callVars, slotKept>>

\* Mutant: a zero is taken for a parameter that is missing.
ZeroMissing(v) ==
  CASE v.kind = "str"                       -> Text(v.str)
    [] v.kind = "positive" /\ v.int # 0 -> Int32(v.int)
    [] OTHER                                -> Unwritten

\* A parameter as the stub of the server gets it: a negative integer is
\* neither a string nor a positive integer, and leaves the pointer null.
Param(v) ==
  CASE v.kind = "str"      -> Text(v.str)
    [] v.kind = "positive" -> Int32(v.int)
    [] OTHER               -> Unwritten

\* The variables at the start of a round: ptrOperation is a new one.
Round == IF slotKept THEN locals ELSE [locals EXCEPT !.op = Unwritten]

\* A header other than the array sets a variable, or none.
unpack_marshal_call_send ==
  /\ place = "server"
  /\ off \in 1..Len(packet)
  /\ Header.val.kind # "array"
  /\ locals' =
       CASE Header.name = "op" /\ Header.val.kind = "str" ->
              [Round EXCEPT !.op = Header.val]
         [] Header.name = "message-id" /\ Header.val.kind = "positive" ->
              [Round EXCEPT !.message_id = Header.val]
         [] OTHER -> Round
  /\ off' = off + 1
  /\ UNCHANGED <<place, packet, repoVars, serverPc, callVars, slotKept>>

\* The array is unpacked and the operation called at once, with what has been
\* read until then.  An int parameter is read through its pointer.  No header
\* follows the array, so this ends the loop.
call_marshelResponse_send ==
  /\ place = "server"
  /\ off \in 1..Len(packet)
  /\ Header.val.kind = "array"
  /\ Round.op # Unwritten
  /\ LET params == [i \in DOMAIN Header.val.items |->
                      Param(Header.val.items[i])]
         op == Round.op.str
         types == Signature[op].params
     IN  /\ locals' = [Round EXCEPT !.params = params]
         /\ IF \E i \in DOMAIN types : types[i] = "int" /\ params[i] = Unwritten
            THEN /\ serverPc' = "down"
                 /\ place' = "nobody"
                 /\ UNCHANGED packet
            ELSE /\ Send("broker",
                         ResponsePacket(Round.message_id.int, op,
                                        Packed(Local(op, params))))
                 /\ UNCHANGED serverPc
  /\ off' = 0
  /\ UNCHANGED <<repoVars, callVars, slotKept>>

\* ptrOperation is passed on unwritten: the dispatch faults on it, or compares
\* it with every operation and finds none.
CallUnknown ==
  /\ place = "server"
  /\ off \in 1..Len(packet)
  /\ Header.val.kind = "array"
  /\ Round.op = Unwritten
  /\ serverPc' \in {"registered", "down"}
  /\ place' = "nobody"
  /\ off' = 0
  /\ locals' = Round
  /\ UNCHANGED <<packet, repoVars, callVars, slotKept>>

\* A request waits for the response in packet.
Awaits(e) ==
  /\ e.message_id = get_hdr_int(packet, "message-id")
  /\ e.operation = get_hdr_str(packet, "op")

RelayResponse ==
  /\ Has("broker", SERVICE_REQUEST_RESPONSE)
  /\ \E j \in 1..Len(clnt_req_repo) :
       /\ Awaits(clnt_req_repo[j])
       /\ \A i \in 1..(j - 1) : ~Awaits(clnt_req_repo[i])
       /\ place' = At(clnt_req_repo[j].address, clnt_req_repo[j].port)
       /\ clnt_req_repo' = Without(clnt_req_repo, j)
  /\ UNCHANGED <<packet, loopVars, svc_repo, serverPc, callVars, slotKept>>

\* The stub returns what the getter of its result type finds.
StubReturns ==
  /\ Has("client", SERVICE_REQUEST_RESPONSE)
  /\ result' = IF Signature[call.op].result = "int"
               THEN Int32(get_hdr_int(packet, "reply"))
               ELSE get_hdr_str(packet, "reply")
  /\ call' = NoCall
  /\ place' = "nobody"
  /\ UNCHANGED <<packet, loopVars, repoVars, serverPc, slotKept>>

-----------------------------------------------------------------------------

ServerNext ==
  \/ service_register_with_broker
  \/ ReceiveAck
  \/ StartRequest
  \/ unpack_marshal_call_send
  \/ call_marshelResponse_send
  \/ CallUnknown

BrokerNext ==
  \/ StartRegistration
  \/ unpack_service_registration_buffer
  \/ reg_svc_req
  \/ RelayRequest
  \/ RelayResponse

Next == ServerNext \/ BrokerNext \/ CallStub \/ StubReturns

\* Everybody goes on; the client need not make another call.
Spec == Init /\ [][Next]_vars
             /\ WF_vars(ServerNext \/ BrokerNext \/ StubReturns)

-----------------------------------------------------------------------------
(* Properties.                                                             *)

\* What the caller of a stub sees is a call of the operation as
\* server_interface.c defines it (LocalCall), where echo reverses its text and
\* does not return "the same output as the input" (server_interface.h:23): if it
\* returns, it returns what the operation itself returns for its arguments, 0
\* for an int below zero (get_hdr_int, common.c:313), and it does not return
\* when such an int is passed (unpack_marshal_call.c:60).
AsLocalCall == INSTANCE LocalCall

BehavesLocally == AsLocalCall!LocalSpec

\* The number of services precedes the services, for which it allocates
\* (unpack_service_registration_buffer.c:48,72), and operation and id precede the
\* parameters, on which the operation is called at once
\* (unpack_marshal_call.c:67).  Nothing but the order of packing sees to it.  The
\* id, a variable of the function, is then set whatever the build; the
\* operation, a variable of the loop's body, only in a build that keeps it.
SetBeforeUse ==
  off \in 1..Len(packet) /\ Header.val.kind = "array" =>
    CASE place = "broker" -> locals.services # Unwritten
      [] place = "server" -> /\ Round.message_id # Unwritten
                             /\ slotKept => Round.op # Unwritten

\* Every registration the broker holds has the location of the server and all
\* its services, each slot of the array filled, although they are packed in
\* the reverse order.
RegistrationUnderstood ==
  \A j \in 1..Len(svc_repo) :
    LET reg == svc_repo[j]
    IN  /\ At(reg.address, reg.port) = "server"
        /\ {reg.services.items[i] : i \in 1..reg.num_services}
             = {msgpack_pack_str(services[i]) : i \in 1..Len(services)}

\* A response on its way to the broker is awaited by the entry of the call that
\* is being made, and by no other: the id and operation have come through
\* client, broker, server and back as they were.
ResponseAwaited ==
  Has("broker", SERVICE_REQUEST_RESPONSE) =>
    /\ Len(clnt_req_repo) = 1
    /\ Awaits(clnt_req_repo[1])
    /\ At(clnt_req_repo[1].address, clnt_req_repo[1].port) = "client"

\* An int below zero is among the arguments.
NegativeArgument(args) == \E i \in DOMAIN args : args[i].kind = "int"
                                                 /\ args[i].int < 0

\* In a build that keeps ptrOperation, nothing but an int below zero leaves a
\* null pointer where the stub of the server reads an int
\* (server/generate_proxy.pl:66).
ServerSurvives ==
  serverPc = "down" => NegativeArgument(call.args) \/ ~slotKept

\* In such a build every call without such an argument returns, whichever
\* operation it is.
CallReturns ==
  (slotKept /\ call # NoCall /\ ~NegativeArgument(call.args)) ~> call = NoCall

-----------------------------------------------------------------------------
(* What comments of the code say and the code does not do.                 *)

\* "Unpackets service request, extracts parameters and calls server functions and
\* sends back the response to the broker" (unpack_marshal_call.c:9): when the
\* loop over a request whose parameters can all be passed is over, its response
\* is on its way.
RequestServed ==
  [][ place = "server" /\ off # 0 /\ off' = 0 /\ ~NegativeArgument(call.args)
        => place' = "broker" ]_vars

\* "Gets the integer value of a header" (common.c:289):
\* the difference that a response holds is the one that its stub returns.
IntegerReturned ==
  [][ call.op = "diffirence" /\ call' = NoCall
        => result' = Local("diffirence", call.args) ]_vars
=============================================================================
