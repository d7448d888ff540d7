--------------------------- MODULE Marshal_proofs ---------------------------
(***************************************************************************)
(* Proofs at the level of headers.  What the getters find in a packet is   *)
(* what its constructor put into it, for every id, location, operation and *)
(* value; it is what lets module Protocol write a packet as a record with  *)
(* one field for each header.  And what the stub returns is what the       *)
(* operation returns in its own process, with the two exceptions that      *)
(* module LocalCall has: Marshal implements LocalCall, for every size of   *)
(* int, all strings, all values of rand() and all locations.               *)
(***************************************************************************)
EXTENDS Marshal, Lists_proofs

-----------------------------------------------------------------------------
(* The getters, for a header that occurs once.                             *)

\* The only header of a name and kind is the first and the last one.
LEMMA OnlyOne ==
  ASSUME NEW i \in Int
  PROVE  First({i}) = i /\ Last({i}) = i
<1>1. First({i}) = i
  BY DEF First
<1>2. Last({i}) = i
  BY DEF Last
<1> QED
  BY <1>1, <1>2

\* get_hdr_int yields the value of the only positive integer of the name.
LEMMA HdrIntOnly ==
  ASSUME NEW p, NEW name, NEW i \in Int,
         HeadersOf(p, name, "positive") = {i}
  PROVE  get_hdr_int(p, name) = p[i].val.int
BY OnlyOne DEF get_hdr_int

\* get_hdr_int yields 0 when there is none.
LEMMA HdrIntNone ==
  ASSUME NEW p, NEW name, HeadersOf(p, name, "positive") = {}
  PROVE  get_hdr_int(p, name) = 0
BY DEF get_hdr_int

\* get_hdr_str yields the only string of the name.
LEMMA HdrStrOnly ==
  ASSUME NEW p, NEW name, NEW i \in Int, HeadersOf(p, name, "str") = {i}
  PROVE  get_hdr_str(p, name) = p[i].val
BY OnlyOne DEF get_hdr_str

-----------------------------------------------------------------------------
(* The packets. *)

\* Every header of a request is found by the getter of its kind: the id, the
\* operation and the place to answer to are those it was packed with.
THEOREM RequestReadBack ==
  ASSUME NEW id \in Nat, NEW loc, NEW op, NEW params
  PROVE  LET p == RequestPacket(id, loc, op, params)
         IN  /\ IsTyped(p) /\ get_req_type(p) = SERVICE_REQUEST
             /\ get_hdr_int(p, "message-id") = id
             /\ get_op_name(p) = msgpack_pack_str(op)
             /\ get_hdr_str(p, "sender-address") = msgpack_pack_str(loc.address)
             /\ get_hdr_str(p, "reply-port") = msgpack_pack_str(loc.port)
<1> DEFINE p == RequestPacket(id, loc, op, params)
<1> USE DEF pack_map_int, pack_map_str, pack_map, msgpack_pack_int,
            msgpack_pack_str, msgpack_pack_array
<1>1. /\ Len(p) = 6
      /\ p[1] = [name |-> "request-type", val |-> msgpack_pack_int(0)]
      /\ p[2] = [name |-> "message-id", val |-> msgpack_pack_int(id)]
      /\ p[3] = [name |-> "sender-address",
                 val |-> msgpack_pack_str(loc.address)]
      /\ p[4] = [name |-> "reply-port", val |-> msgpack_pack_str(loc.port)]
      /\ p[5] = [name |-> "op", val |-> msgpack_pack_str(op)]
      /\ p[6] = [name |-> "params", val |-> msgpack_pack_array(params)]
      /\ p # <<>>
  BY DEF RequestPacket, SERVICE_REQUEST
<1> HIDE DEF p
<1>2. HeadersOf(p, "message-id", "positive") = {2}
  BY <1>1 DEF HeadersOf
<1>3. HeadersOf(p, "op", "str") = {5}
  BY <1>1 DEF HeadersOf
<1>4. HeadersOf(p, "sender-address", "str") = {3}
  BY <1>1 DEF HeadersOf
<1>5. HeadersOf(p, "reply-port", "str") = {4}
  BY <1>1 DEF HeadersOf
<1>6. IsTyped(p) /\ get_req_type(p) = SERVICE_REQUEST
  BY <1>1 DEF IsTyped, get_req_type, SERVICE_REQUEST
<1>7. get_hdr_int(p, "message-id") = id
  <2>1. get_hdr_int(p, "message-id") = p[2].val.int
    BY <1>2, HdrIntOnly
  <2> QED
    BY <1>1, <2>1
<1>8. get_op_name(p) = msgpack_pack_str(op)
  BY <1>1, <1>3, HdrStrOnly DEF get_op_name
<1>9. /\ get_hdr_str(p, "sender-address") = msgpack_pack_str(loc.address)
      /\ get_hdr_str(p, "reply-port") = msgpack_pack_str(loc.port)
  <2>1. get_hdr_str(p, "sender-address") = p[3].val
    BY <1>4, HdrStrOnly
  <2>2. get_hdr_str(p, "reply-port") = p[4].val
    BY <1>5, HdrStrOnly
  <2> QED
    BY <1>1, <2>1, <2>2
<1> QED
  BY <1>6, <1>7, <1>8, <1>9 DEF p

\* A response is matched by the id and the operation it was packed with, and
\* an int that it carries comes out as it is, or as 0 when it is below zero.
THEOREM ResponseReadBack ==
  ASSUME NEW id \in Nat, NEW op, NEW v \in Int
  PROVE  LET p == ResponsePacket(id, op, msgpack_pack_int(v))
         IN  /\ IsTyped(p) /\ get_req_type(p) = SERVICE_REQUEST_RESPONSE
             /\ get_hdr_int(p, "message-id") = id
             /\ get_hdr_str(p, "op") = msgpack_pack_str(op)
             /\ get_hdr_int(p, "reply") = IF v >= 0 THEN v ELSE 0
<1> DEFINE p == ResponsePacket(id, op, msgpack_pack_int(v))
<1> USE DEF pack_map_int, pack_map_str, pack_map, msgpack_pack_int,
            msgpack_pack_str
<1>1. /\ Len(p) = 4
      /\ p[1] = [name |-> "request-type", val |-> msgpack_pack_int(1)]
      /\ p[2] = [name |-> "message-id", val |-> msgpack_pack_int(id)]
      /\ p[3] = [name |-> "op", val |-> msgpack_pack_str(op)]
      /\ p[4] = [name |-> "reply", val |-> msgpack_pack_int(v)]
      /\ p # <<>>
  BY DEF ResponsePacket, SERVICE_REQUEST_RESPONSE
<1> HIDE DEF p
<1>2. HeadersOf(p, "message-id", "positive") = {2}
  BY <1>1 DEF HeadersOf
<1>3. HeadersOf(p, "op", "str") = {3}
  BY <1>1 DEF HeadersOf
<1>4. IsTyped(p) /\ get_req_type(p) = SERVICE_REQUEST_RESPONSE
  BY <1>1 DEF IsTyped, get_req_type, SERVICE_REQUEST_RESPONSE
<1>5. get_hdr_int(p, "message-id") = id
  <2>1. get_hdr_int(p, "message-id") = p[2].val.int
    BY <1>2, HdrIntOnly
  <2> QED
    BY <1>1, <2>1
<1>6. get_hdr_str(p, "op") = msgpack_pack_str(op)
  BY <1>1, <1>3, HdrStrOnly
<1>7. CASE v >= 0
  <2>1. HeadersOf(p, "reply", "positive") = {4}
    BY <1>1, <1>7 DEF HeadersOf
  <2>2. get_hdr_int(p, "reply") = v
    BY <1>1, <2>1, HdrIntOnly
  <2> QED
    BY <1>4, <1>5, <1>6, <1>7, <2>2 DEF p
<1>8. CASE ~(v >= 0)
  <2>1. HeadersOf(p, "reply", "positive") = {}
    BY <1>1, <1>8 DEF HeadersOf
  <2>2. get_hdr_int(p, "reply") = 0
    BY <2>1, HdrIntNone
  <2> QED
    BY <1>4, <1>5, <1>6, <1>8, <2>2 DEF p
<1> QED
  BY <1>7, <1>8

\* The acknowledgement of a registration carries the id 0, because get_hdr_int
\* finds none in the registration, and goes to where the registration is from.
THEOREM RegistrationReadBack ==
  ASSUME NEW loc, NEW S, NEW names \in Seq(S)
  PROVE  LET p == RegistrationPacket(loc, names)
         IN  /\ IsTyped(p) /\ get_req_type(p) = SERVICE_REGISTRATION
             /\ get_hdr_int(p, "message-id") = 0
             /\ get_hdr_int(p, "services-count") = Len(names)
             /\ get_hdr_str(p, "sender-address") = msgpack_pack_str(loc.address)
             /\ get_hdr_str(p, "reply-port") = msgpack_pack_str(loc.port)
<1> DEFINE p == RegistrationPacket(loc, names)
<1> USE DEF pack_map_int, pack_map_str, pack_map, msgpack_pack_int,
            msgpack_pack_str, msgpack_pack_array
<1>0. Len(names) \in Nat
  OBVIOUS
<1>1. /\ Len(p) = 6
      /\ p[1] = [name |-> "request-type", val |-> msgpack_pack_int(2)]
      /\ p[2] = [name |-> "sender-address",
                 val |-> msgpack_pack_str(loc.address)]
      /\ p[3] = [name |-> "reply-port", val |-> msgpack_pack_str(loc.port)]
      /\ p[4] = [name |-> "service-name",
                 val |-> msgpack_pack_str("theServiceName")]
      /\ p[5] = [name |-> "services-count",
                 val |-> msgpack_pack_int(Len(names))]
      /\ p[6] = [name |-> "services",
                 val |-> msgpack_pack_array(PackedServices(names))]
      /\ p # <<>>
  BY DEF RegistrationPacket, SERVICE_REGISTRATION
<1> HIDE DEF p
<1>2. HeadersOf(p, "message-id", "positive") = {}
  BY <1>1 DEF HeadersOf
<1>3. HeadersOf(p, "services-count", "positive") = {5}
  BY <1>0, <1>1 DEF HeadersOf
<1>4. HeadersOf(p, "sender-address", "str") = {2}
  BY <1>1 DEF HeadersOf
<1>5. HeadersOf(p, "reply-port", "str") = {3}
  BY <1>1 DEF HeadersOf
<1>6. IsTyped(p) /\ get_req_type(p) = SERVICE_REGISTRATION
  BY <1>1 DEF IsTyped, get_req_type, SERVICE_REGISTRATION
<1>7. get_hdr_int(p, "message-id") = 0
  BY <1>2, HdrIntNone
<1>8. get_hdr_int(p, "services-count") = Len(names)
  BY <1>1, <1>3, HdrIntOnly
<1>9. /\ get_hdr_str(p, "sender-address") = msgpack_pack_str(loc.address)
      /\ get_hdr_str(p, "reply-port") = msgpack_pack_str(loc.port)
  <2>1. get_hdr_str(p, "sender-address") = p[2].val
    <3>1. 2 \in Int
      OBVIOUS
    <3> QED
      BY <1>4, <3>1, HdrStrOnly
  <2>2. get_hdr_str(p, "reply-port") = p[3].val
    <3>1. 3 \in Int
      OBVIOUS
    <3> QED
      BY <1>5, <3>1, HdrStrOnly
  <2> QED
    BY <1>1, <2>1, <2>2
<1> QED
  BY <1>6, <1>7, <1>8, <1>9 DEF p

\* The services are packed in reverse order, and none is lost or made up.
THEOREM ServicesReadBack ==
  ASSUME NEW S, NEW names \in Seq(S)
  PROVE  {PackedServices(names)[i] : i \in 1..Len(names)}
           = {msgpack_pack_str(names[i]) : i \in 1..Len(names)}
<1> DEFINE n == Len(names)
<1>1. n \in Nat
  OBVIOUS
<1> HIDE DEF n
<1>2. \A i \in 1..n : n + 1 - i \in 1..n /\ n + 1 - (n + 1 - i) = i
  BY <1>1
<1>3. \A i \in 1..n :
        PackedServices(names)[i] = msgpack_pack_str(names[n + 1 - i])
  BY DEF PackedServices, n
<1>4. \A i \in 1..n :
        PackedServices(names)[n + 1 - i] = msgpack_pack_str(names[i])
  BY <1>2, <1>3
<1>5. ASSUME NEW i \in 1..n
      PROVE  \E j \in 1..n : PackedServices(names)[i] = msgpack_pack_str(names[j])
  BY <1>2, <1>3
<1>6. ASSUME NEW i \in 1..n
      PROVE  \E j \in 1..n : msgpack_pack_str(names[i]) = PackedServices(names)[j]
  BY <1>2, <1>4
<1>7. {PackedServices(names)[i] : i \in 1..n}
        \subseteq {msgpack_pack_str(names[i]) : i \in 1..n}
  BY <1>5
<1>8. {msgpack_pack_str(names[i]) : i \in 1..n}
        \subseteq {PackedServices(names)[i] : i \in 1..n}
  BY <1>6
<1> QED
  BY <1>7, <1>8 DEF n

-----------------------------------------------------------------------------
(* Where a packet is and what it holds, phase by phase.                    *)

\* The registration as the broker holds it.
Registered ==
  [address |-> msgpack_pack_str(ServerLoc.address),
   port |-> msgpack_pack_str(ServerLoc.port),
   num_services |-> Len(services),
   services |-> [kind |-> "array", items |-> PackedServices(services)]]

\* The locals of the broker's loop when k headers of it have been read.
RegistrationRead(k) ==
  [address |-> IF k >= 2 THEN msgpack_pack_str(ServerLoc.address) ELSE Unwritten,
   port |-> IF k >= 3 THEN msgpack_pack_str(ServerLoc.port) ELSE Unwritten,
   num_services |-> IF k >= 5 THEN Len(services) ELSE 0,
   services |->
     IF k >= 6
     THEN [kind |-> "array", items |-> PackedServices(services)]
     ELSE IF k = 5
          THEN [kind |-> "array", items |-> [i \in 1..Len(services) |-> Unwritten]]
          ELSE Unwritten]

\* The locals of the server's loop when k headers of a request have been read.
RequestRead(k, id) ==
  [message_id |-> IF k >= 2 THEN msgpack_pack_int(id) ELSE Unwritten,
   op |-> IF k >= 5 THEN msgpack_pack_str(call.op) ELSE Unwritten,
   params |-> <<>>]

CallMade ==
  /\ call.op \in Operations /\ call.args \in ArgumentsOf(call.op)
  /\ call = [op |-> call.op, args |-> call.args]

\* The packets of the call, and the entry for it.
RequestOfCall(id) ==
  RequestPacket(id, ClientLoc, call.op,
                [i \in DOMAIN call.args |-> Packed(call.args[i])])

ResponseOfCall(id) ==
  ResponsePacket(id, call.op, Packed(Local(call.op, call.args)))

EntryOfCall(id) ==
  [address |-> msgpack_pack_str(ClientLoc.address),
   port |-> msgpack_pack_str(ClientLoc.port),
   operation |-> msgpack_pack_str(call.op),
   message_id |-> id]

Starting ==
  /\ serverPc = "start" /\ place = "nobody" /\ off = 0
  /\ svc_repo = <<>> /\ clnt_req_repo = <<>> /\ call = NoCall

Registering ==
  /\ serverPc = "unregistered"
  /\ clnt_req_repo = <<>> /\ call = NoCall
  /\ \/ /\ place = "broker" /\ svc_repo = <<>>
        /\ packet = RegistrationPacket(ServerLoc, services)
        /\ off \in 0..7
        /\ off # 0 => locals = RegistrationRead(off - 1)
     \/ /\ place = "server" /\ svc_repo = <<Registered>>
        /\ packet = AckPacket(0)
        /\ off = 0

Resting ==
  /\ serverPc = "registered" /\ place = "nobody" /\ off = 0
  /\ svc_repo = <<Registered>> /\ clnt_req_repo = <<>> /\ call = NoCall

Asking(id) ==
  /\ serverPc = "registered" /\ svc_repo = <<Registered>> /\ CallMade
  /\ packet = RequestOfCall(id)
  /\ \/ place = "broker" /\ off = 0 /\ clnt_req_repo = <<>>
     \/ /\ place = "server" /\ clnt_req_repo = <<EntryOfCall(id)>>
        /\ off \in 0..6
        /\ off # 0 => locals = RequestRead(off - 1, id)

Answering(id) ==
  /\ serverPc = "registered" /\ svc_repo = <<Registered>> /\ CallMade
  /\ ~NegativeArgument(call.args)
  /\ packet = ResponseOfCall(id) /\ off = 0
  /\ \/ place = "broker" /\ clnt_req_repo = <<EntryOfCall(id)>>
     \/ place = "client" /\ clnt_req_repo = <<>>

Down ==
  /\ serverPc = "down" /\ place = "nobody" /\ off = 0
  /\ svc_repo = <<Registered>> /\ CallMade
  /\ NegativeArgument(call.args)

\* The call was made with ptrOperation unwritten.
Lost ==
  /\ serverPc \in {"registered", "down"} /\ place = "nobody" /\ off = 0
  /\ svc_repo = <<Registered>> /\ call # NoCall
  /\ ~slotKept

MarshalInv ==
  \/ Starting
  \/ Registering
  \/ Resting
  \/ \E id \in Ids : Asking(id) \/ Answering(id)
  \/ Down
  \/ Lost

-----------------------------------------------------------------------------
(* The operations and their values.                                        *)

LEMMA OperationNames ==
  Operations = {"getServerDate", "add", "echo", "getBrokerName", "sayHello",
                "sayDog", "diffirence"}
BY DEF Operations, Signature

LEMMA ServicesAre ==
  /\ services \in Seq(Operations) /\ Len(services) = 7
  /\ \A op \in Operations : \E i \in 1..7 : services[i] = op
BY OperationNames DEF services

\* The kinds of the parameters and of the result, operation by operation.
LEMMA SignatureKinds ==
  ASSUME NEW op \in Operations
  PROVE  /\ Signature[op].params \in Seq({"int", "str"})
         /\ Signature[op].result \in {"int", "str"}
         /\ op = "add" => Signature[op].params = <<"int", "int">>
         /\ op = "diffirence" => Signature[op].params = <<"int", "int">>
         /\ Signature[op].result = "int" <=> op \in {"add", "diffirence"}
<1>1. /\ Signature["getServerDate"] = [params |-> <<>>, result |-> "str"]
      /\ Signature["add"] = [params |-> <<"int", "int">>, result |-> "int"]
      /\ Signature["echo"] = [params |-> <<"str">>, result |-> "str"]
      /\ Signature["getBrokerName"] = [params |-> <<>>, result |-> "str"]
      /\ Signature["sayHello"] = [params |-> <<"int", "str">>, result |-> "str"]
      /\ Signature["sayDog"] = [params |-> <<"str", "str", "str", "str">>,
                               result |-> "str"]
      /\ Signature["diffirence"] = [params |-> <<"int", "int">>, result |-> "int"]
  BY DEF Signature
<1>2. Signature[op].params \in Seq({"int", "str"})
  <2>1. /\ <<>> \in Seq({"int", "str"})
        /\ <<"int", "int">> \in Seq({"int", "str"})
        /\ <<"str">> \in Seq({"int", "str"})
        /\ <<"int", "str">> \in Seq({"int", "str"})
        /\ <<"str", "str", "str", "str">> \in Seq({"int", "str"})
    OBVIOUS
  <2>2. Signature[op].params \in {<<>>, <<"int", "int">>, <<"str">>,
                                  <<"int", "str">>, <<"str", "str", "str", "str">>}
    BY <1>1, OperationNames
  <2> QED
    BY <2>1, <2>2, Zenon
<1>3. /\ Signature[op].result \in {"int", "str"}
      /\ Signature[op].result = "int" <=> op \in {"add", "diffirence"}
  BY <1>1, OperationNames
<1>4. /\ op = "add" => Signature[op].params = <<"int", "int">>
      /\ op = "diffirence" => Signature[op].params = <<"int", "int">>
  BY <1>1
<1> QED
  BY <1>2, <1>3, <1>4

\* An argument has the kind of its parameter.
LEMMA ArgumentKinds ==
  ASSUME NEW op \in Operations, NEW args \in ArgumentsOf(op)
  PROVE  LET types == Signature[op].params
         IN  /\ Len(types) \in Nat /\ DOMAIN types = 1..Len(types)
             /\ DOMAIN args = 1..Len(types)
             /\ args = [i \in 1..Len(types) |-> args[i]]
             /\ \A i \in 1..Len(types) :
                  \/ types[i] = "int" /\ \E n \in Ints : args[i] = Int32(n)
                  \/ types[i] = "str" /\ \E t \in Texts : args[i] = Text(t)
<1> DEFINE types == Signature[op].params
<1>1. types \in Seq({"int", "str"})
  BY SignatureKinds
<1>2. /\ args \in [1..Len(types) -> UNION {ValuesOf(types[i]) : i \in 1..Len(types)}]
      /\ \A i \in 1..Len(types) : args[i] \in ValuesOf(types[i])
  BY DEF ArgumentsOf
<1> HIDE DEF types
<1>3. Len(types) \in Nat /\ DOMAIN types = 1..Len(types)
  BY <1>1
<1>4. ASSUME NEW i \in 1..Len(types)
      PROVE  \/ types[i] = "int" /\ \E n \in Ints : args[i] = Int32(n)
             \/ types[i] = "str" /\ \E t \in Texts : args[i] = Text(t)
  <2>1. types[i] \in {"int", "str"}
    BY <1>1
  <2>2. args[i] \in ValuesOf(types[i])
    BY <1>2
  <2> QED
    BY <2>1, <2>2 DEF ValuesOf
<1>5. DOMAIN args = 1..Len(types) /\ args = [i \in 1..Len(types) |-> args[i]]
  BY <1>2
<1> QED
  BY <1>3, <1>4, <1>5 DEF types

\* What an operation returns is of the type of its result.
LEMMA LocalKind ==
  ASSUME NEW op \in Operations, NEW args \in ArgumentsOf(op)
  PROVE  IF Signature[op].result = "int"
         THEN \E n \in Int : Local(op, args) = Int32(n)
         ELSE \E t : Local(op, args) = Text(t)
<1>1. ASSUME NEW i \in Int
      PROVE  Wrap(i) \in Int
  BY InterfaceAssumption DEF Wrap
<1>2. CASE op \in {"add", "diffirence"}
  <2>1. Signature[op].params = <<"int", "int">> /\ Signature[op].result = "int"
    BY <1>2, SignatureKinds
  <2>2. \A i \in 1..2 : \E n \in Ints : args[i] = Int32(n)
    <3>1. \A i \in 1..2 : Signature[op].params[i] = "int"
      BY <2>1
    <3>2. Len(Signature[op].params) = 2
      BY <2>1
    <3> QED
      BY <3>1, <3>2, ArgumentKinds
  <2>3. \A n \in Ints : n \in Int /\ Int32(n).int = n
    BY InterfaceAssumption DEF Ints, Int32
  <2>4. args[1].int \in Int /\ args[2].int \in Int
    BY <2>2, <2>3
  <2>5. \E n \in Int : Local(op, args) = Int32(n)
    <3>1. CASE op = "add"
      BY <1>1, <2>4, <3>1 DEF Local, add
    <3>2. CASE op = "diffirence"
      BY <1>1, <2>4, <3>2 DEF Local, diffirence
    <3> QED
      BY <1>2, <3>1, <3>2
  <2> QED
    BY <2>1, <2>5
<1>3. CASE op \notin {"add", "diffirence"}
  <2>1. Signature[op].result # "int"
    BY <1>3, SignatureKinds
  <2>2. \E t : Local(op, args) = Text(t)
    <3>1. CASE op = "echo"
      BY <3>1 DEF Local, echo
    <3>2. CASE op = "sayDog"
      BY <3>2 DEF Local, sayDog
    <3>3. CASE op = "sayHello"
      BY <3>3 DEF Local
    <3>4. CASE op = "getServerDate"
      BY <3>4 DEF Local
    <3>5. CASE op = "getBrokerName"
      BY <3>5 DEF Local
    <3> QED
      BY <1>3, <3>1, <3>2, <3>3, <3>4, <3>5, OperationNames
  <2> QED
    BY <2>1, <2>2
<1> QED
  BY <1>2, <1>3

-----------------------------------------------------------------------------
(* Arguments and results on the way.                                       *)

Sent(args) == [i \in DOMAIN args |-> Packed(args[i])]
Received(args) == [i \in DOMAIN Sent(args) |-> Param(Sent(args)[i])]

\* An argument arrives as it was, but for an int below zero, which does not.
LEMMA ArgumentArrives ==
  /\ \A n \in Int : Param(Packed(Int32(n))) = IF n >= 0 THEN Int32(n) ELSE Unwritten
  /\ \A t : Param(Packed(Text(t))) = Text(t)
  /\ \A n : Int32(n) # Unwritten
<1>1. \A n \in Int : Param(Packed(Int32(n))) = IF n >= 0 THEN Int32(n) ELSE Unwritten
  BY DEF Param, Packed, Int32, msgpack_pack_int
<1>2. \A t : Param(Packed(Text(t))) = Text(t)
  BY DEF Param, Packed, Text, msgpack_pack_str
<1>3. \A n : Int32(n).kind # Unwritten.kind
  BY DEF Int32, Unwritten
<1> QED
  BY <1>1, <1>2, <1>3

\* The parameters are the arguments, unless the stub of the server finds a null
\* pointer where it reads an int, which is when an int below zero was passed.
LEMMA ArgumentsArrive ==
  ASSUME NEW op \in Operations, NEW args \in ArgumentsOf(op)
  PROVE  LET types == Signature[op].params
             params == Received(args)
         IN  /\ NegativeArgument(args) <=>
                  \E i \in DOMAIN types : types[i] = "int" /\ params[i] = Unwritten
             /\ ~NegativeArgument(args) => params = args
<1> DEFINE types == Signature[op].params
           params == Received(args)
<1>1. /\ Len(types) \in Nat /\ DOMAIN types = 1..Len(types)
      /\ DOMAIN args = 1..Len(types)
      /\ args = [i \in 1..Len(types) |-> args[i]]
      /\ \A i \in 1..Len(types) :
           \/ types[i] = "int" /\ \E n \in Ints : args[i] = Int32(n)
           \/ types[i] = "str" /\ \E t \in Texts : args[i] = Text(t)
  BY ArgumentKinds
<1>2. /\ params = [i \in 1..Len(types) |-> Param(Packed(args[i]))]
      /\ \A i \in 1..Len(types) : params[i] = Param(Packed(args[i]))
  BY <1>1 DEF Received, Sent
<1>3. \A n \in Ints : n \in Int /\ Int32(n).int = n /\ Int32(n).kind = "int"
  BY InterfaceAssumption DEF Ints, Int32
<1>4. \A t : Text(t).kind # "int"
  BY DEF Text
<1> HIDE DEF types, params
<1>5. ASSUME NEW i \in 1..Len(types)
      PROVE  /\ (args[i].kind = "int" /\ args[i].int < 0) <=>
                  (types[i] = "int" /\ params[i] = Unwritten)
             /\ ~(args[i].kind = "int" /\ args[i].int < 0) => params[i] = args[i]
  <2>1. CASE types[i] = "int"
    <3>1. PICK n \in Ints : args[i] = Int32(n)
      BY <1>1, <2>1
    <3>2. n \in Int /\ args[i].kind = "int" /\ args[i].int = n
      BY <1>3, <3>1
    <3>3. params[i] = IF n >= 0 THEN Int32(n) ELSE Unwritten
      BY <1>2, <3>1, <3>2, ArgumentArrives
    <3> QED
      BY <2>1, <3>1, <3>2, <3>3, ArgumentArrives
  <2>2. CASE types[i] # "int"
    <3>1. PICK t \in Texts : args[i] = Text(t)
      BY <1>1, <2>2
    <3> QED
      BY <1>2, <1>4, <2>2, <3>1, ArgumentArrives
  <2> QED
    BY <2>1, <2>2
<1>6. NegativeArgument(args) <=>
        \E i \in DOMAIN types : types[i] = "int" /\ params[i] = Unwritten
  BY <1>1, <1>5 DEF NegativeArgument
<1>7. ASSUME ~NegativeArgument(args)
      PROVE  params = args
  <2>1. \A i \in 1..Len(types) : params[i] = args[i]
    BY <1>1, <1>5, <1>7 DEF NegativeArgument
  <2> QED
    BY <1>1, <1>2, <2>1
<1> QED
  BY <1>6, <1>7 DEF types, params

-----------------------------------------------------------------------------
(* The packets of Marshal, header by header.                               *)

LEMMA RegistrationHeaders ==
  LET p == RegistrationPacket(ServerLoc, services)
  IN  /\ Len(p) = 6
      /\ p[1] = pack_map_int("request-type", SERVICE_REGISTRATION)
      /\ p[2] = pack_map_str("sender-address", ServerLoc.address)
      /\ p[3] = pack_map_str("reply-port", ServerLoc.port)
      /\ p[4] = pack_map_str("service-name", "theServiceName")
      /\ p[5] = pack_map_int("services-count", Len(services))
      /\ p[6] = pack_map("services", msgpack_pack_array(PackedServices(services)))
BY DEF RegistrationPacket

LEMMA RequestHeaders ==
  ASSUME NEW id, NEW op, NEW params
  PROVE  LET p == RequestPacket(id, ClientLoc, op, params)
         IN  /\ Len(p) = 6
             /\ p[1] = pack_map_int("request-type", SERVICE_REQUEST)
             /\ p[2] = pack_map_int("message-id", id)
             /\ p[3] = pack_map_str("sender-address", ClientLoc.address)
             /\ p[4] = pack_map_str("reply-port", ClientLoc.port)
             /\ p[5] = pack_map_str("op", op)
             /\ p[6] = pack_map("params", msgpack_pack_array(params))
BY DEF RequestPacket

\* The acknowledgement is typed, whatever its id.
LEMMA AckReadBack ==
  ASSUME NEW id
  PROVE  IsTyped(AckPacket(id))
         /\ get_req_type(AckPacket(id)) = SERVICE_REGISTRATION_ACK
BY DEF AckPacket, IsTyped, get_req_type, pack_map_int, pack_map,
       msgpack_pack_int, SERVICE_REGISTRATION_ACK

\* A string that a response carries comes out as it is, and the rest of it too.
LEMMA TextReadBack ==
  ASSUME NEW id \in Nat, NEW op, NEW t
  PROVE  LET p == ResponsePacket(id, op, msgpack_pack_str(t))
         IN  /\ IsTyped(p) /\ get_req_type(p) = SERVICE_REQUEST_RESPONSE
             /\ get_hdr_int(p, "message-id") = id
             /\ get_hdr_str(p, "op") = msgpack_pack_str(op)
             /\ get_hdr_str(p, "reply") = msgpack_pack_str(t)
<1> DEFINE p == ResponsePacket(id, op, msgpack_pack_str(t))
<1> USE DEF pack_map_int, pack_map_str, pack_map, msgpack_pack_int,
            msgpack_pack_str
<1>1. /\ Len(p) = 4
      /\ p[1] = [name |-> "request-type", val |-> msgpack_pack_int(1)]
      /\ p[2] = [name |-> "message-id", val |-> msgpack_pack_int(id)]
      /\ p[3] = [name |-> "op", val |-> msgpack_pack_str(op)]
      /\ p[4] = [name |-> "reply", val |-> msgpack_pack_str(t)]
      /\ p # <<>>
  BY DEF ResponsePacket, SERVICE_REQUEST_RESPONSE
<1> HIDE DEF p
<1>2. HeadersOf(p, "message-id", "positive") = {2}
  BY <1>1 DEF HeadersOf
<1>3. HeadersOf(p, "op", "str") = {3}
  BY <1>1 DEF HeadersOf
<1>4. HeadersOf(p, "reply", "str") = {4}
  BY <1>1 DEF HeadersOf
<1>5. IsTyped(p) /\ get_req_type(p) = SERVICE_REQUEST_RESPONSE
  BY <1>1 DEF IsTyped, get_req_type, SERVICE_REQUEST_RESPONSE
<1>6. get_hdr_int(p, "message-id") = id
  <2>1. get_hdr_int(p, "message-id") = p[2].val.int
    BY <1>2, HdrIntOnly
  <2> QED
    BY <1>1, <2>1
<1>7. get_hdr_str(p, "op") = p[3].val /\ get_hdr_str(p, "reply") = p[4].val
  <2>1. 3 \in Int /\ 4 \in Int
    OBVIOUS
  <2> QED
    BY <1>3, <1>4, <2>1, HdrStrOnly
<1> QED
  BY <1>1, <1>5, <1>6, <1>7 DEF p

LEMMA IdsNat == Ids \subseteq Nat
BY InterfaceAssumption, MarshalAssumption

\* What the response to a call holds.
LEMMA ResponseOfCallReadBack ==
  ASSUME NEW id \in Ids, CallMade
  PROVE  LET p == ResponseOfCall(id)
             v == Local(call.op, call.args)
         IN  /\ IsTyped(p) /\ get_req_type(p) = SERVICE_REQUEST_RESPONSE
             /\ get_hdr_int(p, "message-id") = id
             /\ get_hdr_str(p, "op") = msgpack_pack_str(call.op)
             /\ IF Signature[call.op].result = "int"
                THEN \E n \in Int : /\ v = Int32(n)
                                    /\ get_hdr_int(p, "reply") = IF n >= 0 THEN n ELSE 0
                ELSE \E t : v = Text(t) /\ get_hdr_str(p, "reply") = v
<1> DEFINE p == ResponseOfCall(id)
           v == Local(call.op, call.args)
<1>1. id \in Nat /\ call.op \in Operations /\ call.args \in ArgumentsOf(call.op)
  BY IdsNat DEF CallMade
<1>2. CASE Signature[call.op].result = "int"
  <2>1. PICK n \in Int : v = Int32(n)
    BY <1>1, <1>2, LocalKind
  <2>2. p = ResponsePacket(id, call.op, msgpack_pack_int(n))
    BY <2>1 DEF ResponseOfCall, Packed, Int32
  <2> QED
    BY <1>1, <1>2, <2>1, <2>2, ResponseReadBack
<1>3. CASE Signature[call.op].result # "int"
  <2>1. PICK t : v = Text(t)
    BY <1>1, <1>3, LocalKind
  <2>2. p = ResponsePacket(id, call.op, msgpack_pack_str(t))
    BY <2>1 DEF ResponseOfCall, Packed, Text
  <2>3. msgpack_pack_str(t) = Text(t)
    BY DEF msgpack_pack_str, Text
  <2> QED
    BY <1>1, <1>3, <2>1, <2>2, <2>3, TextReadBack
<1> QED
  BY <1>2, <1>3

\* Server and client are told apart by address and port.
LEMMA AtLocations ==
  /\ At(msgpack_pack_str(ServerLoc.address), msgpack_pack_str(ServerLoc.port))
       = "server"
  /\ At(msgpack_pack_str(ClientLoc.address), msgpack_pack_str(ClientLoc.port))
       = "client"
<1>1. \A a, b : msgpack_pack_str(a) = msgpack_pack_str(b) => a = b
  <2> SUFFICES ASSUME NEW a, NEW b, msgpack_pack_str(a) = msgpack_pack_str(b)
               PROVE  a = b
    OBVIOUS
  <2>1. msgpack_pack_str(a).str = a /\ msgpack_pack_str(b).str = b
    BY DEF msgpack_pack_str
  <2> QED
    BY <2>1
<1> QED
  BY <1>1, MarshalAssumption DEF At

-----------------------------------------------------------------------------
(* Which phase it is.                                                      *)

LEMMA PacketTypes ==
  /\ LET p == RegistrationPacket(ServerLoc, services)
     IN  IsTyped(p) /\ get_req_type(p) = SERVICE_REGISTRATION
  /\ IsTyped(AckPacket(0)) /\ get_req_type(AckPacket(0)) = SERVICE_REGISTRATION_ACK
  /\ \A id \in Ids :
       /\ IsTyped(RequestOfCall(id))
       /\ get_req_type(RequestOfCall(id)) = SERVICE_REQUEST
       /\ CallMade => /\ IsTyped(ResponseOfCall(id))
                      /\ get_req_type(ResponseOfCall(id)) = SERVICE_REQUEST_RESPONSE
<1>1. LET p == RegistrationPacket(ServerLoc, services)
      IN  IsTyped(p) /\ get_req_type(p) = SERVICE_REGISTRATION
  BY ServicesAre, RegistrationReadBack
<1>2. IsTyped(AckPacket(0)) /\ get_req_type(AckPacket(0)) = SERVICE_REGISTRATION_ACK
  BY AckReadBack
<1>3. \A id \in Ids : /\ IsTyped(RequestOfCall(id))
                      /\ get_req_type(RequestOfCall(id)) = SERVICE_REQUEST
  BY IdsNat, RequestReadBack DEF RequestOfCall
<1>4. ASSUME NEW id \in Ids, CallMade
      PROVE  /\ IsTyped(ResponseOfCall(id))
             /\ get_req_type(ResponseOfCall(id)) = SERVICE_REQUEST_RESPONSE
  BY <1>4, ResponseOfCallReadBack
<1> QED
  BY <1>1, <1>2, <1>3, <1>4

LEMMA PhaseOf ==
  ASSUME MarshalInv
  PROVE  /\ Has("broker", SERVICE_REGISTRATION) => Registering
         /\ Has("broker", SERVICE_REQUEST) => \E id \in Ids : Asking(id)
         /\ Has("broker", SERVICE_REQUEST_RESPONSE) => \E id \in Ids : Answering(id)
         /\ Has("server", SERVICE_REGISTRATION_ACK) => Registering
         /\ Has("server", SERVICE_REQUEST) => \E id \in Ids : Asking(id)
         /\ Has("client", SERVICE_REQUEST_RESPONSE) => \E id \in Ids : Answering(id)
         /\ place = "broker" /\ off # 0 => Registering
         /\ place = "server" /\ off # 0 => \E id \in Ids : Asking(id)
<1> USE DEF SERVICE_REGISTRATION, SERVICE_REGISTRATION_ACK, SERVICE_REQUEST,
            SERVICE_REQUEST_RESPONSE
<1>1. CASE Starting \/ Resting \/ Down \/ Lost
  BY <1>1 DEF Starting, Resting, Down, Lost, Has
<1>2. CASE Registering
  BY <1>2, PacketTypes DEF Registering, Has
<1>3. ASSUME NEW id \in Ids, Asking(id)
      PROVE  /\ place = "broker" => off = 0
             /\ place \in {"broker", "server"}
             /\ get_req_type(packet) = SERVICE_REQUEST
  BY <1>3, PacketTypes DEF Asking
<1>4. ASSUME NEW id \in Ids, Answering(id)
      PROVE  /\ off = 0 /\ place \in {"broker", "client"}
             /\ get_req_type(packet) = SERVICE_REQUEST_RESPONSE
  BY <1>4, PacketTypes DEF Answering
<1>5. CASE \E id \in Ids : Asking(id)
  BY <1>3, <1>5 DEF Has
<1>6. CASE \E id \in Ids : Answering(id)
  BY <1>4, <1>6 DEF Has
<1> QED
  BY <1>1, <1>2, <1>5, <1>6 DEF MarshalInv

-----------------------------------------------------------------------------
(* The registration. *)

LEMMA RegisterStep ==
  ASSUME MarshalInv, service_register_with_broker
  PROVE  Registering'
<1>1. Starting
  BY DEF MarshalInv, service_register_with_broker, Starting, Registering, Resting,
     Asking, Answering, Down, Lost
<1> QED
  BY <1>1 DEF Starting, Registering, service_register_with_broker, Send, loopVars,
     repoVars, callVars

LEMMA StartRegistrationStep ==
  ASSUME MarshalInv, StartRegistration
  PROVE  Registering'
<1>1. Registering /\ place = "broker"
  BY PhaseOf DEF StartRegistration, Has
<1>2. NoRegistration = RegistrationRead(0)
  BY DEF NoRegistration, RegistrationRead
<1> QED
  BY <1>1, <1>2 DEF Registering, StartRegistration, repoVars, callVars,
     RegistrationRead

\* What the assignments to the locals of the loop make of them.
LEMMA LocalsSet ==
  ASSUME NEW a, NEW b, NEW n, NEW x, NEW m, NEW y,
         NEW r, r = [address |-> a, port |-> b, num_services |-> n, services |-> x]
  PROVE  /\ r.services = x
         /\ [r EXCEPT !.services = y]
              = [address |-> a, port |-> b, num_services |-> n, services |-> y]
         /\ [r EXCEPT !.num_services = m, !.services = y]
              = [address |-> a, port |-> b, num_services |-> m, services |-> y]
<1>1. r.services = x
  OBVIOUS
<1>2. [r EXCEPT !.services = y]
        = [address |-> a, port |-> b, num_services |-> n, services |-> y]
  OBVIOUS
<1>3. [r EXCEPT !.num_services = m, !.services = y]
        = [address |-> a, port |-> b, num_services |-> m, services |-> y]
  <2>1. [r EXCEPT !.num_services = m, !.services = y]
          = [[r EXCEPT !.num_services = m] EXCEPT !.services = y]
    OBVIOUS
  <2>2. [r EXCEPT !.num_services = m]
          = [address |-> a, port |-> b, num_services |-> m, services |-> x]
    OBVIOUS
  <2>3. [[address |-> a, port |-> b, num_services |-> m, services |-> x]
           EXCEPT !.services = y]
          = [address |-> a, port |-> b, num_services |-> m, services |-> y]
    OBVIOUS
  <2> QED
    BY <2>1, <2>2, <2>3, Zenon
<1> QED
  BY <1>1, <1>2, <1>3

LEMMA ServicesSet ==
  ASSUME NEW a, NEW b, NEW n, NEW x, NEW y
  PROVE  [[address |-> a, port |-> b, num_services |-> n, services |-> x]
            EXCEPT !.services = y]
           = [address |-> a, port |-> b, num_services |-> n, services |-> y]
OBVIOUS

LEMMA ItemsSet ==
  ASSUME NEW x, NEW y
  PROVE  [[kind |-> "array", items |-> x] EXCEPT !.items = y]
           = [kind |-> "array", items |-> y]
OBVIOUS

LEMMA NestedSet ==
  ASSUME NEW r, NEW x
  PROVE  [r EXCEPT !.services.items = x]
           = [r EXCEPT !.services = [r.services EXCEPT !.items = x]]
OBVIOUS

\* The number of services allocates their array.
LEMMA CountRead ==
  ASSUME NEW a, NEW b, NEW n, NEW h,
         locals = [address |-> a, port |-> b, num_services |-> 0,
                   services |-> Unwritten],
         h.val.kind = "positive", h.name = "services-count", h.val.int = n
  PROVE  RegistrationLocals(h)
           = [address |-> a, port |-> b, num_services |-> n,
              services |-> [kind |-> "array",
                            items |-> [i \in 1..n |-> Unwritten]]]
<1>1. [i \in 1..h.val.int |-> Unwritten] = [i \in 1..n |-> Unwritten]
  OBVIOUS
<1>2. RegistrationLocals(h)
        = [locals EXCEPT !.num_services = h.val.int,
             !.services = [kind |-> "array",
                           items |-> [i \in 1..h.val.int |-> Unwritten]]]
  BY Zenon DEF RegistrationLocals
<1>3. RegistrationLocals(h)
        = [locals EXCEPT !.num_services = n,
             !.services = [kind |-> "array",
                           items |-> [i \in 1..n |-> Unwritten]]]
  BY <1>1, <1>2, Zenon
<1> QED
  BY <1>3, LocalsSet

\* The array of services fills it.
Allocated(a, b, n) ==
  [address |-> a, port |-> b, num_services |-> n,
   services |-> [kind |-> "array", items |-> [i \in 1..n |-> Unwritten]]]

Filled(a, b, n, items) ==
  [address |-> a, port |-> b, num_services |-> n,
   services |-> [kind |-> "array", items |-> items]]

Full(items, n) == Len(items) = n /\ items = [i \in 1..n |-> items[i]]

LEMMA ArrayRead ==
  ASSUME NEW a, NEW b, NEW n \in Nat, NEW items, NEW h,
         locals = Allocated(a, b, n),
         h.val.kind = "array", h.val.items = items, Full(items, n)
  PROVE  RegistrationLocals(h) = Filled(a, b, n, items)
<1> DEFINE empty == [kind |-> "array", items |-> [i \in 1..n |-> Unwritten]]
<1>1. /\ locals = [address |-> a, port |-> b, num_services |-> n,
                    services |-> empty]
      /\ locals.services = empty
  BY DEF Allocated
<1>2. [i \in DOMAIN locals.services.items |->
         IF i <= Len(h.val.items) THEN h.val.items[i]
                                  ELSE locals.services.items[i]] = items
  BY <1>1 DEF Full
<1>3. RegistrationLocals(h) = [locals EXCEPT !.services.items = items]
  BY <1>2 DEF RegistrationLocals
<1>4. [locals EXCEPT !.services.items = items]
        = [locals EXCEPT !.services = [locals.services EXCEPT !.items = items]]
  BY NestedSet, Zenon
<1>5. [empty EXCEPT !.items = items] = [kind |-> "array", items |-> items]
  BY ItemsSet, Zenon
<1>6. RegistrationLocals(h)
        = [locals EXCEPT !.services = [kind |-> "array", items |-> items]]
  BY <1>1, <1>3, <1>4, <1>5, Zenon
<1> HIDE DEF empty
<1>7. [[address |-> a, port |-> b, num_services |-> n, services |-> empty]
         EXCEPT !.services = [kind |-> "array", items |-> items]]
        = Filled(a, b, n, items)
  BY ServicesSet DEF Filled
<1> QED
  BY <1>1, <1>6, <1>7, Zenon

\* One header more of the registration has been read.
LEMMA RegistrationReadNext ==
  ASSUME NEW k \in 1..6, packet = RegistrationPacket(ServerLoc, services),
         off = k
  PROVE  locals = RegistrationRead(k - 1)
           => RegistrationLocals(Header) = RegistrationRead(k)
<1>1. PICK p, n, a, b, items :
        /\ p = RegistrationPacket(ServerLoc, services)
        /\ n = Len(services)
        /\ a = msgpack_pack_str(ServerLoc.address)
        /\ b = msgpack_pack_str(ServerLoc.port)
        /\ items = PackedServices(services)
  OBVIOUS
<1>2. /\ Header = p[k] /\ n = 7
      /\ p[1] = pack_map_int("request-type", 2)
      /\ p[2] = pack_map_str("sender-address", ServerLoc.address)
      /\ p[3] = pack_map_str("reply-port", ServerLoc.port)
      /\ p[4] = pack_map_str("service-name", "theServiceName")
      /\ p[5] = pack_map_int("services-count", n)
      /\ p[6] = pack_map("services", msgpack_pack_array(items))
  BY <1>1, RegistrationHeaders, ServicesAre DEF Header, SERVICE_REGISTRATION
<1>3. /\ p[1].val.kind = "positive" /\ p[1].name = "request-type"
      /\ p[2].val = a /\ a.kind = "str" /\ p[2].name = "sender-address"
      /\ p[3].val = b /\ b.kind = "str" /\ p[3].name = "reply-port"
      /\ p[4].val.kind = "str" /\ p[4].name = "service-name"
      /\ p[5].val.kind = "positive" /\ p[5].name = "services-count"
      /\ p[5].val.int = n
      /\ p[6].val.kind = "array" /\ p[6].val.items = items
  BY <1>1, <1>2 DEF pack_map_int, pack_map_str, pack_map, msgpack_pack_int,
     msgpack_pack_str, msgpack_pack_array
<1>4. ASSUME NEW j \in 0..6
      PROVE  RegistrationRead(j)
               = [address |-> IF j >= 2 THEN a ELSE Unwritten,
                  port |-> IF j >= 3 THEN b ELSE Unwritten,
                  num_services |-> IF j >= 5 THEN n ELSE 0,
                  services |->
                    IF j >= 6
                    THEN [kind |-> "array", items |-> items]
                    ELSE IF j = 5
                         THEN [kind |-> "array",
                               items |-> [i \in 1..n |-> Unwritten]]
                         ELSE Unwritten]
  BY <1>1 DEF RegistrationRead
<1>5. ASSUME k = 1, locals = RegistrationRead(k - 1)
      PROVE  RegistrationLocals(Header) = RegistrationRead(k)
  <2>1. RegistrationRead(1) = RegistrationRead(0)
    BY <1>4
  <2>2. RegistrationLocals(Header) = locals
    BY <1>2, <1>3, <1>5 DEF RegistrationLocals
  <2> QED
    BY <1>5, <2>1, <2>2
<1>6. ASSUME k = 2, locals = RegistrationRead(k - 1)
      PROVE  RegistrationLocals(Header) = RegistrationRead(k)
  <2>1. locals = [address |-> Unwritten, port |-> Unwritten,
                  num_services |-> 0, services |-> Unwritten]
    BY <1>4, <1>6
  <2>2. RegistrationLocals(Header) = [locals EXCEPT !.address = a]
    BY <1>2, <1>3, <1>6 DEF RegistrationLocals
  <2>3. RegistrationRead(2) = [address |-> a, port |-> Unwritten,
                               num_services |-> 0, services |-> Unwritten]
    BY <1>4
  <2>4. RegistrationLocals(Header) = RegistrationRead(2)
    BY <2>1, <2>2, <2>3
  <2> QED
    BY <1>6, <2>4
<1>7. ASSUME k = 3, locals = RegistrationRead(k - 1)
      PROVE  RegistrationLocals(Header) = RegistrationRead(k)
  <2>1. locals = [address |-> a, port |-> Unwritten,
                  num_services |-> 0, services |-> Unwritten]
    BY <1>4, <1>7
  <2>2. RegistrationLocals(Header) = [locals EXCEPT !.port = b]
    BY <1>2, <1>3, <1>7 DEF RegistrationLocals
  <2>3. RegistrationRead(3) = [address |-> a, port |-> b,
                               num_services |-> 0, services |-> Unwritten]
    BY <1>4
  <2>4. RegistrationLocals(Header) = RegistrationRead(3)
    BY <2>1, <2>2, <2>3
  <2> QED
    BY <1>7, <2>4
<1>8. ASSUME k = 4, locals = RegistrationRead(k - 1)
      PROVE  RegistrationLocals(Header) = RegistrationRead(k)
  <2>1. RegistrationRead(4) = RegistrationRead(3)
    BY <1>4
  <2>2. RegistrationLocals(Header) = locals
    BY <1>2, <1>3, <1>8 DEF RegistrationLocals
  <2> QED
    BY <1>8, <2>1, <2>2
<1>9. ASSUME k = 5, locals = RegistrationRead(k - 1)
      PROVE  RegistrationLocals(Header) = RegistrationRead(k)
  <2>1. locals = [address |-> a, port |-> b,
                  num_services |-> 0, services |-> Unwritten]
    BY <1>4, <1>9
  <2>2. /\ Header.val.kind = "positive" /\ Header.name = "services-count"
        /\ Header.val.int = n
    BY <1>2, <1>3, <1>9
  <2>3. RegistrationRead(5)
          = [address |-> a, port |-> b, num_services |-> n,
             services |-> [kind |-> "array",
                           items |-> [i \in 1..n |-> Unwritten]]]
    BY <1>4
  <2>4. RegistrationLocals(Header)
          = [address |-> a, port |-> b, num_services |-> n,
             services |-> [kind |-> "array",
                           items |-> [i \in 1..n |-> Unwritten]]]
    BY <2>1, <2>2, CountRead, Zenon
  <2>5. RegistrationLocals(Header) = RegistrationRead(5)
    BY <2>3, <2>4, Zenon
  <2> QED
    BY <1>9, <2>5
<1>10. ASSUME k = 6, locals = RegistrationRead(k - 1)
       PROVE  RegistrationLocals(Header) = RegistrationRead(k)
  <2>1. n \in Nat /\ Full(items, n)
    BY <1>1, <1>2 DEF PackedServices, Full
  <2>2. locals = Allocated(a, b, n)
    BY <1>4, <1>10 DEF Allocated
  <2>3. Header.val.kind = "array" /\ Header.val.items = items
    BY <1>2, <1>3, <1>10
  <2>4. RegistrationLocals(Header) = Filled(a, b, n, items)
    BY <2>1, <2>2, <2>3, ArrayRead
  <2>5. RegistrationRead(6) = Filled(a, b, n, items)
    BY <1>4 DEF Filled
  <2> QED
    BY <1>10, <2>4, <2>5
<1> QED
  BY <1>5, <1>6, <1>7, <1>8, <1>9, <1>10

LEMMA UnpackRegistrationStep ==
  ASSUME MarshalInv, unpack_service_registration_buffer
  PROVE  Registering'
<1>1. Registering /\ place = "broker" /\ off \in 1..6
  <2>1. Registering /\ place = "broker"
    BY PhaseOf DEF unpack_service_registration_buffer
  <2>2. Len(packet) = 6
    BY <2>1, RegistrationHeaders DEF Registering
  <2> QED
    BY <2>1, <2>2 DEF unpack_service_registration_buffer
<1>2. /\ packet = RegistrationPacket(ServerLoc, services)
      /\ locals = RegistrationRead(off - 1)
  BY <1>1 DEF Registering
<1>3. PICK k \in 1..6 : k = off
  BY <1>1
<1>4. RegistrationLocals(Header) = RegistrationRead(k)
  BY <1>2, <1>3, RegistrationReadNext
<1>5. locals' = RegistrationRead(k) /\ off' = k + 1
  BY <1>3, <1>4 DEF unpack_service_registration_buffer
<1>6. off' \in 0..7 /\ off' # 0 /\ off' - 1 = k
  BY <1>5
<1>7. RegistrationRead(k)' = RegistrationRead(k)
  BY DEF RegistrationRead
<1>8. locals' = RegistrationRead(off - 1)'
  BY <1>5, <1>6, <1>7
<1> QED
  BY <1>1, <1>2, <1>6, <1>8
  DEF Registering, unpack_service_registration_buffer, repoVars, callVars

LEMMA StoreRegistrationStep ==
  ASSUME MarshalInv, reg_svc_req
  PROVE  Registering'
<1>1. /\ Registering /\ place = "broker" /\ off > Len(packet)
      /\ packet = RegistrationPacket(ServerLoc, services)
      /\ Len(packet) = 6 /\ off = 7 /\ locals = RegistrationRead(6)
  <2>1. place = "broker" /\ off > Len(packet)
    BY DEF reg_svc_req
  <2>2. off # 0
    <3>1. ASSUME off = 0
          PROVE  Len(packet) \in Nat
      <4>1. CASE Registering
        BY <2>1, <4>1, RegistrationHeaders DEF Registering
      <4>2. ASSUME NEW id \in Ids, Asking(id)
            PROVE  Len(packet) \in Nat
        BY <4>2, RequestHeaders DEF Asking, RequestOfCall
      <4>3. ASSUME NEW id \in Ids, Answering(id)
            PROVE  Len(packet) \in Nat
        BY <4>3 DEF Answering, ResponseOfCall, ResponsePacket
      <4> QED
        BY <2>1, <4>1, <4>2, <4>3 DEF MarshalInv, Starting, Resting, Down
    <3> QED
      BY <2>1, <3>1
  <2>3. Registering
    BY <2>1, <2>2, PhaseOf
  <2>4. packet = RegistrationPacket(ServerLoc, services) /\ Len(packet) = 6
    BY <2>1, <2>3, RegistrationHeaders DEF Registering
  <2>5. off = 7
    BY <2>1, <2>3, <2>4 DEF Registering
  <2> QED
    BY <2>1, <2>3, <2>4, <2>5 DEF Registering
<1>2. RegistrationRead(6) = Registered
  BY DEF RegistrationRead, Registered
<1>3. /\ get_hdr_int(packet, "message-id") = 0
      /\ get_hdr_str(packet, "sender-address") = msgpack_pack_str(ServerLoc.address)
      /\ get_hdr_str(packet, "reply-port") = msgpack_pack_str(ServerLoc.port)
  BY <1>1, ServicesAre, RegistrationReadBack
<1>4. place' = "server" /\ packet' = AckPacket(0) /\ off' = 0
  BY <1>3, AtLocations DEF reg_svc_req, Send
<1>5. svc_repo' = <<Registered>>
  BY <1>1, <1>2 DEF reg_svc_req, Registering
<1>6. UNCHANGED <<clnt_req_repo, serverPc, call>>
  BY DEF reg_svc_req, callVars
<1> QED
  BY <1>1, <1>4, <1>5, <1>6 DEF Registering, Registered

LEMMA ReceiveAckStep ==
  ASSUME MarshalInv, ReceiveAck
  PROVE  Resting'
<1>1. Registering /\ place = "server"
  BY PhaseOf DEF ReceiveAck, Has
<1> QED
  BY <1>1 DEF Registering, Resting, ReceiveAck, loopVars, repoVars, callVars,
     Registered

-----------------------------------------------------------------------------
(* The call.                                                               *)

LEMMA CallStubStep ==
  ASSUME MarshalInv, CallStub
  PROVE  \E id \in Ids : Asking(id)'
<1>1. Resting
  BY DEF MarshalInv, CallStub, Starting, Registering, Resting, Asking, Answering,
     Down, Lost
<1>2. PICK op, args, id :
        /\ op \in Operations /\ args \in ArgumentsOf(op) /\ id \in Ids
        /\ call' = [op |-> op, args |-> args]
        /\ place' = "broker"
        /\ packet' = RequestPacket(id, ClientLoc, op,
                                   [i \in DOMAIN args |-> Packed(args[i])])
  BY DEF CallStub, Send
<1>3. call'.op = op /\ call'.args = args
  BY <1>2
<1>4. CallMade'
  BY <1>2, <1>3 DEF CallMade
<1>5. packet' = RequestOfCall(id)'
  BY <1>2, <1>3 DEF RequestOfCall
<1>6. serverPc' = "registered" /\ svc_repo' = <<Registered>> /\ off' = 0
      /\ clnt_req_repo' = <<>>
  BY <1>1 DEF Resting, CallStub, loopVars, repoVars
<1>7. Registered' = Registered
  BY DEF Registered
<1>8. Asking(id)'
  BY <1>2, <1>4, <1>5, <1>6, <1>7 DEF Asking
<1> QED
  BY <1>2, <1>8

\* The server that has registered offers every operation.
LEMMA Offered ==
  ASSUME NEW op \in Operations, svc_repo = <<Registered>>
  PROVE  /\ Offering(msgpack_pack_str(op)) = {1}
         /\ First({1}) = 1
<1> DEFINE n == Len(services)
           items == PackedServices(services)
<1>1. n = 7 /\ \E i \in 1..n : items[i] = msgpack_pack_str(op)
  <2>1. PICK j \in 1..7 : services[j] = op
    BY OperationNames DEF services
  <2>2. n = 7
    BY DEF services
  <2>3. /\ 8 - j \in 1..n
        /\ items[8 - j] = msgpack_pack_str(services[j])
    BY <2>2 DEF PackedServices
  <2> QED
    BY <2>1, <2>2, <2>3
<1>2. /\ Len(svc_repo) = 1 /\ svc_repo[1].num_services = n
      /\ svc_repo[1].services.items = items
  BY DEF Registered
<1>3. Offering(msgpack_pack_str(op)) = {1}
  BY <1>1, <1>2 DEF Offering
<1>4. First({1}) = 1
  BY OnlyOne
<1> QED
  BY <1>3, <1>4

LEMMA RelayRequestStep ==
  ASSUME MarshalInv, RelayRequest
  PROVE  \E id \in Ids : Asking(id)'
<1>1. PICK id \in Ids : Asking(id) /\ place = "broker" /\ off = 0
  BY PhaseOf DEF RelayRequest, Has
<1>2. /\ serverPc = "registered" /\ svc_repo = <<Registered>> /\ CallMade
      /\ packet = RequestOfCall(id) /\ clnt_req_repo = <<>>
      /\ call.op \in Operations
  BY <1>1 DEF Asking, CallMade
<1>3. /\ get_hdr_int(packet, "message-id") = id
      /\ get_op_name(packet) = msgpack_pack_str(call.op)
      /\ get_hdr_str(packet, "op") = msgpack_pack_str(call.op)
      /\ get_hdr_str(packet, "sender-address") = msgpack_pack_str(ClientLoc.address)
      /\ get_hdr_str(packet, "reply-port") = msgpack_pack_str(ClientLoc.port)
  BY <1>2, IdsNat, RequestReadBack DEF RequestOfCall, get_op_name
<1>4. clnt_req_repo' = <<EntryOfCall(id)>>
  BY <1>2, <1>3 DEF RelayRequest, EntryOfCall
<1>5. Offering(get_op_name(packet)) = {1} /\ First({1}) = 1
  BY <1>2, <1>3, Offered
<1>6. place' = At(svc_repo[1].address, svc_repo[1].port)
  BY <1>5 DEF RelayRequest
<1>7. place' = "server"
  <2>1. /\ svc_repo[1].address = msgpack_pack_str(ServerLoc.address)
        /\ svc_repo[1].port = msgpack_pack_str(ServerLoc.port)
    BY <1>2 DEF Registered
  <2> QED
    BY <1>6, <2>1, AtLocations
<1>8. UNCHANGED <<packet, off, svc_repo, serverPc, call>>
  BY DEF RelayRequest, loopVars, callVars
<1>9. /\ CallMade' /\ packet' = RequestOfCall(id)'
      /\ EntryOfCall(id)' = EntryOfCall(id) /\ Registered' = Registered
  BY <1>2, <1>8 DEF CallMade, RequestOfCall, EntryOfCall, Registered
<1>10. off' = 0 /\ off' \in 0..6
  BY <1>1, <1>8
<1>11. Asking(id)'
  BY <1>2, <1>4, <1>7, <1>8, <1>9, <1>10 DEF Asking
<1> QED
  BY <1>11

\* While the server reads the request, nothing but its loop moves.
LEMMA StillAsking ==
  ASSUME NEW id \in Ids, Asking(id), place = "server",
         UNCHANGED <<place, packet, repoVars, serverPc, callVars>>,
         off' \in 0..6, off' # 0 => locals' = RequestRead(off - 1, id)'
  PROVE  Asking(id)'
<1>1. UNCHANGED <<place, packet, svc_repo, clnt_req_repo, serverPc, call>>
  BY DEF repoVars, callVars
<1>2. /\ serverPc = "registered" /\ svc_repo = <<Registered>> /\ CallMade
      /\ packet = RequestOfCall(id)
      /\ place = "server" /\ clnt_req_repo = <<EntryOfCall(id)>>
  BY DEF Asking
<1>3. /\ CallMade' /\ packet' = RequestOfCall(id)'
      /\ EntryOfCall(id)' = EntryOfCall(id) /\ Registered' = Registered
  BY <1>1, <1>2 DEF CallMade, RequestOfCall, EntryOfCall, Registered
<1> QED
  BY <1>1, <1>2, <1>3 DEF Asking

LEMMA StartRequestStep ==
  ASSUME MarshalInv, StartRequest
  PROVE  \E id \in Ids : Asking(id)'
<1>1. PICK id \in Ids : Asking(id) /\ place = "server"
  BY PhaseOf DEF StartRequest, Has
<1>2. NoRequest = RequestRead(0, id)'
  BY DEF NoRequest, RequestRead
<1>3. off' = 1 /\ off' - 1 = 0
  BY DEF StartRequest
<1>4. locals' = RequestRead(off - 1, id)'
  <2>1. RequestRead(off - 1, id)' = RequestRead(0, id)'
    BY <1>3 DEF RequestRead
  <2> QED
    BY <1>2, <2>1 DEF StartRequest
<1>5. Asking(id)'
  BY <1>1, <1>3, <1>4, StillAsking DEF StartRequest
<1> QED
  BY <1>5

\* One header more of the request has been read.
RequestLocals(h) ==
  CASE h.name = "op" /\ h.val.kind = "str" -> [Round EXCEPT !.op = h.val]
    [] h.name = "message-id" /\ h.val.kind = "positive" ->
         [Round EXCEPT !.message_id = h.val]
    [] OTHER -> Round

\* Up to the header op, the operation is unwritten in every build.
LEMMA RoundRead ==
  ASSUME NEW k \in 0..4, NEW id, locals = RequestRead(k, id)
  PROVE  Round = locals
<1>0. PICK m : m = IF k >= 2 THEN msgpack_pack_int(id) ELSE Unwritten
  OBVIOUS
<1>1. locals = [message_id |-> m, op |-> Unwritten, params |-> <<>>]
  BY <1>0 DEF RequestRead
<1>2. [locals EXCEPT !.op = Unwritten] = locals
  BY <1>1
<1> QED
  BY <1>2 DEF Round

LEMMA RequestKinds ==
  ASSUME NEW id \in Ids
  PROVE  LET p == RequestOfCall(id)
         IN  /\ Len(p) = 6
             /\ p[1].name = "request-type"
             /\ p[2].name = "message-id" /\ p[2].val = msgpack_pack_int(id)
             /\ p[2].val.kind = "positive"
             /\ p[3].name = "sender-address"
             /\ p[4].name = "reply-port"
             /\ p[5].name = "op" /\ p[5].val = msgpack_pack_str(call.op)
             /\ p[5].val.kind = "str"
             /\ p[6].val = msgpack_pack_array(Sent(call.args))
             /\ p[6].val.kind = "array" /\ p[6].val.items = Sent(call.args)
             /\ \A k \in 1..5 : p[k].val.kind # "array"
<1>1. id \in Nat
  BY IdsNat
<1>2. PICK p : p = RequestOfCall(id)
  OBVIOUS
<1>3. /\ Len(p) = 6
      /\ p[1] = pack_map_int("request-type", 0)
      /\ p[2] = pack_map_int("message-id", id)
      /\ p[3] = pack_map_str("sender-address", ClientLoc.address)
      /\ p[4] = pack_map_str("reply-port", ClientLoc.port)
      /\ p[5] = pack_map_str("op", call.op)
      /\ p[6] = pack_map("params", msgpack_pack_array(Sent(call.args)))
  BY <1>2, RequestHeaders DEF RequestOfCall, Sent, SERVICE_REQUEST
<1>4. \A i : /\ msgpack_pack_int(i).kind = IF i >= 0 THEN "positive" ELSE "negative"
             /\ \A name : /\ pack_map_int(name, i).name = name
                          /\ pack_map_int(name, i).val = msgpack_pack_int(i)
  BY DEF pack_map_int, pack_map, msgpack_pack_int
<1>5. \A t : /\ msgpack_pack_str(t).kind = "str"
             /\ \A name : /\ pack_map_str(name, t).name = name
                          /\ pack_map_str(name, t).val = msgpack_pack_str(t)
  BY DEF pack_map_str, pack_map, msgpack_pack_str
<1>6. /\ \A name, v : pack_map(name, v).val = v
      /\ \A items : /\ msgpack_pack_array(items).kind = "array"
                    /\ msgpack_pack_array(items).items = items
  BY DEF pack_map, msgpack_pack_array
<1>7. \A k \in 1..5 : p[k].val.kind # "array"
  <2>1. p[1].val.kind # "array" /\ p[2].val.kind # "array"
    BY <1>1, <1>3, <1>4
  <2>2. p[3].val.kind # "array" /\ p[4].val.kind # "array" /\ p[5].val.kind # "array"
    BY <1>3, <1>5
  <2> QED
    BY <2>1, <2>2
<1>8. /\ p[2].val.kind = "positive" /\ p[1].name = "request-type"
      /\ p[2].name = "message-id" /\ p[2].val = msgpack_pack_int(id)
  BY <1>1, <1>3, <1>4
<1>9. /\ p[3].name = "sender-address" /\ p[4].name = "reply-port"
      /\ p[5].name = "op" /\ p[5].val = msgpack_pack_str(call.op)
      /\ p[5].val.kind = "str"
  BY <1>3, <1>5
<1>10. /\ p[6].val = msgpack_pack_array(Sent(call.args))
       /\ p[6].val.kind = "array" /\ p[6].val.items = Sent(call.args)
  BY <1>3, <1>6
<1> QED
  BY <1>2, <1>3, <1>7, <1>8, <1>9, <1>10

LEMMA RequestReadNext ==
  ASSUME NEW id \in Ids, NEW k \in 1..5, packet = RequestOfCall(id), off = k
  PROVE  locals = RequestRead(k - 1, id)
           => RequestLocals(Header) = RequestRead(k, id)
<1>0. locals = RequestRead(k - 1, id) => Round = locals
  <2>1. k - 1 \in 0..4
    OBVIOUS
  <2> QED
    BY <2>1, RoundRead
<1>1. PICK p, m, o :
        /\ p = RequestOfCall(id) /\ m = msgpack_pack_int(id)
        /\ o = msgpack_pack_str(call.op)
  OBVIOUS
<1>2. /\ Header = p[k]
      /\ p[1].name = "request-type"
      /\ p[2].name = "message-id" /\ p[2].val = m /\ p[2].val.kind = "positive"
      /\ p[3].name = "sender-address"
      /\ p[4].name = "reply-port"
      /\ p[5].name = "op" /\ p[5].val = o /\ p[5].val.kind = "str"
  BY <1>1, RequestKinds DEF Header
<1>3. ASSUME NEW j \in 0..5
      PROVE  RequestRead(j, id)
               = [message_id |-> IF j >= 2 THEN m ELSE Unwritten,
                  op |-> IF j >= 5 THEN o ELSE Unwritten,
                  params |-> <<>>]
  BY <1>1 DEF RequestRead
<1>4. ASSUME k \in {1, 3, 4}, locals = RequestRead(k - 1, id)
      PROVE  RequestLocals(Header) = RequestRead(k, id)
  <2>1. RequestRead(k - 1, id) = RequestRead(k, id)
    BY <1>3, <1>4
  <2>2. RequestLocals(Header) = locals
    BY <1>0, <1>2, <1>4 DEF RequestLocals
  <2> QED
    BY <1>4, <2>1, <2>2
<1>5. ASSUME k = 2, locals = RequestRead(k - 1, id)
      PROVE  RequestLocals(Header) = RequestRead(k, id)
  <2>1. locals = [message_id |-> Unwritten, op |-> Unwritten, params |-> <<>>]
    BY <1>3, <1>5
  <2>2. RequestLocals(Header) = [locals EXCEPT !.message_id = m]
    BY <1>0, <1>2, <1>5 DEF RequestLocals
  <2>3. RequestRead(2, id) = [message_id |-> m, op |-> Unwritten, params |-> <<>>]
    BY <1>3
  <2>4. RequestLocals(Header) = RequestRead(2, id)
    BY <2>1, <2>2, <2>3
  <2> QED
    BY <1>5, <2>4
<1>6. ASSUME k = 5, locals = RequestRead(k - 1, id)
      PROVE  RequestLocals(Header) = RequestRead(k, id)
  <2>1. locals = [message_id |-> m, op |-> Unwritten, params |-> <<>>]
    BY <1>3, <1>6
  <2>2. RequestLocals(Header) = [locals EXCEPT !.op = o]
    BY <1>0, <1>2, <1>6 DEF RequestLocals
  <2>3. RequestRead(5, id) = [message_id |-> m, op |-> o, params |-> <<>>]
    BY <1>3
  <2>4. RequestLocals(Header) = RequestRead(5, id)
    BY <2>1, <2>2, <2>3
  <2> QED
    BY <1>6, <2>4
<1> QED
  BY <1>4, <1>5, <1>6

LEMMA UnpackRequestStep ==
  ASSUME MarshalInv, unpack_marshal_call_send
  PROVE  \E id \in Ids : Asking(id)'
<1>1. PICK id \in Ids : Asking(id) /\ place = "server" /\ off # 0
  BY PhaseOf DEF unpack_marshal_call_send
<1>2. /\ packet = RequestOfCall(id) /\ locals = RequestRead(off - 1, id)
      /\ Len(packet) = 6 /\ packet[6].val.kind = "array"
  BY <1>1, RequestKinds DEF Asking
<1>3. PICK k \in 1..5 : k = off
  BY <1>2 DEF unpack_marshal_call_send, Header
<1>4. RequestLocals(Header) = RequestRead(k, id)
  BY <1>2, <1>3, RequestReadNext
<1>5. locals' = RequestRead(k, id) /\ off' = k + 1
  BY <1>3, <1>4 DEF unpack_marshal_call_send, RequestLocals
<1>6. off' \in 0..6 /\ off' - 1 = k
  BY <1>5
<1>7. call' = call
  BY DEF unpack_marshal_call_send, callVars
<1>8. locals' = RequestRead(off - 1, id)'
  BY <1>5, <1>6, <1>7 DEF RequestRead
<1>9. Asking(id)'
  BY <1>1, <1>6, <1>8, StillAsking DEF unpack_marshal_call_send
<1> QED
  BY <1>9

\* What the server has when it calls the operation: of the operation, only
\* where the build keeps it.
LEMMA CallRead ==
  ASSUME MarshalInv, place = "server", off \in 1..Len(packet),
         Header.val.kind = "array"
  PROVE  \E id \in Ids :
           /\ Asking(id) /\ off = 6
           /\ Round.op = IF slotKept THEN msgpack_pack_str(call.op) ELSE Unwritten
           /\ Round.message_id = msgpack_pack_int(id)
           /\ Header.val.items = Sent(call.args)
<1>1. PICK id \in Ids : Asking(id) /\ off # 0
  BY PhaseOf
<1>2. /\ packet = RequestOfCall(id) /\ locals = RequestRead(off - 1, id)
      /\ Len(packet) = 6 /\ packet[6].val.items = Sent(call.args)
      /\ \A k \in 1..5 : packet[k].val.kind # "array"
  BY <1>1, RequestKinds DEF Asking
<1>3. off = 6
  BY <1>2 DEF Header
<1>4. PICK o, m : o = msgpack_pack_str(call.op) /\ m = msgpack_pack_int(id)
  OBVIOUS
<1>5. locals = [message_id |-> m, op |-> o, params |-> <<>>]
  BY <1>2, <1>3, <1>4 DEF RequestRead
<1>6. /\ Round.op = IF slotKept THEN o ELSE Unwritten
      /\ Round.message_id = m
  BY <1>5 DEF Round
<1> QED
  BY <1>1, <1>2, <1>3, <1>4, <1>6 DEF Header

LEMMA CallStep ==
  ASSUME MarshalInv, call_marshelResponse_send
  PROVE  \/ \E id \in Ids : Answering(id)'
         \/ Down'
<1>1. PICK id \in Ids :
        /\ Asking(id) /\ place = "server"
        /\ Round.op = msgpack_pack_str(call.op)
        /\ Round.message_id = msgpack_pack_int(id)
        /\ Header.val.items = Sent(call.args)
  BY CallRead DEF call_marshelResponse_send
<1>2. Round.op.str = call.op /\ Round.message_id.int = id
  BY <1>1 DEF msgpack_pack_str, msgpack_pack_int
<1>3. /\ call.op \in Operations /\ call.args \in ArgumentsOf(call.op)
      /\ serverPc = "registered" /\ svc_repo = <<Registered>> /\ CallMade
      /\ clnt_req_repo = <<EntryOfCall(id)>>
  BY <1>1 DEF Asking, CallMade
<1>4. PICK types, params :
        types = Signature[call.op].params /\ params = Received(call.args)
  OBVIOUS
<1>5. params = [i \in DOMAIN Header.val.items |-> Param(Header.val.items[i])]
  BY <1>1, <1>4 DEF Received
<1>6. /\ NegativeArgument(call.args) <=>
           \E i \in DOMAIN types : types[i] = "int" /\ params[i] = Unwritten
      /\ ~NegativeArgument(call.args) => params = call.args
  BY <1>3, <1>4, ArgumentsArrive
<1>7. /\ off' = 0 /\ UNCHANGED <<svc_repo, clnt_req_repo, call>>
      /\ IF NegativeArgument(call.args)
         THEN serverPc' = "down" /\ place' = "nobody"
         ELSE /\ place' = "broker" /\ serverPc' = serverPc
              /\ packet' = ResponsePacket(id, call.op, Packed(Local(call.op, params)))
  BY <1>2, <1>4, <1>5, <1>6 DEF call_marshelResponse_send, repoVars, callVars, Send
<1>8. /\ CallMade' /\ Registered' = Registered
      /\ EntryOfCall(id)' = EntryOfCall(id)
      /\ NegativeArgument(call.args)' = NegativeArgument(call.args)
      /\ ResponseOfCall(id)' = ResponseOfCall(id)
  BY <1>3, <1>7 DEF CallMade, Registered, EntryOfCall, NegativeArgument, ResponseOfCall
<1>9. CASE NegativeArgument(call.args)
  BY <1>3, <1>7, <1>8, <1>9 DEF Down
<1>10. CASE ~NegativeArgument(call.args)
  <2>1. packet' = ResponseOfCall(id)'
    BY <1>6, <1>7, <1>8, <1>10 DEF ResponseOfCall
  <2>2. Answering(id)'
    BY <1>3, <1>7, <1>8, <1>10, <2>1 DEF Answering
  <2> QED
    BY <2>2
<1> QED
  BY <1>9, <1>10

\* The operation is unknown only where the build does not keep it.
LEMMA CallUnknownStep ==
  ASSUME MarshalInv, CallUnknown
  PROVE  Lost'
<1>1. PICK id \in Ids :
        /\ Asking(id) /\ place = "server"
        /\ Round.op = IF slotKept THEN msgpack_pack_str(call.op) ELSE Unwritten
  BY CallRead DEF CallUnknown
<1>2. msgpack_pack_str(call.op) # Unwritten
  <2>1. msgpack_pack_str(call.op).kind = "str" /\ Unwritten.kind # "str"
    BY DEF msgpack_pack_str, Unwritten
  <2> QED
    BY <2>1
<1>3. ~slotKept
  BY <1>1, <1>2 DEF CallUnknown
<1>4. svc_repo = <<Registered>> /\ call # NoCall
  BY <1>1, OperationNames DEF Asking, CallMade, NoCall
<1>5. Registered' = Registered
  BY DEF Registered
<1> QED
  BY <1>3, <1>4, <1>5 DEF CallUnknown, Lost, repoVars, callVars, NoCall

\* The entry of the call is the one that awaits the response.
LEMMA Awaited ==
  ASSUME NEW id \in Ids, Answering(id), place = "broker"
  PROVE  /\ clnt_req_repo = <<EntryOfCall(id)>> /\ Awaits(EntryOfCall(id))
         /\ At(EntryOfCall(id).address, EntryOfCall(id).port) = "client"
<1>1. /\ packet = ResponseOfCall(id) /\ CallMade
      /\ clnt_req_repo = <<EntryOfCall(id)>>
  BY DEF Answering
<1>2. /\ get_hdr_int(packet, "message-id") = id
      /\ get_hdr_str(packet, "op") = msgpack_pack_str(call.op)
  BY <1>1, ResponseOfCallReadBack
<1> QED
  BY <1>1, <1>2, AtLocations DEF Awaits, EntryOfCall

LEMMA RelayResponseStep ==
  ASSUME MarshalInv, RelayResponse
  PROVE  \E id \in Ids : Answering(id)'
<1>1. PICK id \in Ids : Answering(id) /\ place = "broker"
  BY PhaseOf DEF RelayResponse, Has
<1>2. /\ serverPc = "registered" /\ svc_repo = <<Registered>> /\ CallMade
      /\ ~NegativeArgument(call.args) /\ packet = ResponseOfCall(id) /\ off = 0
  BY <1>1 DEF Answering
<1>3. PICK j \in 1..Len(clnt_req_repo) :
        /\ place' = At(clnt_req_repo[j].address, clnt_req_repo[j].port)
        /\ clnt_req_repo' = Without(clnt_req_repo, j)
  BY DEF RelayResponse
<1>4. j = 1 /\ clnt_req_repo = <<EntryOfCall(id)>>
  BY <1>1, <1>3, Awaited
<1>5. place' = "client"
  BY <1>1, <1>3, <1>4, Awaited
<1>6. clnt_req_repo' = <<>>
  BY <1>3, <1>4 DEF Without
<1>7. UNCHANGED <<packet, off, svc_repo, serverPc, call>>
  BY DEF RelayResponse, loopVars, callVars
<1>8. /\ CallMade' /\ Registered' = Registered
      /\ NegativeArgument(call.args)' = NegativeArgument(call.args)
      /\ ResponseOfCall(id)' = ResponseOfCall(id)
  BY <1>2, <1>7 DEF CallMade, Registered, NegativeArgument, ResponseOfCall
<1>9. Answering(id)'
  BY <1>2, <1>5, <1>6, <1>7, <1>8 DEF Answering
<1> QED
  BY <1>9

LEMMA StubReturnsStep ==
  ASSUME MarshalInv, StubReturns
  PROVE  Resting'
<1>1. PICK id \in Ids : Answering(id) /\ place = "client"
  BY PhaseOf DEF StubReturns, Has
<1> QED
  BY <1>1 DEF Answering, Resting, StubReturns, loopVars, repoVars, Registered, NoCall

-----------------------------------------------------------------------------
(* The invariant and what follows from it.                                 *)

LEMMA MarshalInvInit == Init => MarshalInv
BY DEF Init, MarshalInv, Starting

LEMMA MarshalInvNext == MarshalInv /\ [Next]_vars => MarshalInv'
<1> SUFFICES ASSUME MarshalInv, [Next]_vars
             PROVE  MarshalInv'
  OBVIOUS
<1>1. CASE service_register_with_broker
  BY <1>1, RegisterStep DEF MarshalInv
<1>2. CASE ReceiveAck
  BY <1>2, ReceiveAckStep DEF MarshalInv
<1>3. CASE StartRequest
  BY <1>3, StartRequestStep DEF MarshalInv
<1>4. CASE unpack_marshal_call_send
  BY <1>4, UnpackRequestStep DEF MarshalInv
<1>5. CASE call_marshelResponse_send
  BY <1>5, CallStep DEF MarshalInv
<1>6. CASE StartRegistration
  BY <1>6, StartRegistrationStep DEF MarshalInv
<1>7. CASE unpack_service_registration_buffer
  BY <1>7, UnpackRegistrationStep DEF MarshalInv
<1>8. CASE reg_svc_req
  BY <1>8, StoreRegistrationStep DEF MarshalInv
<1>9. CASE RelayRequest
  BY <1>9, RelayRequestStep DEF MarshalInv
<1>10. CASE RelayResponse
  BY <1>10, RelayResponseStep DEF MarshalInv
<1>11. CASE CallStub
  BY <1>11, CallStubStep DEF MarshalInv
<1>12. CASE StubReturns
  BY <1>12, StubReturnsStep DEF MarshalInv
<1>13. CASE CallUnknown
  BY <1>13, CallUnknownStep DEF MarshalInv
<1>14. CASE UNCHANGED vars
  BY <1>14 DEF vars, loopVars, repoVars, callVars, MarshalInv, Starting, Registering,
     Resting, Asking, Answering, Down, Lost, CallMade, Registered, RegistrationRead,
     RequestRead, RequestOfCall, ResponseOfCall, EntryOfCall, NegativeArgument
<1> QED
  BY <1>1, <1>2, <1>3, <1>4, <1>5, <1>6, <1>7, <1>8, <1>9, <1>10, <1>11, <1>12,
     <1>13, <1>14 DEF Next, ServerNext, BrokerNext

LEMMA MarshalInvHolds == Spec => []MarshalInv
<1> QED
  BY MarshalInvInit, MarshalInvNext, PTL DEF Spec

\* In every packet services-count precedes services, and op and message-id
\* precede params (unpack_service_registration_buffer.c:48,72,
\* unpack_marshal_call.c:67): services is allocated when it is filled, the id is
\* set when the operation is called, and so is the operation, provided that the
\* build keeps the variable of the loop's body in which it is.
THEOREM ReadInOrder == Spec => []SetBeforeUse
<1>1. ASSUME MarshalInv
      PROVE  SetBeforeUse
  <2>1. SUFFICES ASSUME off \in 1..Len(packet), Header.val.kind = "array"
                 PROVE  CASE place = "broker" -> locals.services # Unwritten
                          [] place = "server" ->
                               /\ Round.message_id # Unwritten
                               /\ slotKept => Round.op # Unwritten
    BY DEF SetBeforeUse
  <2>2. place \in {"broker", "server"}
    BY <1>1, <2>1 DEF MarshalInv, Starting, Registering, Resting, Asking, Answering,
       Down, Lost
  <2>3. ASSUME place = "broker"
        PROVE  locals.services # Unwritten
    <3>1. Registering
      BY <1>1, <2>1, <2>3, PhaseOf
    <3>2. /\ packet = RegistrationPacket(ServerLoc, services)
          /\ locals = RegistrationRead(off - 1)
      BY <2>1, <2>3, <3>1 DEF Registering
    <3>3. off = 6
      BY <2>1, <3>2, RegistrationHeaders
      DEF Header, pack_map_int, pack_map_str, pack_map, msgpack_pack_int,
          msgpack_pack_str
    <3>4. RegistrationRead(5).services.kind = "array"
      BY DEF RegistrationRead
    <3>5. Unwritten.kind # "array"
      BY DEF Unwritten
    <3> QED
      BY <3>2, <3>3, <3>4, <3>5
  <2>4. ASSUME place = "server"
        PROVE  /\ Round.message_id # Unwritten
               /\ slotKept => Round.op # Unwritten
    <3>1. PICK id \in Ids : /\ slotKept => Round.op = msgpack_pack_str(call.op)
                            /\ Round.message_id = msgpack_pack_int(id)
      BY <1>1, <2>1, <2>4, CallRead
    <3>2. id \in Nat
      BY IdsNat
    <3>3. /\ slotKept => Round.op.kind = "str"
          /\ Round.message_id.kind = "positive"
      BY <3>1, <3>2 DEF msgpack_pack_str, msgpack_pack_int
    <3>4. Unwritten.kind \notin {"str", "positive"}
      BY DEF Unwritten
    <3> QED
      BY <3>3, <3>4
  <2> QED
    BY <2>2, <2>3, <2>4
<1> QED
  BY <1>1, MarshalInvHolds, PTL

\* The broker understands a registration although its services are packed from
\* the last one on (service_register_with_broker, reg_svc_req): it holds the
\* location of the server and every service.
THEOREM UnderstoodRegistration == Spec => []RegistrationUnderstood
<1>1. At(Registered.address, Registered.port) = "server"
  <2>1. /\ Registered.address = msgpack_pack_str(ServerLoc.address)
        /\ Registered.port = msgpack_pack_str(ServerLoc.port)
    BY DEF Registered
  <2> QED
    BY <2>1, AtLocations
<1>2. {Registered.services.items[i] : i \in 1..Registered.num_services}
        = {msgpack_pack_str(services[i]) : i \in 1..Len(services)}
  <2>1. PICK n \in Nat : n = Len(services)
    BY ServicesAre
  <2>2. /\ Registered.num_services = n
        /\ \A i \in 1..n : Registered.services.items[i]
                             = msgpack_pack_str(services[n + 1 - i])
    BY <2>1 DEF Registered, PackedServices
  <2>3. \A i \in 1..n : n + 1 - i \in 1..n /\ n + 1 - (n + 1 - i) = i
    BY <2>1
  <2> QED
    BY <2>1, <2>2, <2>3
<1>3. ASSUME MarshalInv
      PROVE  svc_repo = <<>> \/ svc_repo = <<Registered>>
  BY <1>3 DEF MarshalInv, Starting, Registering, Resting, Asking, Answering, Down,
     Lost
<1>4. ASSUME MarshalInv
      PROVE  RegistrationUnderstood
  <2>1. \A j \in 1..Len(svc_repo) : svc_repo[j] = Registered
    BY <1>3, <1>4
  <2> QED
    BY <1>1, <1>2, <2>1 DEF RegistrationUnderstood
<1> QED
  BY <1>4, MarshalInvHolds, PTL

\* The response the broker receives is awaited by the entry of the call being
\* made, whatever rand() gave the call for an id: id and operation come back as
\* they were (find_client_for_response.c:20).
THEOREM AwaitedResponse == Spec => []ResponseAwaited
<1>1. ASSUME MarshalInv, Has("broker", SERVICE_REQUEST_RESPONSE)
      PROVE  /\ Len(clnt_req_repo) = 1
             /\ Awaits(clnt_req_repo[1])
             /\ At(clnt_req_repo[1].address, clnt_req_repo[1].port) = "client"
  <2>1. PICK id \in Ids : Answering(id) /\ place = "broker"
    BY <1>1, PhaseOf DEF Has
  <2>2. Len(clnt_req_repo) = 1 /\ clnt_req_repo[1] = EntryOfCall(id)
    BY <2>1, Awaited
  <2> QED
    BY <2>1, <2>2, Awaited
<1>2. MarshalInv => ResponseAwaited
  BY <1>1 DEF ResponseAwaited
<1> QED
  BY <1>2, MarshalInvHolds, PTL

\* The server ends in a call only when an int below zero was passed
\* (unpack_marshal_call.c:60, server/generate_proxy.pl:66), or the build does not
\* keep ptrOperation from one header to the next (unpack_marshal_call.c:34).
THEOREM SurvivingServer == Spec => []ServerSurvives
<1>1. MarshalInv => ServerSurvives
  BY DEF MarshalInv, ServerSurvives, Starting, Registering, Resting, Asking,
     Answering, Down, Lost
<1> QED
  BY <1>1, MarshalInvHolds, PTL

-----------------------------------------------------------------------------
(* Marshal implements LocalCall.                                           *)

LEMMA SameInterface ==
  /\ AsLocalCall!Operations = Operations
  /\ \A op : AsLocalCall!ArgumentsOf(op) = ArgumentsOf(op)
  /\ \A op, args : AsLocalCall!Local(op, args) = Local(op, args)
  /\ AsLocalCall!NoCall = NoCall /\ AsLocalCall!NoResult = NoResult
  /\ \A n : AsLocalCall!Int32(n) = Int32(n)
<1>1. /\ \A n : AsLocalCall!Int32(n) = Int32(n)
      /\ \A t : AsLocalCall!Text(t) = Text(t)
  BY DEF AsLocalCall!Int32, Int32, AsLocalCall!Text, Text
<1>2. AsLocalCall!Signature = Signature
  BY DEF AsLocalCall!Signature, Signature
<1>3. AsLocalCall!Operations = Operations
  BY <1>2 DEF AsLocalCall!Operations, Operations
<1>4. AsLocalCall!Ints = Ints
  BY DEF AsLocalCall!Ints, Ints
<1>5. \A type : AsLocalCall!ValuesOf(type) = ValuesOf(type)
  BY <1>1, <1>4 DEF AsLocalCall!ValuesOf, ValuesOf
<1>6. \A op : AsLocalCall!ArgumentsOf(op) = ArgumentsOf(op)
  BY <1>2, <1>5 DEF AsLocalCall!ArgumentsOf, ArgumentsOf
<1>7. \A n : AsLocalCall!Wrap(n) = Wrap(n)
  BY DEF AsLocalCall!Wrap, Wrap
<1>8. \A a, b : /\ AsLocalCall!add(a, b) = add(a, b)
                /\ AsLocalCall!diffirence(a, b) = diffirence(a, b)
  BY <1>1, <1>7 DEF AsLocalCall!add, add, AsLocalCall!diffirence, diffirence
<1>9. \A a : AsLocalCall!echo(a) = echo(a)
  BY <1>1 DEF AsLocalCall!echo, echo, AsLocalCall!STR_Reverse, STR_Reverse
<1>10. \A a, b, c, d : AsLocalCall!sayDog(a, b, c, d) = sayDog(a, b, c, d)
  BY <1>1 DEF AsLocalCall!sayDog, sayDog
<1>11. \A op, args : AsLocalCall!Local(op, args) = Local(op, args)
  BY <1>1, <1>8, <1>9, <1>10 DEF AsLocalCall!Local, Local
<1> QED
  BY <1>1, <1>3, <1>6, <1>11
  DEF AsLocalCall!NoCall, NoCall, AsLocalCall!NoResult, NoResult

\* To make a call is to enter the operation.
LEMMA CallEnters ==
  ASSUME CallStub
  PROVE  AsLocalCall!Enter
BY SameInterface DEF CallStub, AsLocalCall!Enter

\* A call returns what the operation returns, but for an int below zero.
LEMMA ReturnLeaves ==
  ASSUME MarshalInv, StubReturns
  PROVE  AsLocalCall!Leave
<1>1. PICK id \in Ids : Answering(id)
  BY PhaseOf DEF StubReturns
<1>2. PICK v : v = Local(call.op, call.args)
  OBVIOUS
<1>3. /\ CallMade /\ ~NegativeArgument(call.args) /\ packet = ResponseOfCall(id)
      /\ call.op \in Operations
  BY <1>1 DEF Answering, CallMade
<1>4. call # NoCall
  BY <1>3, OperationNames DEF NoCall
<1>5. \A i \in DOMAIN call.args : ~AsLocalCall!Negative(call.args[i])
  BY <1>3 DEF NegativeArgument, AsLocalCall!Negative
<1>6. IF Signature[call.op].result = "int"
      THEN \E n \in Int : /\ v = Int32(n)
                          /\ get_hdr_int(packet, "reply") = IF n >= 0 THEN n ELSE 0
      ELSE \E t : v = Text(t) /\ get_hdr_str(packet, "reply") = v
  BY <1>2, <1>3, ResponseOfCallReadBack
<1>7. result' = IF AsLocalCall!Negative(v) THEN Int32(0) ELSE v
  <2>1. CASE Signature[call.op].result = "int"
    <3>1. PICK n \in Int : /\ v = Int32(n)
                           /\ get_hdr_int(packet, "reply") = IF n >= 0 THEN n ELSE 0
      BY <1>6, <2>1
    <3>2. result' = Int32(IF n >= 0 THEN n ELSE 0)
      BY <2>1, <3>1 DEF StubReturns
    <3>3. AsLocalCall!Negative(v) <=> n < 0
      BY <3>1 DEF AsLocalCall!Negative, Int32
    <3> QED
      BY <3>1, <3>2, <3>3
  <2>2. CASE Signature[call.op].result # "int"
    <3>1. PICK t : v = Text(t) /\ get_hdr_str(packet, "reply") = v
      BY <1>6, <2>2
    <3>2. result' = v
      BY <2>2, <3>1 DEF StubReturns
    <3>3. ~AsLocalCall!Negative(v)
      BY <3>1 DEF AsLocalCall!Negative, Text
    <3> QED
      BY <3>2, <3>3
  <2> QED
    BY <2>1, <2>2
<1>8. call' = NoCall
  BY DEF StubReturns
<1> QED
  BY <1>2, <1>4, <1>5, <1>7, <1>8, SameInterface DEF AsLocalCall!Leave

\* A stub does what the operation does in its own process, for all arguments:
\* if it returns, it returns the value of the operation as server_interface.c
\* has it, 0 for an int below zero (get_hdr_int, common.c:313), and it does not
\* return when such an int is passed (unpack_marshal_call.c:60).
THEOREM LocalBehaviour == Spec => BehavesLocally
<1>1. Init => AsLocalCall!LocalInit
  BY SameInterface DEF Init, AsLocalCall!LocalInit
<1>2. ASSUME MarshalInv, [Next]_vars
      PROVE  [AsLocalCall!Enter \/ AsLocalCall!Leave]_<<call, result>>
  <2>1. CASE CallStub
    BY <2>1, CallEnters
  <2>2. CASE StubReturns
    BY <1>2, <2>2, ReturnLeaves
  <2>3. CASE ServerNext
    BY <2>3 DEF ServerNext, service_register_with_broker, ReceiveAck, StartRequest,
       unpack_marshal_call_send, call_marshelResponse_send, CallUnknown, callVars
  <2>4. CASE BrokerNext
    BY <2>4 DEF BrokerNext, StartRegistration, unpack_service_registration_buffer,
       reg_svc_req, RelayRequest, RelayResponse, callVars
  <2>5. CASE UNCHANGED vars
    BY <2>5 DEF vars, callVars
  <2> QED
    BY <1>2, <2>1, <2>2, <2>3, <2>4, <2>5 DEF Next
<1> QED
  BY <1>1, <1>2, MarshalInvHolds, PTL DEF Spec, BehavesLocally, AsLocalCall!LocalSpec
=============================================================================
