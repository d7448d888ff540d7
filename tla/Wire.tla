-------------------------------- MODULE Wire --------------------------------
(***************************************************************************)
(* Packets as they are on the wire (common/common.c, common/protocol.h): a *)
(* sequence of headers, each a msgpack map with one entry, and the         *)
(* functions that write and read them.                                     *)
(*                                                                         *)
(* msgpack gives every value a kind, and tells positive integers (zero is  *)
(* one of them) from negative ones; the getters look at the kind as well   *)
(* as at the name.  Header names are at most 14 characters here, so that   *)
(* the buffer of 20 that extract_header copies them to is never full.      *)
(***************************************************************************)
EXTENDS Integers, Sequences

\* What a getter returns that has found no header of the name and the kind:
\* the variable it would have set, unwritten, or a null pointer.
Unwritten == [kind |-> "unwritten"]

-----------------------------------------------------------------------------
(* Values. *)

\* Mutant: zero is not positive.
SignedZero(i) == [kind |-> IF i > 0 THEN "positive" ELSE "negative", int |-> i]

\* msgpack_pack_int chooses the format, and with it the kind, by the sign.
msgpack_pack_int(i) ==
  [kind |-> IF i >= 0 THEN "positive" ELSE "negative", int |-> i]

msgpack_pack_str(text) == [kind |-> "str", str |-> text]

msgpack_pack_array(items) == [kind |-> "array", items |-> items]

\* A header: a map with one entry, which extract_header takes apart.
pack_map(key, value) == [name |-> key, val |-> value]

pack_map_int(key, i) == pack_map(key, msgpack_pack_int(i))

pack_map_str(key, text) == pack_map(key, msgpack_pack_str(text))

\* enum RequestType
SERVICE_REQUEST == 0
SERVICE_REQUEST_RESPONSE == 1
SERVICE_REGISTRATION == 2
SERVICE_REGISTRATION_ACK == 3
FAILED == 4

-----------------------------------------------------------------------------
(* Writing packets. *)

\* Mutant: the loop over the services ends one too early.
AllButTheFirst(names) ==
  [i \in 1..(Len(names) - 1) |-> msgpack_pack_str(names[Len(names) + 1 - i])]

\* service_register_with_broker writes the services from the last one on.
PackedServices(names) ==
  [i \in 1..Len(names) |-> msgpack_pack_str(names[Len(names) + 1 - i])]

RegistrationPacket(loc, names) ==
  << pack_map_int("request-type", SERVICE_REGISTRATION),
     pack_map_str("sender-address", loc.address),
     pack_map_str("reply-port", loc.port),
     pack_map_str("service-name", "theServiceName"),
     pack_map_int("services-count", Len(names)),
     pack_map("services", msgpack_pack_array(PackedServices(names))) >>

AckPacket(id) ==
  << pack_map_int("request-type", SERVICE_REGISTRATION_ACK),
     pack_map_int("message-id", id) >>

\* Mutant: the parameters are written before the operation.
ParamsFirst(id, loc, op, params) ==
  << pack_map_int("request-type", SERVICE_REQUEST),
     pack_map_int("message-id", id),
     pack_map_str("sender-address", loc.address),
     pack_map_str("reply-port", loc.port),
     pack_map("params", msgpack_pack_array(params)),
     pack_map_str("op", op) >>

\* Mutant: the parameters are packed from the last one on, as the services are.
ParamsFromLast(id, loc, op, params) ==
  << pack_map_int("request-type", SERVICE_REQUEST),
     pack_map_int("message-id", id),
     pack_map_str("sender-address", loc.address),
     pack_map_str("reply-port", loc.port),
     pack_map_str("op", op),
     pack_map("params", msgpack_pack_array(
       [i \in 1..Len(params) |-> params[Len(params) + 1 - i]])) >>

RequestPacket(id, loc, op, params) ==
  << pack_map_int("request-type", SERVICE_REQUEST),
     pack_map_int("message-id", id),
     pack_map_str("sender-address", loc.address),
     pack_map_str("reply-port", loc.port),
     pack_map_str("op", op),
     pack_map("params", msgpack_pack_array(params)) >>

\* Mutant: the id of the request is not passed on.
ResponseWithoutId(id, op, reply) ==
  << pack_map_int("request-type", SERVICE_REQUEST_RESPONSE),
     pack_map_str("op", op),
     pack_map("reply", reply) >>

ResponsePacket(id, op, reply) ==
  << pack_map_int("request-type", SERVICE_REQUEST_RESPONSE),
     pack_map_int("message-id", id),
     pack_map_str("op", op),
     pack_map("reply", reply) >>

-----------------------------------------------------------------------------
(* Reading packets. *)

\* The headers of packet with this name and a value of this kind.
HeadersOf(packet, name, kind) ==
  {i \in 1..Len(packet) : packet[i].name = name /\ packet[i].val.kind = kind}

First(S) == CHOOSE i \in S : \A j \in S : i <= j

Last(S) == CHOOSE i \in S : \A j \in S : j <= i

\* Only the first header counts, and the process exits when it is another.
IsTyped(packet) ==
  packet # <<>> => /\ packet[1].name = "request-type"
                   /\ packet[1].val.kind = "positive"

get_req_type(packet) == IF packet = <<>> THEN FAILED ELSE packet[1].val.int

\* The last positive integer of that name; 0 when there is none.
get_hdr_int(packet, name) ==
  LET found == HeadersOf(packet, name, "positive")
  IN  IF found = {} THEN 0 ELSE packet[Last(found)].val.int

\* The first string of that name.
get_hdr_str(packet, name) ==
  LET found == HeadersOf(packet, name, "str")
  IN  IF found = {} THEN Unwritten ELSE packet[First(found)].val

get_op_name(packet) == get_hdr_str(packet, "op")
=============================================================================
