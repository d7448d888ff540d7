----------------------------- MODULE Interface -----------------------------
(***************************************************************************)
(* The operations of server/server_interface.c: their signatures, from     *)
(* which the generators make stubs and dispatch, and what they compute.    *)
(*                                                                         *)
(* An int ranges over -MaxInt-1 .. MaxInt and wraps around.  A string is a *)
(* sequence of pieces that only STR_Reverse and STR_Join look into.        *)
(***************************************************************************)
EXTENDS Integers, Sequences

CONSTANTS
  MaxInt,  \* the largest int
  Texts    \* the strings that are passed as arguments

ASSUME InterfaceAssumption == MaxInt \in Nat

Ints == (-MaxInt - 1)..MaxInt

\* The values of C: an int or a string.
Int32(i) == [kind |-> "int", int |-> i]
Text(t) == [kind |-> "str", str |-> t]

\* The parameter types and the type of the result.
Signature ==
  [getServerDate |-> [params |-> <<>>, result |-> "str"],
   add           |-> [params |-> <<"int", "int">>, result |-> "int"],
   echo          |-> [params |-> <<"str">>, result |-> "str"],
   getBrokerName |-> [params |-> <<>>, result |-> "str"],
   sayHello      |-> [params |-> <<"int", "str">>, result |-> "str"],
   sayDog        |-> [params |-> <<"str", "str", "str", "str">>,
                      result |-> "str"],
   diffirence    |-> [params |-> <<"int", "int">>, result |-> "int"]]

Operations == DOMAIN Signature

\* The services[] array, which a server registers.
services ==
  <<"getBrokerName", "echo", "add", "sayHello", "getServerDate", "sayDog",
    "diffirence">>

\* The values a parameter of this type takes.
ValuesOf(type) ==
  IF type = "int" THEN {Int32(i) : i \in Ints} ELSE {Text(t) : t \in Texts}

\* The argument lists op can be called with.
ArgumentsOf(op) ==
  LET types == Signature[op].params
  IN  {args \in [1..Len(types) ->
                   UNION {ValuesOf(types[i]) : i \in 1..Len(types)}] :
         \A i \in 1..Len(types) : args[i] \in ValuesOf(types[i])}

Wrap(i) == ((i + MaxInt + 1) % (2 * (MaxInt + 1))) - MaxInt - 1

STR_Reverse(t) == [i \in 1..Len(t) |-> t[Len(t) + 1 - i]]

add(a, b) == Int32(Wrap(a.int + b.int))
diffirence(a, b) == Int32(Wrap(b.int - a.int))
echo(a) == Text(STR_Reverse(a.str))
sayDog(a, b, c, d) == Text(a.str \o b.str \o c.str \o d.str)

\* What op returns when it is called with args in its own process.
Local(op, args) ==
  CASE op = "add"           -> add(args[1], args[2])
    [] op = "diffirence"    -> diffirence(args[1], args[2])
    [] op = "echo"          -> echo(args[1])
    [] op = "sayDog"        -> sayDog(args[1], args[2], args[3], args[4])
    [] op = "sayHello"      -> Text(<<"sayHello()">>)
    [] op = "getServerDate" -> Text(<<"20 jan 2012">>)
    [] op = "getBrokerName" -> Text(<<"broker v1">>)
=============================================================================
