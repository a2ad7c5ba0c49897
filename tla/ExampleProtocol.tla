---------------------------- MODULE ExampleProtocol -----------------------------
(***************************************************************************)
(* The protocol of zproto_example.h: for each message its fields in order, *)
(* with name, type and what the type needs: the octets of a number, the    *)
(* size of a block of octets, the value of a constant.                     *)
(***************************************************************************)
EXTENDS Naturals, Sequences, TLC

LOG == 1
STRUCTURES == 2
BINARY == 3
TYPES == 4

F(n, t, a) == [name |-> n, type |-> t, arg |-> a]
Header == <<F("sequence", "number", 2)>>

\* The custom type person, a field for each of its parts.
Client == <<F("client_forename", "string", 1), F("client_surname", "string", 1),
            F("client_mobile", "string", 1), F("client_email", "string", 1)>>
Supplier == <<F("supplier_forename", "string", 1), F("supplier_surname", "string", 1),
              F("supplier_mobile", "string", 1), F("supplier_email", "string", 1)>>

\* A uuid has ZUUID_LEN octets, which are two here.
ExampleFields ==
       LOG :> (Header \o
          <<F("version", "value", 3), F("level", "number", 1), F("event", "number", 1),
            F("node", "number", 2), F("peer", "number", 2), F("time", "number", 8),
            F("host", "string", 1), F("data", "longstr", 4)>>)
    @@ STRUCTURES :> (Header \o
          <<F("aliases", "strings", 4), F("headers", "hash", 4)>>)
    @@ BINARY :> (Header \o
          <<F("flags", "octets", 4), F("public_key", "chunk", 4),
            F("identifier", "uuid", 2), F("address", "frame", 0),
            F("content", "msg", 0)>>)
    @@ TYPES :> (Header \o Client \o Supplier)
===============================================================================
