-------------------------------- MODULE MCCodec ---------------------------------
(* The messages of zproto_example for model checking Codec. *)
EXTENDS Codec, ExampleProtocol

MCFields == ExampleFields

Log(h, d) == [id |-> LOG, f |-> "sequence" :> 1 @@ "level" :> 2 @@ "host" :> h
                                @@ "data" :> d]
Structures(s, h) == [id |-> STRUCTURES, f |-> "aliases" :> s @@ "headers" :> h]
Binary(k, u, a, c) == [id |-> BINARY, f |-> "flags" :> <<1, 0, 1, 1>>
                          @@ "public_key" :> k @@ "identifier" :> u
                          @@ "address" :> a @@ "content" :> c]
Full == {Log(<<1>>, <<1, 2>>),
         Structures(<<<<>>, <<1>>>>, <<<<<<1>>, <<2>>>>, <<<<2>>, <<>>>>>>),
         Binary(<<1, 2>>, <<3, 4>>, <<5>>, <<<<1>>, <<>>>>)}

MCObjects == Full \cup {Log(<<>>, Null), Structures(Null, Null),
                       Binary(Null, Null, Null, Null), Binary(<<>>, <<3, 4>>, <<5>>, <<>>),
                       [id |-> TYPES, f |-> "client_surname" :> <<1>>
                                            @@ "supplier_email" :> <<2, 1>>]}

\* Others send the first frame cut short, lengths that lie, frames that are missing
\* or too many, an unknown id, another protocol's signature.
Whole(o) == Message(Filled(o, Blank))
Cut(m) == {<<SubSeq(m[1], 1, n)>> \o Tail(m) : n \in 0..(Len(m[1]) - 1)}
Lie(m) == {<<[m[1] EXCEPT ![n] = 5]>> \o Tail(m) : n \in DOMAIN m[1]}
MCStrangers ==
    LET M == {Whole(o) : o \in Full}
    IN UNION {Cut(m) \cup Lie(m) \cup {m \o <<<<>>>>, <<m[1]>>} : m \in M}

\* What the theorems assume of the objects is so of these.
ASSUME MCObjectsSendable == ObjectsSendable

MCOwnId == <<7>>
MCOtherId == <<8>>
===============================================================================
