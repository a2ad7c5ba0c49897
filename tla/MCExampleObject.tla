----------------------------- MODULE MCExampleObject -----------------------------
(* Objects of zproto_example for model checking ExampleObject. *)
EXTENDS ExampleObject, ExampleProtocol, TLC

\* Fields of each kind, the others and constants are left out.
Only(S) == [i \in {LOG, BINARY} |->
    LET kept(d) == d.name \in S /\ d.type # "value"
    IN SelectSeq(ExampleFields[i], kept)]
MCFields == Only({"level", "version", "data", "public_key", "identifier"})
MCFlags == Only({"flags", "public_key", "identifier"})

\* Addresses do not matter, but for how many there are: what is not owned once shows
\* in the two numbers.
Renamed == <<[p \in Places |-> Get(p)], Cardinality(Range(at)), Cardinality(Live),
             Cardinality(lost), id, val, up>>
Alike == Permutations(Handles)
===============================================================================
