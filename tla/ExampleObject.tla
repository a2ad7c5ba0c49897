----------------------------- MODULE ExampleObject ------------------------------
(***************************************************************************)
(* The class zproto_example as an application uses it: who owns the        *)
(* memory, what the setters, getters, dup, recv and the two ZPL methods do *)
(* to objects.  Numbers, strings and octets are in the object itself;      *)
(* other fields are pointers to items of their own.                        *)
(*                                                                         *)
(* A place is a pointer: <<h, "self">> is the application's pointer to     *)
(* object h, <<h, n>> that object's pointer to its item n, <<App, t>> the  *)
(* application's pointer to an item of type t.  A block of memory is named *)
(* for the place it is allocated for, with a serial number.                *)
(*                                                                         *)
(* The library keeps no state and takes no lock, so that a call is a step. *)
(* send, encode, print and a zpl that succeeds change no object.           *)
(***************************************************************************)
EXTENDS Integers, Sequences, FiniteSets, Functions

CONSTANTS
    Fields,    \* Fields[id]: the fields of message id, in order: name, type; its
               \*   constants are not in the object
    Handles,   \* the application's variables for objects
    App,       \* the application
    Values,    \* what a field can hold
    Width,     \* the number of values of a number
    Serials,   \* what tells apart the blocks that are allocated for one place
    MaxBlocks, \* bound on the blocks that are allocated at once
    MaxItems,  \* bound on the items that the application holds at once
    Null,      \* NULL; an entry of a configuration that is missing
    Bad, Odd   \* an entry that does not read as its type; hex digits, an odd number

Ids == DOMAIN Fields
FieldsOf(i) == IF i \in Ids THEN Fields[i] ELSE <<>>
NamesOf(i) == {FieldsOf(i)[k].name : k \in DOMAIN FieldsOf(i)}
Names == UNION {NamesOf(i) : i \in Ids}
TypeOf ==
    [n \in Names \cup {"routing_id"} |->
        IF n = "routing_id" THEN "frame"
        ELSE (CHOOSE d \in UNION {Range(Fields[i]) : i \in Ids} : d.name = n).type]

\* Where the value of a field is, and whose item its setter leaves there: a copy,
\* or the one that it is given.
Inline == {"number", "octets", "string"}
Owned == {"strings", "hash", "chunk", "frame", "msg"}

Values0 == Values \cup {0}
Inlines == {n \in Names : TypeOf[n] \in Inline}
Items == (Names \ Inlines) \cup {"routing_id"}
Given == {n \in Items : TypeOf[n] \in Owned /\ n # "routing_id"}
Loose == Items \ {n \in Items : TypeOf[n] = "longstr"}
ItemTypes == {TypeOf[n] : n \in Loose}

Parts(h) == {<<h, n>> : n \in Items \cup {"self"}}
Mine == {<<App, t>> : t \in ItemTypes}
Places == (UNION {Parts(h) : h \in Handles}) \cup Mine

ASSUME ObjectConstants ==
    /\ App \notin Handles
    /\ Null \notin Places \X Serials
    /\ \A i \in Ids : Fields[i] \in Seq(Range(Fields[i]))
    /\ Values \subseteq Nat /\ MaxBlocks \in Nat /\ MaxItems \in Nat
    /\ Width \in Nat \ {0} /\ {Null, Bad, Odd} \cap Nat = {} /\ Null \notin {Bad, Odd}
    /\ "routing_id" \notin Names /\ "self" \notin Names /\ 0 \notin Ids

VARIABLES
    at,    \* the block that each place points to
    heap,  \* what is in each block that is allocated
    id,    \* message id of each object, 0 at first
    val,   \* its fields that are in the object itself, all zeros at first
    lost,  \* blocks that new_zpl has left behind
    up     \* no assertion has failed

vars == <<at, heap, id, val, lost, up>>

Live == DOMAIN heap
Exists(h) == at[<<h, "self">>] # Null
Get(p) == IF at[p] \in Live THEN heap[at[p]] ELSE Null

\* A number is cut to its width.
BugFit(n, v) == v
Fit(n, v) == IF TypeOf[n] = "number" THEN v % Width ELSE v
Blank == [n \in Inlines |-> 0]
Unset == [p \in Places |-> Null]
Nothing == [b \in {} |-> Null]

\* What the application sees of an object.
Seen(h) == [n \in Names \cup {"routing_id"} |->
               IF n \in Inlines THEN val[h][n] ELSE Get(<<h, n>>)]

-------------------------------------------------------------------------------
\* Memory

Room(P) == /\ \A p \in P : \E k \in Serials : <<p, k>> \notin Live
           /\ P # {} => Cardinality(Live) + Cardinality(P) <= MaxBlocks
Fresh(p) == <<p, CHOOSE k \in Serials : <<p, k>> \notin Live>>
Blocks(P) == {Fresh(p) : p \in P}

\* The heap without blocks B and with new ones for the places of fill.
Heap(B, fill) ==
    [b \in (Live \ B) \cup Blocks(DOMAIN fill) |->
        IF b \in Live THEN heap[b] ELSE fill[b[1]]]

\* What is at places P is freed, then those of fill get new items.
Replace(P, fill) ==
    /\ Room(DOMAIN fill)
    /\ at' = [p \in Places |-> IF p \in DOMAIN fill THEN Fresh(p)
                               ELSE IF p \in P THEN Null ELSE at[p]]
    /\ heap' = Heap({at[p] : p \in P}, fill)

\* What new items have in them: one, or an object and its items.
One(p, v) == [q \in {p} |-> v]
ObjectWith(h, f) == [p \in {<<h, n>> : n \in DOMAIN f \cup {"self"}} |->
                        IF p[2] = "self" THEN Null ELSE f[p[2]]]

\* What is at place q is freed, and what is at p goes there.
BugMove(p, q) ==
    /\ at' = [at EXCEPT ![q] = at[p]]
    /\ heap' = Heap({at[q]}, Nothing)
Move(p, q) ==
    /\ at' = [at EXCEPT ![q] = at[p], ![p] = Null]
    /\ heap' = Heap({at[q]}, Nothing)

-------------------------------------------------------------------------------
\* The application's own items

Holds == {p \in Mine : at[p] # Null}

Make ==
    /\ Cardinality(Holds) < MaxItems
    /\ \E p \in Mine \ Holds, v \in Values : Replace({}, One(p, v))
    /\ UNCHANGED <<id, val, lost, up>>

Drop ==
    /\ \E p \in Holds : Replace({p}, Nothing)
    /\ UNCHANGED <<id, val, lost, up>>

\* Through a getter that does not transfer ownership the application can change
\* the item where it is.
Edit(h) ==
    /\ Exists(h)
    /\ \E n \in Loose, v \in Values :
        /\ at[<<h, n>>] # Null
        /\ heap' = [heap EXCEPT ![at[<<h, n>>]] = v]
    /\ UNCHANGED <<at, id, val, lost, up>>

-------------------------------------------------------------------------------
\* Objects

New(h) ==
    /\ ~ Exists(h)
    /\ Replace({}, ObjectWith(h, Nothing))
    /\ UNCHANGED <<id, val, lost, up>>

Destroy(h) ==
    /\ Exists(h)
    /\ Replace(Parts(h), Nothing)
    /\ id' = [id EXCEPT ![h] = 0]
    /\ val' = [val EXCEPT ![h] = Blank]
    /\ UNCHANGED <<lost, up>>

\* dup copies every item that is set, those of other messages too.  flags are not
\* copied.
BugCopied(h) == {n \in Items \ {"routing_id"} : at[<<h, n>>] # Null}
Copied(h) == {n \in Items : at[<<h, n>>] # Null}
BugDup(h, g) ==
    /\ Exists(h) /\ ~ Exists(g) /\ Room({<<g, "self">>})
    /\ at' = [p \in Places |-> IF p = <<g, "self">> THEN Fresh(p)
                 ELSE IF p[1] = g THEN at[<<h, p[2]>>] ELSE at[p]]
    /\ heap' = Heap({}, ObjectWith(g, Nothing))
    /\ id' = [id EXCEPT ![g] = id[h]]
    /\ val' = [val EXCEPT ![g] = val[h]]
    /\ UNCHANGED <<lost, up>>
Dup(h, g) ==
    /\ Exists(h) /\ ~ Exists(g)
    /\ Replace({}, ObjectWith(g, [n \in Copied(h) |-> Get(<<h, n>>)]))
    /\ id' = [id EXCEPT ![g] = id[h]]
    /\ val' = [val EXCEPT ![g] = [n \in Inlines |->
                 IF TypeOf[n] = "octets" THEN 0 ELSE val[h][n]]]
    /\ UNCHANGED <<lost, up>>

SetId(h) ==
    /\ Exists(h)
    /\ \E i \in Ids : id' = [id EXCEPT ![h] = i]
    /\ UNCHANGED <<at, heap, val, lost, up>>

SetInline(h) ==
    /\ Exists(h)
    /\ \E n \in Inlines, v \in Values0 : val' = [val EXCEPT ![h][n] = Fit(n, v)]
    /\ UNCHANGED <<at, heap, id, lost, up>>

\* A copy of a string, or of the application's item, which may be NULL.
SetCopy(h) ==
    /\ Exists(h)
    /\ \E n \in Items \ Given :
       \E v \in IF TypeOf[n] = "longstr" THEN Values ELSE {Get(<<App, TypeOf[n]>>)} :
        Replace({<<h, n>>}, IF v = Null THEN Nothing ELSE One(<<h, n>>, v))
    /\ UNCHANGED <<id, val, lost, up>>

\* The application's item itself, whose pointer becomes NULL; it may be NULL.
SetOwn(h) ==
    /\ Exists(h)
    /\ \E n \in Given : Move(<<App, TypeOf[n]>>, <<h, n>>)
    /\ UNCHANGED <<id, val, lost, up>>

Take(h) ==
    /\ Exists(h) /\ Cardinality(Holds) < MaxItems
    /\ \E n \in Loose \ {"routing_id"} :
        /\ at[<<App, TypeOf[n]>>] = Null
        /\ Move(<<h, n>>, <<App, TypeOf[n]>>)
    /\ UNCHANGED <<id, val, lost, up>>

\* recv reads the routing id if the socket is a ROUTER, then the fields one by one
\* until the end or what is malformed; each that is read replaces what was there.
\* Lists may have some of their items only.
Recv(h) ==
    /\ Exists(h)
    /\ \E i \in Ids \cup {0, id[h]}, v \in Values, from \in SUBSET {"routing_id"} :
       \E k \in 0..Len(FieldsOf(i)) :
        LET read  == {FieldsOf(i)[j].name : j \in 1..k}
            items == {<<h, n>> : n \in (read \cup from) \cap Items}
        IN /\ Replace(items, [p \in items |-> v])
           /\ id' = [id EXCEPT ![h] = i]
           /\ val' = [val EXCEPT ![h] = [n \in Inlines |->
                        IF n \in read THEN Fit(n, v) ELSE val[h][n]]]
    /\ UNCHANGED <<lost, up>>

-------------------------------------------------------------------------------
\* ZPL

\* What zpl writes: an item that is not set has no entry, or makes CZMQ fail an
\* assertion.
Exported(h) == [id |-> id[h], f |-> [n \in NamesOf(id[h]) \cup {"routing_id"} |-> Seen(h)[n]]]
Exportable(h) ==
    \A n \in NamesOf(id[h]) :
        TypeOf[n] \in {"chunk", "frame", "msg"} => at[<<h, n>>] # Null

\* The process ends, and all its memory with it.
Abort == /\ up' = FALSE
         /\ at' = Unset /\ heap' = Nothing /\ lost' = {}
         /\ id' = [h \in Handles |-> 0] /\ val' = [h \in Handles |-> Blank]

Zpl(h) == Exists(h) /\ ~ Exportable(h) /\ Abort

\* new_zpl reads the entries in this order.
Order(i) == [k \in 0..Len(FieldsOf(i)) |->
                IF k = 0 THEN "routing_id" ELSE FieldsOf(i)[k].name]
Hex == {"octets", "chunk", "frame", "msg"}
BugNeeded == Hex \cup {"number", "string", "longstr", "uuid"}
Needed == Hex \cup {"number", "string", "longstr"}

\* It gives up at an entry that it needs and does not find, or a number that is none:
\* the object is destroyed.  At an odd number of digits BYTES_FROM_STR returns NULL
\* from new_zpl itself: it is not.
Refuses(n, e) == \/ e = Null /\ TypeOf[n] \in Needed /\ n # "routing_id"
                 \/ e = Bad /\ TypeOf[n] = "number"
Loses(n, e) == e = Odd /\ TypeOf[n] \in Hex

\* The value of an entry.  Another text may stand for any value, and so may digits
\* that are none, which leave an unset variable, and a uuid that cannot be read,
\* which stays random.
Value(n, e, any) == IF e = Null THEN Null
                    ELSE Fit(n, IF e \in {Bad, Odd} THEN any ELSE e)

Before(c, n) == LET k == CHOOSE j \in DOMAIN Order(c.id) : Order(c.id)[j] = n
                IN {Order(c.id)[j] : j \in 0..(k - 1)}
Stops(c, n) == Refuses(n, c.f[n]) \/ Loses(n, c.f[n])
Reaches(c, n) == \A m \in Before(c, n) : ~ Stops(c, m)
Whole(c) == c.id \in Ids /\ \A n \in DOMAIN c.f : ~ Stops(c, n)

\* What the object consists of when the entries of N have been read.
Built(h, c, N, any) ==
    ObjectWith(h, [n \in {m \in N \cap Items : c.f[m] # Null} |-> Value(n, c.f[n], any)])

\* An exported configuration, in which one entry may be missing or have other text.
Edits(c) ==
    {c} \cup {[c EXCEPT !.f[n] = e] : n \in DOMAIN c.f, e \in {Null, Bad, Odd}}
        \cup {[c EXCEPT !.f[n] = @ + Width] : n \in {m \in DOMAIN c.f : TypeOf[m] = "number"}}

Import(h, c, any) ==
    /\ Whole(c)
    /\ Replace({}, Built(h, c, DOMAIN c.f, any))
    /\ id' = [id EXCEPT ![h] = c.id]
    /\ val' = [val EXCEPT ![h] = [n \in Inlines |->
                 IF n \in DOMAIN c.f THEN Value(n, c.f[n], any) ELSE 0]]
    /\ UNCHANGED <<lost, up>>

Lose(h, c, n, any) ==
    LET fill == Built(h, c, Before(c, n), any)
    IN /\ Loses(n, c.f[n]) /\ Reaches(c, n)
       /\ Room(DOMAIN fill)
       /\ heap' = Heap({}, fill)
       /\ lost' = lost \cup Blocks(DOMAIN fill)
       /\ UNCHANGED <<at, id, val, up>>

NewZpl(h) ==
    /\ ~ Exists(h)
    /\ \E g \in Handles :
        /\ Exists(g) /\ Exportable(g) /\ id[g] \in Ids
        /\ \E c \in Edits(Exported(g)), any \in Values :
            \/ Import(h, c, any)
            \/ \E n \in DOMAIN c.f : Lose(h, c, n, any)
            \/ \E n \in DOMAIN c.f :
                /\ c.f[n] = Bad /\ TypeOf[n] \in Hex /\ Reaches(c, n)
                /\ Abort

-------------------------------------------------------------------------------
Init ==
    /\ up = TRUE
    /\ at = Unset /\ heap = Nothing /\ lost = {}
    /\ id = [h \in Handles |-> 0] /\ val = [h \in Handles |-> Blank]

Call(h) == New(h) \/ Destroy(h) \/ SetId(h) \/ SetInline(h) \/ SetCopy(h) \/ SetOwn(h)
              \/ Take(h) \/ Edit(h) \/ Recv(h) \/ Zpl(h) \/ NewZpl(h)

Next == up /\ \/ Make \/ Drop
              \/ \E h \in Handles : Call(h) \/ \E g \in Handles : Dup(h, g)

Spec == Init /\ [][Next]_vars

-------------------------------------------------------------------------------
\* Properties

TypeOK ==
    /\ at \in [Places -> (Places \X Serials) \cup {Null}]
    /\ Live \subseteq Places \X Serials
    /\ \A b \in Live : heap[b] \in Values \cup {Null}
    /\ id \in [Handles -> Ids \cup {0}]
    /\ val \in [Handles -> [Inlines -> Values0 \cup 0..(Width - 1)]]
    /\ \A h \in Handles, n \in Inlines : TypeOf[n] = "number" => val[h][n] < Width
    /\ lost \subseteq Places \X Serials /\ up \in BOOLEAN

\* Memory has one owner: what a pointer points to is allocated, no other pointer
\* points there, and what no pointer points to is freed, but for the blocks that
\* new_zpl has lost.  An object that is gone has no pointers left.
SoleOwner ==
    /\ \A p \in Places : at[p] # Null =>
        at[p] \in Live \ lost /\ \A q \in Places \ {p} : at[q] # at[p]
    /\ \A b \in Live : b \in lost \/ \E p \in Places : at[p] = b
    /\ \A h \in Handles : ~ Exists(h) => \A p \in Parts(h) : at[p] = Null

\* Whatever is done to one object, by a call or through a getter, is not seen in
\* another one, copies made by dup included.
ObjectsApart ==
    [][up' => Cardinality({h \in Handles : Seen(h)' # Seen(h)}) <= 1]_vars

\* dup copies all but the octets, and leaves its original as it was.
DupKeeps ==
    [][\A h, g \in Handles : Exists(g)' /\ Dup(h, g) =>
        /\ \A n \in DOMAIN Seen(h) : TypeOf[n] # "octets" => Seen(g)'[n] = Seen(h)[n]
        /\ Seen(h)' = Seen(h)]_vars

\* An exported message can be read back, unless it is a string that was not set,
\* and what is read is what was exported.
ZplRoundTrip ==
    \A h \in Handles : Exists(h) /\ Exportable(h) /\ id[h] \in Ids =>
        LET c == Exported(h)
        IN /\ Whole(c) \/ \E n \in DOMAIN c.f : TypeOf[n] = "longstr" /\ c.f[n] = Null
           /\ \A n \in DOMAIN c.f, any \in Values : Value(n, c.f[n], any) = Seen(h)[n]

-------------------------------------------------------------------------------
\* What the comments say and the code does not do.

\* "Create a deep copy of a zproto_example instance".
DupIsCopy == [][\A h, g \in Handles : Dup(h, g) => Seen(g)' = Seen(h)]_vars
===============================================================================
