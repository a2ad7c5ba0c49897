--------------------------------- MODULE Codec ----------------------------------
(***************************************************************************)
(* The codec class zproto_example, and with it every one that              *)
(* zproto_codec_c.gsl generates, on sockets: an application fills one      *)
(* message object and sends it, a ROUTER receives into another, which it   *)
(* uses again for each message and for its reply.  Parsing goes item by    *)
(* item with a needle and a ceiling over the first frame, and takes the    *)
(* other frames off the socket.                                            *)
(*                                                                         *)
(* A frame is a sequence of cells.  A cell is one encoded number, which a  *)
(* length is too, or one octet of a string: how many octets a number takes *)
(* changes nothing that is stated here, except that a string's length has  *)
(* only one and is stored modulo Byte.  A constant field is one cell.      *)
(***************************************************************************)
EXTENDS Integers, Sequences, SequencesExt, FiniteSetsExt

CONSTANTS
    Fields,      \* Fields[id]: the fields of message id, in order: name, type, arg
    Signature,   \* the protocol's signature
    Byte,        \* the number of values of a one-octet length
    Objects,     \* what the application fills its object with: [id, f]
    Strangers,   \* messages that others put on the wire, sequences of frames
    OwnId,       \* routing id of the socket the object is sent on: a frame's cells
    OtherId,     \* routing id of the others
    MaxMessages, \* bound on the messages that are sent
    Null         \* a field that is not set

Ids == DOMAIN Fields
FieldsOf(id) == IF id \in Ids THEN Fields[id] ELSE <<>>
FieldNames(id) == {FieldsOf(id)[i].name : i \in DOMAIN FieldsOf(id)}
Names == UNION {FieldNames(id) : id \in Ids}
FieldOf(n) == CHOOSE d \in UNION {Range(Fields[id]) : id \in Ids} : d.name = n
Hashes == {n \in Names : FieldOf(n).type = "hash"}

\* Types of the first frame; msg comes last in its message.
Fixed == {"octets", "uuid"}
Texts == {"string", "longstr", "chunk"}
Lists == {"strings", "hash"}
Plain == {"number", "value"} \cup Fixed \cup Texts \cup Lists
Types == Plain \cup {"frame", "msg"}

\* What a field of type d can hold.
String == Seq(Nat)
Value(d) ==
    CASE d.type = "number" -> Nat
      [] d.type \in Fixed -> [1..d.arg -> Nat] \cup {Null}
      [] d.type = "string" -> String
      [] d.type \in {"longstr", "chunk", "frame"} -> String \cup {Null}
      [] d.type \in {"strings", "msg"} -> Seq(String) \cup {Null}
      [] d.type = "hash" -> Seq(String \X String) \cup {Null}
      [] OTHER -> {Null}

Values == [n \in Names |-> Value(FieldOf(n))]

\* A field name has one type, which the generator checks, and the size of a block
\* of octets, which it does not, is that of the member of the class.
ASSUME CodecConstants ==
    /\ Byte \in Nat \ {0} /\ MaxMessages \in Nat
    /\ Ids \subseteq Nat /\ Signature \in Nat
    /\ \A id \in Ids :
        /\ Fields[id] \in Seq([name : STRING, type : Types, arg : Nat])
        /\ \A i \in DOMAIN Fields[id] :
            LET d == Fields[id][i]
            IN /\ d.type = "msg" => i = Len(Fields[id])
               /\ d.type = FieldOf(d.name).type
               /\ d.type \in Fixed => d.arg = FieldOf(d.name).arg
    /\ \A o \in Objects :
        /\ o.id \in Ids
        /\ \A n \in Names : n \in DOMAIN o.f =>
              o.f[n] \in Values[n] \cup {Null}
    /\ Strangers \subseteq Seq(String)
    /\ OwnId \in String /\ OtherId \in String
    /\ Null \notin String \cup Nat

VARIABLES
    out,      \* the object that is sent: id and fields
    bytes,    \* its $(name)_bytes for each hash
    filled,   \* what send wrote, and the size it had reserved
    queue,    \* the messages on the wire: frames, and the object sent as them if any
    replied,  \* the reply to the message that was read last: its address and frames
    sent,     \* how many have been put there
    rest,     \* the frames of the message being read that are still to be read
    obj,      \* the object that is received into: id, fields, routing_id
    data,     \* the first frame
    needle,   \* how much of it has been read
    at, todo, \* the field that is read, and how many items of its list are not yet
    pc,       \* "idle", or what recv does
    rc,       \* what recv returned last
    current   \* what recv read when it was called last: the frames, the object sent as
              \*   them, Null if they were not or not the start of a message

sender == <<out, bytes, filled, sent>>
parser == <<obj, data, needle, at, todo, pc, rc>>
vars   == <<sender, queue, replied, rest, parser, current>>

-------------------------------------------------------------------------------
\* Sending

PutString(s) == <<Len(s) % Byte>> \o s
PutLong(s) == <<Len(s)>> \o s
PutEach(Put(_), s) == <<Len(s)>> \o FlattenSeq([i \in DOMAIN s |-> Put(s[i])])
PutItem(kv) == PutString(kv[1]) \o PutLong(kv[2])

\* The cells that are written for a value of a field.  A hash is given in
\* the order in which it is walked.
Put(d, v) ==
    CASE d.type = "number" -> <<v>>
      [] d.type = "value" -> <<d.arg>>
      [] d.type \in Fixed -> IF v = Null THEN [i \in 1..d.arg |-> 0] ELSE v
      [] d.type = "string" -> PutString(v)
      [] d.type \in {"longstr", "chunk"} -> IF v = Null THEN <<0>> ELSE PutLong(v)
      [] d.type = "strings" -> IF v = Null THEN <<0>> ELSE PutEach(PutLong, v)
      [] d.type = "hash" -> IF v = Null THEN <<0>> ELSE PutEach(PutItem, v)
      [] OTHER -> <<>>

\* The frames that follow the first one.
Frames(d, v) ==
    CASE d.type = "frame" -> IF v = Null THEN <<<<>>>> ELSE <<v>>
      [] d.type = "msg" -> IF v = Null THEN <<<<>>>> ELSE v
      [] OTHER -> <<>>

OverFields(Op(_, _), o) ==
    FlattenSeq([i \in DOMAIN FieldsOf(o.id) |->
        Op(FieldsOf(o.id)[i], o.f[FieldsOf(o.id)[i].name])])

FirstFrame(o) == <<Signature, o.id>> \o OverFields(Put, o)
Message(o) == <<FirstFrame(o)>> \o OverFields(Frames, o)

\* The size of the frame is counted separately.  The contents of a hash are kept
\* in headers_bytes, which is computed only for a hash that is set.
Total(Size(_), v) == SumFunction([i \in DOMAIN v |-> Size(v[i])])
LongSize(s) == 1 + Len(s)
ItemSize(kv) == 1 + Len(kv[1]) + 1 + Len(kv[2])

Counted(o, before) ==
    [n \in Hashes |-> IF o.f[n] # Null /\ n \in FieldNames(o.id)
                      THEN Total(ItemSize, o.f[n]) ELSE before[n]]

BugSizeOf(d, v, counted) == IF v = Null \/ d.type # "string" THEN 1 ELSE Len(v)
SizeOf(d, v, counted) ==
    CASE d.type \in {"number", "value"} -> 1
      [] d.type \in Fixed -> d.arg
      [] d.type \in Texts -> IF v = Null THEN 1 ELSE LongSize(v)
      [] d.type = "strings" -> IF v = Null THEN 1 ELSE 1 + Total(LongSize, v)
      [] d.type = "hash" -> 1 + counted[d.name]
      [] OTHER -> 0

FrameSize(o, counted) ==
    2 + SumFunction([i \in DOMAIN FieldsOf(o.id) |->
            SizeOf(FieldsOf(o.id)[i], o.f[FieldsOf(o.id)[i].name], counted)])

\* What is written into the frame, and its size.
Encoding(o, counted) ==
    [wrote |-> Len(FirstFrame(o)), size |-> FrameSize(o, counted)]

\* What is reserved and not written goes out as it was found there: no reader gets
\* so far, and 0 stands for it.
Padded(s, size) == s \o [i \in 1..(size - Len(s)) |-> 0]

\* An object is all zeros when it is new.
Blank == [n \in Names |-> CASE FieldOf(n).type = "number" -> 0
                            [] FieldOf(n).type = "string" -> <<>>
                            [] FieldOf(n).type = "octets" -> [i \in 1..FieldOf(n).arg |-> 0]
                            [] OTHER -> Null]

\* The application sets fields of an object that has those of f.
Filled(o, f) ==
    [id |-> o.id,
     f |-> [n \in Names |-> IF n \in DOMAIN o.f /\ o.f[n] # Null
                            THEN o.f[n] ELSE f[n]]]

Post(m, o, r) == /\ sent < MaxMessages
                 /\ sent' = sent + 1
                 /\ queue' = Append(queue, [frames |-> <<r>> \o m, object |-> o])

Send ==
    /\ \E o \in Objects :
        LET new   == Filled(o, out.f)
            first == FirstFrame(new)
        IN /\ out' = new
           /\ bytes' = Counted(new, bytes)
           /\ filled' = Encoding(new, bytes')
           /\ Post(<<Padded(first, filled'.size)>> \o Tail(Message(new)), new, OwnId)
    /\ UNCHANGED <<replied, rest, parser, current>>

\* encode makes the first frame only, for another transport than a socket.
Encode ==
    /\ bytes' = Counted(out, bytes)
    /\ filled' = Encoding(out, bytes')
    /\ UNCHANGED <<out, sent, queue, replied, rest, parser, current>>

\* The other side sends the object that it received, on the ROUTER and so to the
\* routing id in it.  Its hashes are never taken out.
Reply ==
    /\ pc = "idle" /\ replied = Null /\ obj.routing_id # Null
    /\ replied' = [to |-> obj.routing_id, frames |-> Message(obj)]
    /\ filled' = Encoding(obj, Counted(obj, [n \in Hashes |-> 0]))
    /\ UNCHANGED <<out, bytes, sent, queue, rest, parser, current>>

\* The application takes a hash out of its object, as it can other values: the size
\* that was computed for it stays.
Take ==
    /\ \E n \in Hashes : out.f[n] # Null /\ out' = [out EXCEPT !.f[n] = Null]
    /\ UNCHANGED <<bytes, filled, sent, queue, replied, rest, parser, current>>

\* A message from someone else.
Stranger ==
    /\ \E m \in Strangers : Post(m, Null, OtherId)
    /\ UNCHANGED <<out, bytes, filled, replied, rest, parser, current>>

-------------------------------------------------------------------------------
\* Receiving

Field == Fields[obj.id][at]
Set(v) == [obj EXCEPT !.f[Field.name] = v]
Grow(v) == Set(Append(obj.f[Field.name], v))

\* The checks of needle against ceiling, and what is read past it.
BugHas(n) == needle + n <= Len(data) + 1
Has(n) == needle + n <= Len(data)
Cell(i) == IF needle + i \in DOMAIN data THEN data[needle + i] ELSE 0
Cells(i, j) == [k \in 1..(j - i + 1) |-> Cell(i + k - 1)]

\* A length at offset i and what it announces: is it there, what is it, where does
\* it end?
HasText(i) == Has(i + 1) /\ Has(i + 1 + Cell(i + 1))
Text(i) == Cells(i + 2, i + 1 + Cell(i + 1))
After(i) == i + 1 + Cell(i + 1)

\* recv returns.
Return(code) == rc' = code /\ pc' = "idle"

\* Every check that GET_ macros make jumps to the end with rc as it is, which is 0;
\* those that the script writes out set it to -2.  What has been parsed so far stays
\* in the object, and frames that have not been read stay in the socket.
GetFailed == /\ Return(0) /\ UNCHANGED <<obj, needle, at, todo, rest>>
Malformed == /\ Return(-2) /\ UNCHANGED <<obj, needle, at, todo, rest>>

NextField(o, n) ==
    /\ obj' = o
    /\ needle' = needle + n
    /\ at' = at + 1
    /\ UNCHANGED <<todo, pc, rc, rest>>

\* The start of recv: routing id, first frame, signature, message id.
Available == IF rest = <<>> THEN Head(queue)
             ELSE [frames |-> rest, object |-> Null]

BeginRecv ==
    /\ pc = "idle"
    /\ rest # <<>> \/ queue # <<>>
    /\ queue' = IF rest = <<>> THEN Tail(queue) ELSE queue
    /\ current' = Available
    /\ replied' = Null
    /\ obj' = [obj EXCEPT !.routing_id = Head(Available.frames)]
    /\ at' = 1 /\ todo' = 0 /\ needle' = 0
    /\ LET frames == Available.frames
       IN \/ /\ Len(frames) = 1
             /\ Return(-1)
             /\ rest' = <<>>
             /\ UNCHANGED data
          \/ /\ Len(frames) > 1
             /\ data' = frames[2]
             /\ rest' = SubSeq(frames, 3, Len(frames))
             /\ pc' = "header"
             /\ UNCHANGED rc
    /\ UNCHANGED sender

ReadHeader ==
    /\ pc = "header"
    /\ \/ ~ Has(1) /\ GetFailed
       \/ Has(1) /\ Cell(1) # Signature /\ Malformed
       \/ Has(1) /\ Cell(1) = Signature /\ ~ Has(2) /\ GetFailed
       \/ /\ Has(2) /\ Cell(1) = Signature /\ Cell(2) \notin Ids
          /\ obj' = [obj EXCEPT !.id = Cell(2)]
          /\ Return(-2)
          /\ UNCHANGED <<needle, at, todo, rest>>
       \/ /\ Has(2) /\ Cell(1) = Signature /\ Cell(2) \in Ids
          /\ obj' = [obj EXCEPT !.id = Cell(2)]
          /\ needle' = 2
          /\ pc' = "fields"
          /\ UNCHANGED <<rc, at, todo, rest>>
    /\ UNCHANGED <<sender, queue, replied, data, current>>

InField(types) ==
    /\ pc = "fields" /\ todo = 0
    /\ at \in DOMAIN Fields[obj.id] /\ Field.type \in types
    /\ UNCHANGED <<sender, queue, replied, data, current>>

ReadNumber ==
    /\ InField({"number", "value"})
    /\ \/ ~ Has(1) /\ GetFailed
       \/ Has(1) /\ Field.type = "value" /\ Cell(1) # Field.arg /\ Malformed
       \/ Has(1) /\ Field.type = "value" /\ Cell(1) = Field.arg /\ NextField(obj, 1)
       \/ Has(1) /\ Field.type = "number" /\ NextField(Set(Cell(1)), 1)

ReadFixed ==
    /\ InField(Fixed)
    /\ \/ ~ Has(Field.arg) /\ Field.type = "octets" /\ GetFailed
       \/ ~ Has(Field.arg) /\ Field.type = "uuid" /\ Malformed
       \/ Has(Field.arg) /\ NextField(Set(Cells(1, Field.arg)), Field.arg)

ReadText ==
    /\ InField(Texts)
    /\ \/ ~ HasText(0) /\ Has(1) /\ Field.type = "chunk" /\ Malformed
       \/ ~ HasText(0) /\ ~ (Has(1) /\ Field.type = "chunk") /\ GetFailed
       \/ HasText(0) /\ NextField(Set(Text(0)), After(0))

\* The list is emptied and its length read, then come its items.
BugEmptied == IF obj.f[Field.name] = Null THEN Set(<<>>) ELSE obj
Emptied == Set(<<>>)

BugItems(n) == todo' = n - 1 /\ at' = IF n <= 1 THEN at + 1 ELSE at
Items(n) == todo' = n /\ at' = IF n = 0 THEN at + 1 ELSE at

BeginList ==
    /\ InField(Lists)
    /\ \/ ~ Has(1) /\ GetFailed
       \/ /\ Has(1)
          /\ obj' = Emptied
          /\ Items(Cell(1))
          /\ needle' = needle + 1
          /\ UNCHANGED <<pc, rc, rest>>

\* zhash_insert keeps the first of two items with one key.
BugInserted(k, v) == Grow(<<v, k>>)
Inserted(k, v) ==
    IF \E i \in DOMAIN obj.f[Field.name] : obj.f[Field.name][i][1] = k
    THEN obj ELSE Grow(<<k, v>>)

ReadItem ==
    /\ pc = "fields" /\ todo > 0
    /\ LET done(o, n) == /\ obj' = o
                         /\ needle' = needle + n
                         /\ Items(todo - 1)
                         /\ UNCHANGED <<pc, rc, rest>>
       IN \/ ~ HasText(0) /\ GetFailed
          \/ HasText(0) /\ Field.type = "strings" /\ done(Grow(Text(0)), After(0))
          \/ /\ HasText(0) /\ Field.type = "hash"
             /\ \/ ~ HasText(After(0)) /\ GetFailed
                \/ /\ HasText(After(0))
                   /\ done(Inserted(Text(0), Text(After(0))), After(After(0)))
    /\ UNCHANGED <<sender, queue, replied, data, current>>

\* The next frame, or all that are left.
ReadFrame ==
    /\ InField({"frame", "msg"})
    /\ \/ rest = <<>> /\ Field.type = "frame" /\ Malformed
       \/ /\ rest # <<>> \/ Field.type = "msg"
          /\ obj' = Set(IF Field.type = "msg" THEN rest ELSE Head(rest))
          /\ rest' = IF Field.type = "msg" THEN <<>> ELSE Tail(rest)
          /\ at' = at + 1
          /\ UNCHANGED <<needle, todo, pc, rc>>

EndRecv ==
    /\ pc = "fields" /\ todo = 0 /\ at \notin DOMAIN Fields[obj.id]
    /\ Return(0)
    /\ UNCHANGED <<sender, queue, replied, data, current, obj, needle, at, todo, rest>>

-------------------------------------------------------------------------------
Init ==
    /\ out = [id |-> 0, f |-> Blank]
    /\ sent = 0
    /\ bytes = [n \in Hashes |-> 0]
    /\ filled = [wrote |-> 0, size |-> 0]
    /\ queue = <<>> /\ rest = <<>> /\ replied = Null
    /\ obj = [id |-> 0, f |-> Blank, routing_id |-> Null]
    /\ data = <<>> /\ needle = 0 /\ at = 1 /\ todo = 0
    /\ pc = "idle" /\ rc = 0
    /\ current = [frames |-> <<>>, object |-> Null]

Recv == BeginRecv \/ ReadHeader \/ ReadNumber \/ ReadFixed \/ ReadText
            \/ BeginList \/ ReadItem \/ ReadFrame \/ EndRecv

Next == Take \/ Send \/ Encode \/ Reply \/ Stranger \/ Recv

Spec == Init /\ [][Next]_vars

-------------------------------------------------------------------------------
\* Properties

\* What a message of object o looks like to the one who receives it: fields that
\* were not set are empty.
Seen(d, v) ==
    CASE v # Null -> v
      [] v = Null /\ d.type \in Fixed -> [i \in 1..d.arg |-> 0]
      [] v = Null /\ d.type = "msg" -> <<<<>>>>
      [] OTHER -> <<>>

\* Values that the format carries: strings of which the length fits into its octet,
\* and hashes, in which no two items have one key.  The members of the class that
\* hold strings are no longer than that, but the keys of a hash may be.
Sendable(d, v) ==
    /\ d.type = "string" => Len(v) < Byte
    /\ d.type = "hash" /\ v # Null => \A i, j \in 1..Len(v) :
            Len(v[i][1]) < Byte /\ (v[i][1] = v[j][1] => i = j)

ObjectsSendable ==
    \A o \in Objects : \A n \in Names \cap DOMAIN o.f :
        o.f[n] # Null => Sendable(FieldOf(n), o.f[n])

Returns == pc # "idle" /\ pc' = "idle"

TypeOK ==
    /\ out.id \in Ids \cup {0} /\ DOMAIN out.f = Names /\ sent \in Nat
    /\ \A n \in Names : out.f[n] \in Values[n] /\ obj.f[n] \in Values[n]
    /\ bytes \in [Hashes -> Nat]
    /\ filled \in [wrote : Nat, size : Nat]
    /\ obj.id \in Nat /\ DOMAIN obj.f = Names
    /\ needle \in Nat /\ at \in Nat \ {0} /\ todo \in Nat
    /\ todo > 0 => at \in DOMAIN Fields[obj.id] /\ Field.type \in Lists
    /\ pc \in {"idle", "header", "fields"} /\ rc \in {0, -1, -2}

\* However lengths in the frame lie, nothing is read past its end.
StaysInFrame == needle <= Len(data)

\* send writes no octet past the end of the frame that it has reserved, whatever
\* the object held before.
FitsFrame == filled.wrote <= filled.size

\* A message that is received and sent back as it is comes to the one who sent it,
\* with what that one sent, whatever the object held before.
EchoIsFaithful ==
    replied # Null /\ current.object # Null =>
        /\ replied.to = Head(current.frames)
        /\ replied.frames = Message(current.object)

\* What one object sends another one receives, field by field, whatever the object
\* that receives held before, and the socket is at the start of the next message.
RoundTrip ==
    [][Returns /\ current.object # Null =>
        LET o == current.object
        IN /\ rc' = 0 /\ obj'.id = o.id
           /\ obj'.routing_id = Head(current.frames)
           /\ \A i \in DOMAIN Fields[o.id] :
                LET d == Fields[o.id][i]
                IN d.type = "value" \/ obj'.f[d.name] = Seen(d, o.f[d.name])
           /\ rest' = <<>>]_vars

-------------------------------------------------------------------------------
\* What the comments say and the code does not do.

\* "Returns 0 if OK, -1 if the recv was interrupted, or -2 if the message is
\* malformed": a message of which the end is missing is not received with 0.
TruncatedIsMalformed ==
    [][Returns /\ Len(current.frames) > 1 /\ rc' = 0 =>
        ~ \E o \in Objects : IsStrictPrefix(current.frames[2], FirstFrame(Filled(o, Blank)))]_vars
===============================================================================
