------------------------------ MODULE CodecProofs -------------------------------
(***************************************************************************)
(* Theorems about Codec, for every protocol.  IInv gives what holds of any *)
(* message, EchoInv what holds of one that an object was sent as.          *)
(***************************************************************************)
EXTENDS CodecLemmas

-------------------------------------------------------------------------------
\* The inductive invariant.

AnyObject == [id : Ids, f : [Names -> UNION {Values[n] : n \in Names}]]
Posted == [frames : Seq(String) \ {<<>>}, object : AnyObject \cup {Null}]

SenderInv ==
    /\ out.id \in Ids \cup {0} /\ WellTyped(out.f) /\ DOMAIN out.f = Names
    /\ DOMAIN out = {"id", "f"}
    /\ sent \in Nat
    /\ bytes \in [Hashes -> Nat]
    /\ filled \in [wrote : Nat, size : Nat] /\ filled.wrote <= filled.size
    /\ queue \in Seq(Posted)

ObjectInv ==
    /\ DOMAIN obj = {"id", "f", "routing_id"}
    /\ obj.id \in Nat /\ DOMAIN obj.f = Names /\ WellTyped(obj.f)

ParserInv ==
    /\ rest \in Seq(String) /\ data \in String
    /\ needle \in Nat /\ needle <= Len(data)
    /\ at \in Nat \ {0} /\ todo \in Nat
    /\ pc \in {"idle", "header", "fields"} /\ rc \in {0, -1, -2}
    /\ pc = "header" => todo = 0
    /\ pc = "fields" \/ todo > 0 => obj.id \in Ids
    /\ todo > 0 => /\ at \in DOMAIN Fields[obj.id] /\ Field.type \in Lists
                   /\ obj.f[Field.name] \in ListOf(Field)

IInv == SenderInv /\ ObjectInv /\ ParserInv

LEMMA IInvMeans == IInv => TypeOK /\ StaysInFrame /\ FitsFrame
BY DEF IInv, SenderInv, ObjectInv, ParserInv, TypeOK, StaysInFrame, FitsFrame,
   WellTyped

LEMMA BlankIsTyped == WellTyped(Blank) /\ DOMAIN Blank = Names
<1>1. ASSUME NEW n \in Names PROVE Blank[n] \in Values[n]
  <2> DEFINE d == FieldOf(n)
  <2>1. Blank[n] = CASE d.type = "number" -> 0
                     [] d.type = "string" -> <<>>
                     [] d.type = "octets" -> [i \in 1..d.arg |-> 0]
                     [] OTHER -> Null
    BY DEF Blank
  <2>2. Values[n] = Value(d)
    BY DEF Values
  <2>3. PICK id \in Ids : n \in FieldNames(id)
    BY DEF Names
  <2>4. PICK i \in DOMAIN Fields[id] : Fields[id][i].name = n
    BY <2>3 DEF FieldNames, FieldsOf
  <2>5. Known(Fields[id][i]) /\ d.type = Fields[id][i].type
    BY <2>4, FieldFacts, CodecConstants
  <2>6. d.type \in Types
    BY <2>5 DEF Known
  <2> HIDE DEF d
  <2>7. CASE d.type = "number"
    BY <2>1, <2>2, <2>7 DEF Value, Fixed
  <2>8. CASE d.type = "string"
    BY <2>1, <2>2, <2>8 DEF Value, Fixed, String
  <2>9. CASE d.type = "octets"
    BY <2>1, <2>2, <2>9 DEF Value, Fixed
  <2>10. CASE d.type \notin {"number", "string", "octets"}
    <3>1. Blank[n] = Null
      BY <2>1, <2>10
    <3>2. Null \in Value(d)
      BY <2>6, <2>10, TypesAre DEF Value, Fixed
    <3> QED
      BY <2>2, <3>1, <3>2
  <2> QED
    BY <2>7, <2>8, <2>9, <2>10
<1> QED
  BY <1>1 DEF WellTyped, Blank

LEMMA InitInv == Init => IInv
<1> SUFFICES ASSUME Init PROVE IInv
  OBVIOUS
<1>1. SenderInv
  BY BlankIsTyped DEF Init, SenderInv
<1>2. ObjectInv
  BY BlankIsTyped DEF Init, ObjectInv
<1>3. ParserInv
  BY DEF Init, ParserInv, String
<1> QED
  BY <1>1, <1>2, <1>3 DEF IInv

-------------------------------------------------------------------------------
\* The sender's steps.

LEMMA ParserStays ==
    ASSUME ObjectInv, ParserInv, UNCHANGED <<parser, rest>>
    PROVE  ObjectInv' /\ ParserInv'
BY DEF ObjectInv, ParserInv, parser, Field, ListOf, WellTyped

LEMMA PostAdds ==
    ASSUME SenderInv, NEW m \in Seq(String), NEW o \in AnyObject \cup {Null},
           NEW r \in String, Post(m, o, r)
    PROVE  queue' \in Seq(Posted) /\ sent' \in Nat
<1>1. <<r>> \in Seq(String) /\ Len(<<r>>) = 1
  OBVIOUS
<1>2. <<r>> \o m \in Seq(String) /\ Len(<<r>> \o m) = 1 + Len(m)
  BY <1>1, ConcatFacts
<1>3. <<r>> \o m # <<>>
  <2>1. Len(m) \in Nat
    OBVIOUS
  <2>2. Len(<<>>) = 0
    OBVIOUS
  <2> QED
    BY <1>2, <2>1, <2>2
<1> DEFINE p == [frames |-> <<r>> \o m, object |-> o]
<1>4. p \in Posted
  BY <1>2, <1>3 DEF Posted
<1>5. queue' = Append(queue, p) /\ sent' = sent + 1
  BY DEF Post
<1> HIDE DEF p
<1> QED
  BY <1>4, <1>5 DEF SenderInv

LEMMA FilledIsTyped ==
    ASSUME NEW o \in Objects, NEW f, WellTyped(f)
    PROVE  /\ Filled(o, f) \in AnyObject
           /\ WellTyped(Filled(o, f).f) /\ DOMAIN Filled(o, f).f = Names
           /\ Filled(o, f).id \in Ids /\ DOMAIN Filled(o, f) = {"id", "f"}
<1> DEFINE g == [n \in Names |-> IF n \in DOMAIN o.f /\ o.f[n] # Null
                                 THEN o.f[n] ELSE f[n]]
<1>1. Filled(o, f) = [id |-> o.id, f |-> g]
  BY DEF Filled
<1>2. o.id \in Ids
  BY CodecConstants
<1>3. ASSUME NEW n \in Names PROVE g[n] \in Values[n]
  BY CodecConstants DEF WellTyped
<1>4. g \in [Names -> UNION {Values[n] : n \in Names}]
  BY <1>3
<1>5. WellTyped(g) /\ DOMAIN g = Names
  BY <1>3 DEF WellTyped
<1> HIDE DEF g
<1> QED
  BY <1>1, <1>2, <1>4, <1>5 DEF AnyObject

LEMMA PaddedIsString ==
    ASSUME NEW s \in String, NEW n \in Nat
    PROVE  Padded(s, n) \in String
<1>1. Len(s) \in Nat
  BY DEF String
<1>2. [i \in 1..(n - Len(s)) |-> 0] \in Seq(Nat)
  <2>1. CASE n - Len(s) \in Nat
    BY <2>1
  <2>2. CASE n - Len(s) \notin Nat
    <3>1. 1..(n - Len(s)) = {}
      BY <1>1, <2>2
    <3>2. [i \in 1..0 |-> 0] \in Seq(Nat) /\ 1..0 = {}
      OBVIOUS
    <3> QED
      BY <3>1, <3>2
  <2> QED
    BY <2>1, <2>2
<1> QED
  BY <1>2, ConcatFacts DEF Padded, String

LEMMA SendInv == IInv /\ Send => IInv'
<1> SUFFICES ASSUME IInv, Send PROVE IInv'
  OBVIOUS
<1>1. WellTyped(out.f) /\ \A n \in Hashes : bytes[n] \in Nat
  BY DEF IInv, SenderInv
<1>2. PICK o \in Objects :
        LET new   == Filled(o, out.f)
            first == FirstFrame(new)
        IN /\ out' = new
           /\ bytes' = Counted(new, bytes)
           /\ filled' = Encoding(new, bytes')
           /\ Post(<<Padded(first, filled'.size)>> \o Tail(Message(new)), new, OwnId)
  BY DEF Send
<1> DEFINE new == Filled(o, out.f)
           first == FirstFrame(new)
           m == <<Padded(first, filled'.size)>> \o Tail(Message(new))
<1>3. /\ new \in AnyObject /\ WellTyped(new.f) /\ DOMAIN new.f = Names
      /\ new.id \in Ids /\ DOMAIN new = {"id", "f"}
  BY <1>1, FilledIsTyped
<1>4. new.id \in Nat
  BY <1>3, CodecConstants
<1>5. /\ out' = new /\ bytes' = Counted(new, bytes)
      /\ filled' = Encoding(new, bytes')
      /\ Post(m, new, OwnId)
  BY <1>2
<1> HIDE DEF new
<1>6. CountsOf(new, bytes') /\ bytes' \in [Hashes -> Nat]
  BY <1>1, <1>3, <1>5, CountedCounts
<1>7. filled' \in [wrote : Nat, size : Nat] /\ filled'.wrote <= filled'.size
  BY <1>3, <1>4, <1>5, <1>6, EncodingFits
<1>8. first \in String
  BY <1>3, <1>4, <1>6, FirstFrameFits
<1>9. m \in Seq(String)
  <2>1. Padded(first, filled'.size) \in String
    BY <1>7, <1>8, PaddedIsString
  <2>2. <<Padded(first, filled'.size)>> \in Seq(String)
    BY <2>1
  <2>3. Tail(Message(new)) \in Seq(String)
    BY <1>3, <1>4, MessageIsFrames
  <2> QED
    BY <2>2, <2>3, ConcatFacts
<1>10. queue' \in Seq(Posted) /\ sent' \in Nat
  <2> HIDE DEF m
  <2> QED
    BY <1>3, <1>5, <1>9, PostAdds, CodecConstants DEF IInv
<1>11. SenderInv'
  BY <1>3, <1>5, <1>6, <1>7, <1>10 DEF SenderInv, WellTyped
<1>12. ObjectInv' /\ ParserInv'
  BY ParserStays DEF IInv, Send
<1> QED
  BY <1>11, <1>12 DEF IInv

LEMMA EncodeInv == IInv /\ Encode => IInv'
<1> SUFFICES ASSUME IInv, Encode PROVE IInv'
  OBVIOUS
<1>1. WellTyped(out.f) /\ out.id \in Nat /\ \A n \in Hashes : bytes[n] \in Nat
  <2>1. \A id \in Ids \cup {0} : id \in Nat
    BY CodecConstants
  <2>2. out.id \in Ids \cup {0} /\ WellTyped(out.f) /\ bytes \in [Hashes -> Nat]
    BY DEF IInv, SenderInv
  <2>3. out.id \in Nat
    BY <2>1, <2>2
  <2> QED
    BY <2>2, <2>3
<1>2. CountsOf(out, bytes') /\ bytes' \in [Hashes -> Nat]
  BY <1>1, CountedCounts DEF Encode
<1>3. filled' \in [wrote : Nat, size : Nat] /\ filled'.wrote <= filled'.size
  BY <1>1, <1>2, EncodingFits DEF Encode
<1>4. SenderInv'
  BY <1>2, <1>3 DEF IInv, SenderInv, Encode, WellTyped
<1>5. ObjectInv' /\ ParserInv'
  BY ParserStays DEF IInv, Encode
<1> QED
  BY <1>4, <1>5 DEF IInv

LEMMA ReplyInv == IInv /\ Reply => IInv'
<1> SUFFICES ASSUME IInv, Reply PROVE IInv'
  OBVIOUS
<1> DEFINE none == [n \in Hashes |-> 0]
<1>1. WellTyped(obj.f) /\ obj.id \in Nat /\ \A n \in Hashes : none[n] \in Nat
  BY DEF IInv, ObjectInv
<1> HIDE DEF none
<1>2. CountsOf(obj, Counted(obj, none))
  BY <1>1, CountedCounts
<1>3. filled' = Encoding(obj, Counted(obj, none))
  BY DEF Reply, none
<1>4. filled' \in [wrote : Nat, size : Nat] /\ filled'.wrote <= filled'.size
  BY <1>1, <1>2, <1>3, EncodingFits
<1>5. SenderInv'
  BY <1>4 DEF IInv, SenderInv, Reply, WellTyped
<1>6. ObjectInv' /\ ParserInv'
  BY ParserStays DEF IInv, Reply
<1> QED
  BY <1>5, <1>6 DEF IInv

LEMMA TakeInv == IInv /\ Take => IInv'
<1> SUFFICES ASSUME IInv, Take PROVE IInv'
  OBVIOUS
<1>1. PICK n \in Hashes : out' = [out EXCEPT !.f[n] = Null]
  BY DEF Take
<1>2. n \in Names /\ Null \in Values[n]
  <2>1. n \in Names /\ FieldOf(n).type = "hash"
    BY DEF Hashes
  <2> QED
    BY <2>1 DEF Values, Value, Fixed
<1>3. /\ DOMAIN out' = {"id", "f"} /\ out'.id = out.id
      /\ out'.f = [out.f EXCEPT ![n] = Null]
  BY <1>1 DEF IInv, SenderInv
<1>4. WellTyped(out'.f) /\ DOMAIN out'.f = Names
  BY <1>2, <1>3 DEF IInv, SenderInv, WellTyped
<1>5. SenderInv'
  BY <1>3, <1>4 DEF IInv, SenderInv, Take, WellTyped
<1>6. ObjectInv' /\ ParserInv'
  BY ParserStays DEF IInv, Take
<1> QED
  BY <1>5, <1>6 DEF IInv

LEMMA StrangerInv == IInv /\ Stranger => IInv'
<1> SUFFICES ASSUME IInv, Stranger PROVE IInv'
  OBVIOUS
<1>1. PICK m \in Strangers : Post(m, Null, OtherId)
  BY DEF Stranger
<1>2. m \in Seq(String) /\ OtherId \in String
  BY CodecConstants
<1>3. queue' \in Seq(Posted) /\ sent' \in Nat
  BY <1>1, <1>2, PostAdds DEF IInv
<1>4. SenderInv'
  BY <1>3 DEF IInv, SenderInv, Stranger, WellTyped
<1>5. ObjectInv' /\ ParserInv'
  BY ParserStays DEF IInv, Stranger
<1> QED
  BY <1>4, <1>5 DEF IInv

-------------------------------------------------------------------------------
\* What is read from the frame.

LEMMA CellIsNumber == ASSUME data \in String, NEW i PROVE Cell(i) \in Nat
BY DEF Cell, String

LEMMA CellsAreString ==
    ASSUME data \in String, NEW i, NEW j, NEW n \in Nat, j - i + 1 = n
    PROVE  Cells(i, j) \in [1..n -> Nat] /\ Cells(i, j) \in String
<1>1. Cells(i, j) \in [1..n -> Nat]
  BY CellIsNumber DEF Cells
<1> QED
  BY <1>1 DEF String

LEMMA TextIsString ==
    ASSUME data \in String, needle \in Nat, NEW i \in Nat, HasText(i)
    PROVE  /\ Text(i) \in String
           /\ After(i) \in Nat /\ needle + After(i) <= Len(data)
<1>1. Cell(i + 1) \in Nat
  BY CellIsNumber
<1>2. After(i) \in Nat /\ needle + After(i) <= Len(data)
  BY <1>1 DEF HasText, Has, After
<1>3. (i + 1 + Cell(i + 1)) - (i + 2) + 1 = Cell(i + 1)
  BY <1>1
<1>4. Text(i) \in String
  BY <1>1, <1>3, CellsAreString DEF Text
<1> QED
  BY <1>2, <1>4

\* The field that is read.
LEMMA FieldIs ==
    ASSUME IInv, obj.id \in Ids, at \in DOMAIN Fields[obj.id]
    PROVE  /\ Known(Field) /\ Field.name \in Names
           /\ Values[Field.name] = Value(Field)
           /\ Field.arg \in Nat
BY FieldFacts DEF Field, Known

LEMMA SetKeeps ==
    ASSUME IInv, obj.id \in Ids, at \in DOMAIN Fields[obj.id],
           NEW v \in Value(Field), obj' = Set(v)
    PROVE  ObjectInv' /\ obj'.id = obj.id /\ obj'.f[Field.name] = v
<1> DEFINE x == Field.name
<1>1. x \in Names /\ Values[x] = Value(Field)
  BY FieldIs
<1>2. obj' = [obj EXCEPT !.f[x] = v]
  BY DEF Set
<1> HIDE DEF x
<1>3. /\ DOMAIN obj' = DOMAIN obj /\ obj'.id = obj.id
      /\ obj'.f = [obj.f EXCEPT ![x] = v]
  BY <1>2 DEF IInv, ObjectInv
<1>4. DOMAIN obj'.f = Names /\ obj'.f[x] = v /\ WellTyped(obj'.f)
  BY <1>1, <1>3 DEF IInv, ObjectInv, WellTyped
<1> QED
  BY <1>3, <1>4 DEF IInv, ObjectInv, WellTyped, x

LEMMA SenderStays ==
    ASSUME SenderInv, UNCHANGED <<sender, queue>>
    PROVE  SenderInv'
BY DEF SenderInv, sender, WellTyped

\* recv fails: only pc and rc change.
LEMMA FailureInv ==
    ASSUME IInv, GetFailed \/ Malformed, UNCHANGED <<sender, queue, replied, data, current>>
    PROVE  IInv'
<1>1. SenderInv'
  BY SenderStays DEF IInv
<1>2. UNCHANGED <<obj, needle, at, todo, rest, data>> /\ pc' = "idle" /\ rc' \in {0, -2}
  BY DEF GetFailed, Malformed, Return
<1>3. ObjectInv'
  BY <1>2 DEF IInv, ObjectInv, WellTyped
<1>4. ParserInv'
  BY <1>2 DEF IInv, ParserInv, Field, ListOf
<1> QED
  BY <1>1, <1>3, <1>4 DEF IInv

\* A field that is not a list has been read.
LEMMA NextFieldInv ==
    ASSUME IInv, UNCHANGED <<sender, queue, replied, data, current>>,
           pc = "fields", todo = 0, at \in DOMAIN Fields[obj.id],
           NEW o, NEW n \in Nat, needle + n <= Len(data), NextField(o, n),
           o = obj \/ \E v \in Value(Field) : o = Set(v)
    PROVE  IInv'
<1>1. SenderInv'
  BY SenderStays DEF IInv
<1>2. obj.id \in Ids
  BY DEF IInv, ParserInv
<1>3. /\ obj' = o /\ needle' = needle + n /\ at' = at + 1
      /\ UNCHANGED <<todo, pc, rc, rest, data>>
  BY DEF NextField
<1>4. ObjectInv' /\ obj'.id = obj.id
  <2>1. CASE o = obj
    BY <1>3, <2>1 DEF IInv, ObjectInv, WellTyped
  <2>2. CASE o # obj
    BY <1>2, <1>3, <2>2, SetKeeps
  <2> QED
    BY <2>1, <2>2
<1>5. ParserInv'
  BY <1>3, <1>4 DEF IInv, ParserInv
<1> QED
  BY <1>1, <1>4, <1>5 DEF IInv

LEMMA BeginRecvInv == IInv /\ BeginRecv => IInv'
<1> SUFFICES ASSUME IInv, BeginRecv PROVE IInv'
  OBVIOUS
<1> DEFINE frames == Available.frames
<1>1. frames \in Seq(String) /\ frames # <<>>
  <2>1. CASE rest = <<>>
    <3>1. queue # <<>> /\ queue \in Seq(Posted)
      BY <2>1 DEF BeginRecv, IInv, SenderInv
    <3>2. Head(queue) \in Posted
      BY <3>1
    <3> QED
      BY <2>1, <3>2 DEF Available, Posted
  <2>2. CASE rest # <<>>
    BY <2>2 DEF Available, IInv, ParserInv
  <2> QED
    BY <2>1, <2>2
<1>2. queue' \in Seq(Posted)
  <2>1. CASE rest = <<>>
    <3>1. queue # <<>> /\ queue \in Seq(Posted) /\ queue' = Tail(queue)
      BY <2>1 DEF BeginRecv, IInv, SenderInv
    <3> QED
      BY <3>1
  <2>2. CASE rest # <<>>
    BY <2>2 DEF BeginRecv, IInv, SenderInv
  <2> QED
    BY <2>1, <2>2
<1>3. SenderInv'
  BY <1>2 DEF BeginRecv, IInv, SenderInv, sender, WellTyped
<1>4. ObjectInv'
  <2>1. obj' = [obj EXCEPT !.routing_id = Head(frames)]
    BY DEF BeginRecv
  <2>2. DOMAIN obj' = DOMAIN obj /\ obj'.id = obj.id /\ obj'.f = obj.f
    BY <2>1 DEF IInv, ObjectInv
  <2> QED
    BY <2>2 DEF IInv, ObjectInv, WellTyped
<1>5. at' = 1 /\ todo' = 0 /\ needle' = 0
  BY DEF BeginRecv
<1>6. rest' \in Seq(String) /\ data' \in String /\ pc' \in {"idle", "header"}
      /\ rc' \in {0, -1, -2}
  <2>1. CASE Len(frames) = 1
    <3>1. rest' = <<>> /\ data' = data /\ pc' = "idle" /\ rc' = -1
      BY <2>1 DEF BeginRecv, Return
    <3> QED
      BY <3>1 DEF IInv, ParserInv
  <2>2. CASE Len(frames) # 1
    <3>1. Len(frames) > 1
      BY <2>2 DEF BeginRecv
    <3>2. data' = frames[2] /\ rest' = SubSeq(frames, 3, Len(frames))
          /\ pc' = "header" /\ rc' = rc
      BY <2>2 DEF BeginRecv
    <3> HIDE DEF frames
    <3>3. frames[2] \in String /\ SubSeq(frames, 3, Len(frames)) \in Seq(String)
      BY <1>1, <3>1
    <3> QED
      BY <3>2, <3>3 DEF IInv, ParserInv
  <2> QED
    BY <2>1, <2>2
<1>7. ParserInv'
  <2>1. Len(data') \in Nat
    BY <1>6 DEF String
  <2> QED
    BY <1>5, <1>6, <2>1 DEF ParserInv
<1> QED
  BY <1>3, <1>4, <1>7 DEF IInv

LEMMA ReadHeaderInv == IInv /\ ReadHeader => IInv'
<1> SUFFICES ASSUME IInv, ReadHeader PROVE IInv'
  OBVIOUS
<1>1. UNCHANGED <<sender, queue, replied, data, current>> /\ pc = "header"
  BY DEF ReadHeader
<1>2. CASE GetFailed \/ Malformed
  BY <1>1, <1>2, FailureInv
<1>3. CASE /\ Has(2) /\ obj' = [obj EXCEPT !.id = Cell(2)]
           /\ UNCHANGED <<at, todo, rest>>
           /\ \/ Return(-2) /\ needle' = needle
              \/ needle' = 2 /\ pc' = "fields" /\ rc' = rc /\ Cell(2) \in Ids
  <2>1. SenderInv'
    BY <1>1, SenderStays DEF IInv
  <2>2. data \in String /\ needle \in Nat /\ todo = 0
    BY <1>1 DEF IInv, ParserInv
  <2>3. Cell(2) \in Nat
    BY <2>2, CellIsNumber
  <2>4. DOMAIN obj' = DOMAIN obj /\ obj'.id = Cell(2) /\ obj'.f = obj.f
    BY <1>3 DEF IInv, ObjectInv
  <2>5. ObjectInv'
    BY <2>3, <2>4 DEF IInv, ObjectInv, WellTyped
  <2>6. needle' \in Nat /\ needle' <= Len(data')
    <3>1. Len(data) \in Nat
      BY <2>2 DEF String
    <3> QED
      BY <1>1, <1>3, <2>2, <3>1 DEF Has, IInv, ParserInv
  <2>7. ParserInv'
    BY <1>1, <1>3, <2>2, <2>4, <2>6 DEF IInv, ParserInv, Return
  <2> QED
    BY <2>1, <2>5, <2>7 DEF IInv
<1> QED
  BY <1>2, <1>3 DEF ReadHeader

LEMMA InFieldMeans ==
    ASSUME IInv, NEW types, InField(types)
    PROVE  /\ UNCHANGED <<sender, queue, replied, data, current>>
           /\ pc = "fields" /\ todo = 0 /\ obj.id \in Ids
           /\ at \in DOMAIN Fields[obj.id] /\ Field.type \in types
           /\ needle \in Nat /\ data \in String
BY DEF InField, IInv, ParserInv

LEMMA ReadNumberInv == IInv /\ ReadNumber => IInv'
<1> SUFFICES ASSUME IInv, ReadNumber PROVE IInv'
  OBVIOUS
<1>1. /\ UNCHANGED <<sender, queue, replied, data, current>>
      /\ pc = "fields" /\ todo = 0 /\ at \in DOMAIN Fields[obj.id]
      /\ needle \in Nat /\ data \in String
  BY InFieldMeans DEF ReadNumber
<1>2. CASE GetFailed \/ Malformed
  BY <1>1, <1>2, FailureInv
<1>3. CASE Has(1) /\ NextField(obj, 1)
  BY <1>1, <1>3, NextFieldInv DEF Has
<1>4. CASE Has(1) /\ Field.type = "number" /\ NextField(Set(Cell(1)), 1)
  <2>1. Cell(1) \in Value(Field)
    BY <1>1, <1>4, CellIsNumber DEF Value, Fixed
  <2> QED
    BY <1>1, <1>4, <2>1, NextFieldInv DEF Has
<1> QED
  BY <1>2, <1>3, <1>4 DEF ReadNumber

LEMMA ReadFixedInv == IInv /\ ReadFixed => IInv'
<1> SUFFICES ASSUME IInv, ReadFixed PROVE IInv'
  OBVIOUS
<1>1. /\ UNCHANGED <<sender, queue, replied, data, current>>
      /\ pc = "fields" /\ todo = 0 /\ obj.id \in Ids
      /\ at \in DOMAIN Fields[obj.id] /\ Field.type \in Fixed
      /\ needle \in Nat /\ data \in String
  BY InFieldMeans DEF ReadFixed
<1>2. CASE GetFailed \/ Malformed
  BY <1>1, <1>2, FailureInv
<1>3. CASE Has(Field.arg) /\ NextField(Set(Cells(1, Field.arg)), Field.arg)
  <2> DEFINE n == Field.arg
  <2>1. n \in Nat
    BY <1>1, FieldIs
  <2>2. n - 1 + 1 = n
    BY <2>1
  <2>3. Cells(1, n) \in [1..n -> Nat]
    BY <1>1, <2>1, <2>2, CellsAreString
  <2>4. Cells(1, n) \in Value(Field)
    BY <1>1, <2>3 DEF Value, Fixed
  <2>5. needle + n <= Len(data)
    BY <1>3 DEF Has
  <2> HIDE DEF n
  <2> QED
    BY <1>1, <1>3, <2>1, <2>4, <2>5, NextFieldInv DEF n
<1> QED
  BY <1>2, <1>3 DEF ReadFixed

LEMMA ReadTextInv == IInv /\ ReadText => IInv'
<1> SUFFICES ASSUME IInv, ReadText PROVE IInv'
  OBVIOUS
<1>1. /\ UNCHANGED <<sender, queue, replied, data, current>>
      /\ pc = "fields" /\ todo = 0 /\ obj.id \in Ids
      /\ at \in DOMAIN Fields[obj.id] /\ Field.type \in Texts
      /\ needle \in Nat /\ data \in String
  BY InFieldMeans DEF ReadText
<1>2. CASE GetFailed \/ Malformed
  BY <1>1, <1>2, FailureInv
<1>3. CASE HasText(0) /\ NextField(Set(Text(0)), After(0))
  <2>1. Text(0) \in String /\ After(0) \in Nat /\ needle + After(0) <= Len(data)
    BY <1>1, <1>3, TextIsString
  <2>2. Text(0) \in Value(Field)
    BY <1>1, <2>1 DEF Value, Fixed, Texts
  <2> QED
    BY <1>1, <1>3, <2>1, <2>2, NextFieldInv
<1> QED
  BY <1>2, <1>3 DEF ReadText

\* The values of a list while it is read.
LEMMA BeginListInv == IInv /\ BeginList => IInv'
<1> SUFFICES ASSUME IInv, BeginList PROVE IInv'
  OBVIOUS
<1>1. /\ UNCHANGED <<sender, queue, replied, data, current>>
      /\ pc = "fields" /\ todo = 0 /\ obj.id \in Ids
      /\ at \in DOMAIN Fields[obj.id] /\ Field.type \in Lists
      /\ needle \in Nat /\ data \in String
  BY InFieldMeans DEF BeginList
<1>2. CASE GetFailed
  BY <1>1, <1>2, FailureInv
<1>3. CASE /\ Has(1) /\ obj' = Emptied /\ Items(Cell(1))
           /\ needle' = needle + 1 /\ UNCHANGED <<pc, rc, rest>>
  <2>1. SenderInv'
    BY <1>1, SenderStays DEF IInv
  <2>2. <<>> \in Value(Field) /\ <<>> \in ListOf(Field)
    BY <1>1, ListValue
  <2>3. ObjectInv' /\ obj'.id = obj.id /\ obj'.f[Field.name] = <<>>
    BY <1>1, <1>3, <2>2, SetKeeps DEF Emptied
  <2>4. todo' \in Nat /\ at' \in Nat \ {0} /\ (todo' > 0 => at' = at)
    BY <1>1, <1>3, CellIsNumber DEF Items, IInv, ParserInv
  <2>5. todo' > 0 => Field' = Field
    BY <2>3, <2>4 DEF Field
  <2>6. needle' \in Nat /\ needle' <= Len(data')
    BY <1>1, <1>3 DEF Has
  <2>7. todo' > 0 => /\ at' \in DOMAIN Fields[obj'.id] /\ Field'.type \in Lists
                     /\ obj'.f[Field'.name] \in ListOf(Field')
    BY <1>1, <2>2, <2>3, <2>4, <2>5
  <2>8. ParserInv'
    BY <1>1, <1>3, <2>3, <2>4, <2>6, <2>7 DEF IInv, ParserInv, ListOf
  <2> QED
    BY <2>1, <2>3, <2>8 DEF IInv
<1> QED
  BY <1>2, <1>3 DEF BeginList

LEMMA ReadItemInv == IInv /\ ReadItem => IInv'
<1> SUFFICES ASSUME IInv, ReadItem PROVE IInv'
  OBVIOUS
<1>1. /\ UNCHANGED <<sender, queue, replied, data, current>>
      /\ pc = "fields" /\ todo > 0
  BY DEF ReadItem
<1>2. /\ obj.id \in Ids /\ todo \in Nat
      /\ at \in DOMAIN Fields[obj.id] /\ Field.type \in Lists
      /\ obj.f[Field.name] \in ListOf(Field)
      /\ needle \in Nat /\ data \in String
  BY <1>1 DEF IInv, ParserInv
<1>3. CASE GetFailed
  BY <1>1, <1>3, FailureInv
\* What the two kinds of items have in common.
<1>4. ASSUME NEW n \in Nat, needle + n <= Len(data), NEW v \in ListOf(Field),
             obj' = Set(v) \/ obj' = obj, obj' = obj => v = obj.f[Field.name],
             needle' = needle + n, Items(todo - 1), UNCHANGED <<pc, rc, rest>>
      PROVE  IInv'
  <2>1. SenderInv'
    BY <1>1, SenderStays DEF IInv
  <2>2. v \in Value(Field)
    BY <1>2, <1>4, ListValue
  <2>3. ObjectInv' /\ obj'.id = obj.id /\ obj'.f[Field.name] = v
    <3>1. CASE obj' = Set(v)
      BY <1>2, <2>2, <3>1, SetKeeps
    <3>2. CASE obj' = obj
      BY <1>4, <3>2 DEF IInv, ObjectInv, WellTyped
    <3> QED
      BY <1>4, <3>1, <3>2
  <2>4. todo' \in Nat /\ at' \in Nat \ {0} /\ (todo' > 0 => at' = at)
    <3>1. at \in Nat \ {0}
      BY DEF IInv, ParserInv
    <3> QED
      BY <1>1, <1>2, <1>4, <3>1 DEF Items
  <2>5. todo' > 0 => Field' = Field
    BY <2>3, <2>4 DEF Field
  <2>6. needle' \in Nat /\ needle' <= Len(data')
    BY <1>1, <1>2, <1>4
  <2>7. todo' > 0 => /\ at' \in DOMAIN Fields[obj'.id] /\ Field'.type \in Lists
                     /\ obj'.f[Field'.name] \in ListOf(Field')
    BY <1>2, <1>4, <2>3, <2>4, <2>5
  <2>8. ParserInv'
    BY <1>1, <1>2, <1>4, <2>3, <2>4, <2>6, <2>7 DEF IInv, ParserInv, ListOf
  <2> QED
    BY <2>1, <2>3, <2>8 DEF IInv
<1>5. CASE /\ HasText(0) /\ Field.type = "strings"
           /\ obj' = Grow(Text(0)) /\ needle' = needle + After(0)
           /\ Items(todo - 1) /\ UNCHANGED <<pc, rc, rest>>
  <2> DEFINE l == obj.f[Field.name]
             v == Append(l, Text(0))
  <2>1. Text(0) \in String /\ After(0) \in Nat /\ needle + After(0) <= Len(data)
    BY <1>2, <1>5, TextIsString
  <2>2. l \in Seq(String) /\ ListOf(Field) = Seq(String)
    BY <1>2, <1>5 DEF ListOf
  <2>3. v \in ListOf(Field) /\ v # l
    <3> HIDE DEF l
    <3> QED
      BY <2>1, <2>2
  <2>4. obj' = Set(v)
    BY <1>5 DEF Grow
  <2>5. obj'.f[Field.name] = v
    <3>1. v \in Value(Field)
      BY <1>2, <2>3, ListValue
    <3> HIDE DEF v
    <3> QED
      BY <1>2, <2>4, <3>1, SetKeeps
  <2>6. obj' # obj
    BY <2>3, <2>5
  <2> HIDE DEF v
  <2> QED
    BY <1>4, <1>5, <2>1, <2>3, <2>4, <2>6
<1>6. CASE /\ HasText(0) /\ Field.type = "hash" /\ HasText(After(0))
           /\ obj' = Inserted(Text(0), Text(After(0)))
           /\ needle' = needle + After(After(0))
           /\ Items(todo - 1) /\ UNCHANGED <<pc, rc, rest>>
  <2> DEFINE l == obj.f[Field.name]
             kv == <<Text(0), Text(After(0))>>
             v == IF obj' = obj THEN l ELSE Append(l, kv)
  <2>1. Text(0) \in String /\ After(0) \in Nat
    BY <1>2, <1>6, TextIsString
  <2>2. /\ Text(After(0)) \in String /\ After(After(0)) \in Nat
        /\ needle + After(After(0)) <= Len(data)
    BY <1>2, <1>6, <2>1, TextIsString
  <2>3. l \in Seq(String \X String) /\ ListOf(Field) = Seq(String \X String)
    BY <1>2, <1>6 DEF ListOf, Pairs
  <2>4. kv \in String \X String
    BY <2>1, <2>2
  <2>5. v \in ListOf(Field)
    <3> HIDE DEF l, kv
    <3> QED
      BY <2>3, <2>4
  <2>6. obj' = obj \/ obj' = Set(Append(l, kv))
    BY <1>6 DEF Inserted, Grow
  <2>7. (obj' = Set(v) \/ obj' = obj) /\ (obj' = obj => v = l)
    BY <2>6
  <2> HIDE DEF v
  <2> QED
    BY <1>4, <1>6, <2>2, <2>5, <2>7
<1> QED
  BY <1>3, <1>5, <1>6 DEF ReadItem

LEMMA ReadFrameInv == IInv /\ ReadFrame => IInv'
<1> SUFFICES ASSUME IInv, ReadFrame PROVE IInv'
  OBVIOUS
<1>1. /\ UNCHANGED <<sender, queue, replied, data, current>>
      /\ pc = "fields" /\ todo = 0 /\ obj.id \in Ids
      /\ at \in DOMAIN Fields[obj.id] /\ Field.type \in {"frame", "msg"}
  BY InFieldMeans DEF ReadFrame
<1>2. CASE Malformed
  BY <1>1, <1>2, FailureInv
<1>3. ASSUME ~ Malformed PROVE IInv'
  <2> DEFINE v == IF Field.type = "msg" THEN rest ELSE Head(rest)
  <2>1. /\ rest # <<>> \/ Field.type = "msg"
        /\ obj' = Set(v)
        /\ rest' = IF Field.type = "msg" THEN <<>> ELSE Tail(rest)
        /\ at' = at + 1
        /\ UNCHANGED <<needle, todo, pc, rc>>
    BY <1>3 DEF ReadFrame
  <2>2. rest \in Seq(String) /\ at \in Nat \ {0}
    BY DEF IInv, ParserInv
  <2>3. v \in Value(Field)
    <3>1. CASE Field.type = "msg"
      BY <2>2, <3>1 DEF Value, Fixed
    <3>2. CASE Field.type # "msg"
      <4>1. Head(rest) \in String
        BY <2>1, <2>2, <3>2
      <4> QED
        BY <1>1, <3>2, <4>1 DEF Value, Fixed
    <3> QED
      BY <3>1, <3>2
  <2>4. ObjectInv' /\ obj'.id = obj.id
    <3> HIDE DEF v
    <3> QED
      BY <1>1, <2>1, <2>3, SetKeeps
  <2>5. rest' \in Seq(String) /\ at' \in Nat \ {0}
    BY <2>1, <2>2
  <2>6. ParserInv'
    BY <1>1, <2>1, <2>4, <2>5 DEF IInv, ParserInv
  <2>7. SenderInv'
    BY <1>1, SenderStays DEF IInv
  <2> QED
    BY <2>4, <2>6, <2>7 DEF IInv
<1> QED
  BY <1>2, <1>3

LEMMA EndRecvInv == IInv /\ EndRecv => IInv'
<1> SUFFICES ASSUME IInv, EndRecv PROVE IInv'
  OBVIOUS
<1>1. SenderInv'
  BY SenderStays DEF IInv, EndRecv
<1>2. ObjectInv' /\ ParserInv'
  BY DEF IInv, EndRecv, Return, ObjectInv, ParserInv, WellTyped
<1> QED
  BY <1>1, <1>2 DEF IInv

LEMMA StepInv == IInv /\ [Next]_vars => IInv'
<1> SUFFICES ASSUME IInv, [Next]_vars PROVE IInv'
  OBVIOUS
<1>1. CASE UNCHANGED vars
  <2>1. SenderInv' /\ ObjectInv' /\ ParserInv'
    BY <1>1, ParserStays, SenderStays DEF IInv, vars, parser
  <2> QED
    BY <2>1 DEF IInv
<1>2. CASE Take \/ Send \/ Encode \/ Reply \/ Stranger
  BY <1>2, TakeInv, SendInv, EncodeInv, ReplyInv, StrangerInv
<1>3. CASE Recv
  BY <1>3, BeginRecvInv, ReadHeaderInv, ReadNumberInv, ReadFixedInv, ReadTextInv,
     BeginListInv, ReadItemInv, ReadFrameInv, EndRecvInv DEF Recv
<1> QED
  BY <1>1, <1>2, <1>3 DEF Next

LEMMA Invariance == Spec => []IInv
BY InitInv, StepInv, PTL DEF Spec

-------------------------------------------------------------------------------
\* Every object holds values of its fields' types and the parser is always at a
\* field of the message, whatever others send and whatever has been received
\* before: zproto_example_recv, zproto_example_send.
THEOREM CodecTypeCorrect == Spec => []TypeOK
BY Invariance, IInvMeans, PTL

\* Nothing is read past the end of the frame, for every protocol and every message
\* that others send: the checks of the GET_ macros suffice for what they read.
THEOREM NothingReadPastTheEnd == Spec => []StaysInFrame
BY Invariance, IInvMeans, PTL

\* The size that send and encode count for the frame is never less than what they
\* write into it, for every protocol and every object: the count, made separately
\* from the writing, goes through the same fields with lengths at least as large.
THEOREM NothingWrittenPastTheEnd == Spec => []FitsFrame
BY Invariance, IInvMeans, PTL

-------------------------------------------------------------------------------
\* What is invariant about a message that was sent: it is on the wire as it was
\* written, and while it is read, the parts that have not been read are where the
\* parser looks for them, and those that have been are in the object.

\* A message on the wire is what send makes of the object.
WasSent(m) ==
    m.object # Null =>
        /\ SendableObject(m.object)
        /\ Len(m.frames) > 1
        /\ \E size \in Nat : m.frames[2] = Padded(FirstFrame(m.object), size)
        /\ SubSeq(m.frames, 3, Len(m.frames)) = OverFields(Frames, m.object)

Received(o, i) ==
    LET d == Fields[o.id][i]
    IN d.type = "value" \/ obj.f[d.name] = Seen(d, o.f[d.name])

DataHolds(o) ==
    /\ Part(data, 0, <<Signature, o.id>>)
    /\ \A i \in DOMAIN Fields[o.id] :
            Part(data, 2 + Start(Writes(o), i - 1), Writes(o)[i])

RestHolds(o) ==
    /\ Len(rest) = Len(OverFields(Frames, o)) - Start(Follows(o), at - 1)
    /\ \A k \in 1..Len(rest) :
            rest[k] = OverFields(Frames, o)[Start(Follows(o), at - 1) + k]

\* Between two fields: those before have been received.
AtField(o) ==
    /\ at \in 1..(Len(Fields[o.id]) + 1)
    /\ needle = 2 + Start(Writes(o), at - 1)
    /\ \A i \in 1..(at - 1) : Received(o, i)

\* In a list: todo items are still to be read.
InList(o) ==
    /\ at \in DOMAIN Fields[o.id]
    /\ LET d == Fields[o.id][at]
           v == o.f[d.name]
           n == Len(v) - todo
       IN /\ d.type \in Lists /\ v # Null
          /\ n \in 0..Len(v)
          /\ needle = 3 + Start(Writes(o), at - 1) + Start(ItemsOf(d, v), n)
          /\ obj.f[d.name] = SubSeq(v, 1, n)
          /\ \A i \in 1..(at - 1) : Fields[o.id][i].name # d.name => Received(o, i)

Reading(o) ==
    /\ obj.routing_id = Head(current.frames)
    /\ pc # "idle" => DataHolds(o) /\ RestHolds(o)
    /\ pc = "header" => needle = 0 /\ at = 1
    /\ pc # "header" => obj.id = o.id
    /\ pc = "fields" => IF todo = 0 THEN AtField(o) ELSE InList(o)
    /\ pc = "idle" => rest = <<>> /\ \A i \in DOMAIN Fields[o.id] : Received(o, i)

EchoInv ==
    /\ \A i \in 1..Len(queue) : WasSent(queue[i])
    /\ \A n \in Names : Sendable(FieldOf(n), out.f[n])
    /\ WasSent(current)
    /\ \A o : o = current.object /\ o # Null => Reading(o)
    /\ EchoIsFaithful

\* Set and the fields that it does not set.
LEMMA SetOnly ==
    ASSUME IInv, obj.id \in Ids, at \in DOMAIN Fields[obj.id],
           NEW v \in Value(Field), obj' = Set(v)
    PROVE  /\ obj'.id = obj.id /\ obj'.routing_id = obj.routing_id
           /\ obj'.f[Field.name] = v
           /\ \A n \in Names : n # Field.name => obj'.f[n] = obj.f[n]
<1>1. obj'.id = obj.id /\ obj'.f[Field.name] = v
  BY SetKeeps
<1> DEFINE x == Field.name
<1>2. obj' = [obj EXCEPT !.f[x] = v] /\ DOMAIN obj = {"id", "f", "routing_id"}
  BY DEF Set, IInv, ObjectInv
<1>3. obj'.f = [obj.f EXCEPT ![x] = v] /\ obj'.routing_id = obj.routing_id
  <2> HIDE DEF x
  <2> QED
    BY <1>2
<1>4. \A n \in Names : n # x => obj'.f[n] = obj.f[n]
  <2> HIDE DEF x
  <2> QED
    BY <1>3 DEF IInv, ObjectInv
<1> QED
  BY <1>1, <1>3, <1>4

\* After the field at which the parser is, all up to it have been received.
LEMMA FieldReceived ==
    ASSUME NEW o, SendableObject(o), at \in DOMAIN Fields[o.id],
           NEW d, d = Fields[o.id][at],
           d.type # "value" => obj'.f[d.name] = Seen(d, o.f[d.name]),
           \A n \in Names : n # d.name => obj'.f[n] = obj.f[n],
           \A i \in 1..(at - 1) : Fields[o.id][i].name # d.name => Received(o, i)
    PROVE  \A i \in 1..at : Received(o, i)'
<1> SUFFICES ASSUME NEW i \in 1..at PROVE Received(o, i)'
  OBVIOUS
<1> DEFINE e == Fields[o.id][i]
<1>1. o.id \in Ids /\ DOMAIN Fields[o.id] = 1..Len(Fields[o.id]) /\ Len(Fields[o.id]) \in Nat
  BY WritesFacts
<1>2. i \in DOMAIN Fields[o.id] /\ at \in Nat
  BY <1>1, SMTT(30)
<1>3. CASE e.name = d.name
  <2>1. e.type = d.type /\ Seen(e, o.f[d.name]) = Seen(d, o.f[d.name])
    BY <1>1, <1>2, <1>3, SameName, Zenon
  <2> QED
    BY <1>3, <2>1 DEF Received
<1>4. CASE e.name # d.name
  <2>1. i \in 1..(at - 1)
    BY <1>2, <1>4
  <2>2. Received(o, i) /\ e.name \in Names
    BY <1>2, <1>4, <2>1, FieldOfObject
  <2> QED
    BY <1>4, <2>2, SMTT(30) DEF Received
<1> QED
  BY <1>3, <1>4

\* What the parser sees at the start of a field.
LEMMA FieldIsThere ==
    ASSUME IInv, NEW o, SendableObject(o), Reading(o), pc = "fields", todo = 0,
           at \in DOMAIN Fields[obj.id], NEW d, NEW v,
           d = Fields[o.id][at], v = o.f[d.name]
    PROVE  /\ o.id \in Ids /\ obj.id = o.id /\ at \in DOMAIN Fields[o.id] /\ Field = d
           /\ Known(d) /\ d.name \in Names /\ v \in Value(d) /\ Sendable(d, v)
           /\ data \in String /\ needle \in Nat
           /\ Put(d, v) \in String /\ Part(data, needle, Put(d, v))
           /\ needle = 2 + Start(Writes(o), at - 1)
           /\ DataHolds(o) /\ RestHolds(o)
           /\ \A i \in 1..(at - 1) : Received(o, i)
           /\ obj.routing_id = Head(current.frames)
<1>1. /\ obj.id = o.id /\ DataHolds(o) /\ RestHolds(o) /\ AtField(o)
      /\ obj.routing_id = Head(current.frames)
  BY DEF Reading
<1>2. /\ Known(d) /\ d.name \in Names /\ v \in Value(d) /\ Sendable(d, v)
      /\ Writes(o)[at] = Put(d, v) /\ Put(d, v) \in String
  BY <1>1, FieldOfObject
<1>3. Part(data, needle, Put(d, v))
  BY <1>1, <1>2 DEF DataHolds, AtField
<1>4. data \in String /\ needle \in Nat
  BY DEF IInv, ParserInv
<1> QED
  BY <1>1, <1>2, <1>3, <1>4, WritesFacts, Zenon DEF AtField, Field

\* A field that is in the first frame takes none of the frames that follow.
LEMMA RestStays ==
    ASSUME NEW o, SendableObject(o), at \in DOMAIN Fields[o.id], RestHolds(o),
           NEW d, d = Fields[o.id][at], d.type \notin {"frame", "msg"},
           rest' = rest, at' = at + 1
    PROVE  RestHolds(o)'
<1>1. /\ Follows(o) \in Seq(Seq(String)) /\ Len(Follows(o)) \in Nat
      /\ at \in 1..Len(Follows(o))
  BY WritesFacts
<1>2. Follows(o)[at] = <<>>
  BY FieldOfObject, ZenonT(30) DEF Frames
<1>3. /\ Start(Follows(o), at) = Start(Follows(o), at - 1) + Len(Follows(o)[at])
      /\ Start(Follows(o), at - 1) \in Nat
  <2>1. at - 1 \in 0..Len(Follows(o))
    BY <1>1
  <2> QED
    BY <1>1, <2>1, StartFacts
<1>4. at' - 1 = at /\ Start(Follows(o), at) = Start(Follows(o), at - 1)
  BY <1>1, <1>2, <1>3, SMTT(30)
<1> QED
  BY <1>4 DEF RestHolds

\* The parser goes on to the next field.
LEMMA FieldRead ==
    ASSUME IInv, NEW o, SendableObject(o), NEW d, NEW v,
           at \in DOMAIN Fields[o.id], d = Fields[o.id][at], v = o.f[d.name],
           pc = "fields", obj.id = o.id, DataHolds(o), RestHolds(o)',
           obj.routing_id = Head(current.frames),
           \A i \in 1..(at - 1) : Fields[o.id][i].name # d.name => Received(o, i),
           needle' = 2 + Start(Writes(o), at - 1) + Len(Put(d, v)),
           at' = at + 1, todo' = 0, UNCHANGED <<pc, data, current>>,
           \/ Seen(d, v) \in Value(d) /\ obj' = Set(Seen(d, v))
           \/ d.type = "value" /\ obj' = obj
    PROVE  Reading(o)'
<1>1. /\ o.id \in Ids /\ Len(Fields[o.id]) \in Nat
      /\ DOMAIN Fields[o.id] = 1..Len(Fields[o.id])
      /\ Writes(o) \in Seq(Seq(Nat)) /\ Len(Writes(o)) = Len(Fields[o.id])
  BY WritesFacts, SMTT(30) DEF String
<1>2. Field = d /\ Writes(o)[at] = Put(d, v)
  BY FieldOfObject DEF Field
<1>3. /\ obj'.id = obj.id /\ obj'.routing_id = obj.routing_id
      /\ d.type # "value" => obj'.f[d.name] = Seen(d, v)
      /\ \A n \in Names : n # d.name => obj'.f[n] = obj.f[n]
  <2>1. CASE Seen(d, v) \in Value(d) /\ obj' = Set(Seen(d, v))
    BY <1>1, <1>2, <2>1, SetOnly, Zenon
  <2>2. CASE d.type = "value" /\ obj' = obj
    BY <2>2, SMTT(30)
  <2> QED
    BY <2>1, <2>2, Zenon
<1>4. \A i \in 1..at : Received(o, i)'
  BY <1>3, FieldReceived, SMTT(30)
<1>5. at \in 1..Len(Writes(o)) /\ at \in Nat
  BY <1>1, SMTT(30)
<1>6. Start(Writes(o), at) = Start(Writes(o), at - 1) + Len(Put(d, v))
  BY <1>1, <1>2, <1>5, StartFacts, SMTT(30)
<1>7. Start(Writes(o), at - 1) \in Nat /\ Len(Put(d, v)) \in Nat
  <2>1. at - 1 \in 0..Len(Writes(o))
    BY <1>1, <1>5, SMTT(30)
  <2>2. Put(d, v) \in Seq(Nat)
    BY <1>1, <1>2, <1>5, SMTT(30)
  <2> QED
    BY <1>1, <2>1, <2>2, StartFacts, SMTT(30)
<1>8. AtField(o)'
  <2>1. at' - 1 = at /\ at' \in 1..(Len(Fields[o.id]) + 1)
    BY <1>1, <1>5, SMTT(30)
  <2>2. needle' = 2 + Start(Writes(o), at' - 1)
    <3>1. PICK p, q, l : /\ p = Start(Writes(o), at - 1) /\ q = Start(Writes(o), at)
                         /\ l = Len(Put(d, v))
      OBVIOUS
    <3>2. q = p + l /\ p \in Nat /\ l \in Nat /\ needle' = 2 + p + l
      BY <1>6, <1>7, <3>1, ZenonT(30)
    <3>3. needle' = 2 + q
      BY <3>2, SMTT(30)
    <3> QED
      BY <2>1, <3>1, <3>3, SMTT(30)
  <2> QED
    BY <1>4, <2>1, <2>2, SMTT(30) DEF AtField
<1>9. DataHolds(o)'
  BY DEF DataHolds
<1> QED
  BY <1>3, <1>8, <1>9 DEF Reading

-------------------------------------------------------------------------------
\* The steps of the parser on a message that was sent: none fails.

LEMMA HeaderEcho ==
    ASSUME IInv, NEW o, SendableObject(o), Reading(o), ReadHeader
    PROVE  Reading(o)' /\ pc' # "idle"
<1>1. /\ pc = "header" /\ needle = 0 /\ at = 1 /\ todo = 0
      /\ DataHolds(o) /\ RestHolds(o) /\ obj.routing_id = Head(current.frames)
      /\ data \in String
  BY DEF ReadHeader, Reading, IInv, ParserInv
<1>2. 2 <= Len(data) /\ data[1] = Signature /\ data[2] = o.id
  <2>1. Part(data, 0, <<Signature, o.id>>)
    BY <1>1 DEF DataHolds
  <2> QED
    BY <2>1 DEF Part
<1>3. 1 \in DOMAIN data /\ 2 \in DOMAIN data /\ Len(data) \in Nat
  BY <1>1, <1>2 DEF String
<1>4. Has(1) /\ Has(2) /\ Cell(1) = Signature /\ Cell(2) = o.id
  BY <1>1, <1>2, <1>3 DEF Has, Cell
<1>5. o.id \in Ids /\ Writes(o) \in Seq(Seq(Nat)) /\ Len(Fields[o.id]) \in Nat
  BY WritesFacts DEF String
<1>6. /\ obj' = [obj EXCEPT !.id = o.id] /\ needle' = 2 /\ pc' = "fields"
      /\ UNCHANGED <<data, current, at, todo, rest>>
  BY <1>4, <1>5 DEF ReadHeader, GetFailed, Malformed
<1>7. obj'.id = o.id /\ obj'.routing_id = obj.routing_id
  BY <1>6 DEF IInv, ObjectInv
<1>8. DataHolds(o)' /\ RestHolds(o)'
  BY <1>1, <1>6 DEF DataHolds, RestHolds
<1>9. AtField(o)'
  <2>1. Start(Writes(o), 0) = 0
    BY <1>5, StartFacts
  <2> QED
    BY <1>1, <1>5, <1>6, <2>1 DEF AtField
<1> QED
  BY <1>1, <1>6, <1>7, <1>8, <1>9 DEF Reading

LEMMA NumberEcho ==
    ASSUME IInv, NEW o, SendableObject(o), Reading(o), ReadNumber
    PROVE  Reading(o)' /\ pc' # "idle"
<1>1. /\ pc = "fields" /\ todo = 0 /\ at \in DOMAIN Fields[obj.id]
      /\ Field.type \in {"number", "value"} /\ UNCHANGED <<data, current>>
  BY InFieldMeans DEF ReadNumber
<1>2. PICK d, v : d = Fields[o.id][at] /\ v = o.f[d.name]
  OBVIOUS
<1>3. /\ o.id \in Ids /\ obj.id = o.id /\ at \in DOMAIN Fields[o.id] /\ Field = d
      /\ Known(d) /\ v \in Value(d) /\ data \in String /\ needle \in Nat
      /\ Part(data, needle, Put(d, v))
      /\ needle = 2 + Start(Writes(o), at - 1)
      /\ DataHolds(o) /\ RestHolds(o)
      /\ \A i \in 1..(at - 1) : Received(o, i)
      /\ obj.routing_id = Head(current.frames)
  BY <1>1, <1>2, FieldIsThere
<1>4. Put(d, v) = IF d.type = "number" THEN <<v>> ELSE <<d.arg>>
  BY <1>1, <1>3 DEF Put, Fixed
<1>5. Has(1) /\ Cell(1) = IF d.type = "number" THEN v ELSE d.arg
  BY <1>3, <1>4, NumberAt
<1>6. /\ needle' = needle + 1 /\ at' = at + 1 /\ UNCHANGED <<todo, pc, rc, rest>>
      /\ obj' = IF d.type = "number" THEN Set(v) ELSE obj
  BY <1>1, <1>3, <1>5 DEF ReadNumber, GetFailed, Malformed, NextField
<1>7. d.type = "number" => Seen(d, v) = v /\ v \in Nat
  BY <1>3, CodecConstants, SMTT(30) DEF Value, Seen, Fixed
<1>8. RestHolds(o)'
  BY <1>1, <1>2, <1>3, <1>6, RestStays
<1>9. Len(Put(d, v)) = 1
  BY <1>4
<1>10. \/ Seen(d, v) \in Value(d) /\ obj' = Set(Seen(d, v))
       \/ d.type = "value" /\ obj' = obj
  BY <1>1, <1>3, <1>6, <1>7
<1>11. Reading(o)'
  BY <1>1, <1>2, <1>3, <1>6, <1>8, <1>9, <1>10, FieldRead, Zenon
<1> QED
  BY <1>1, <1>6, <1>11

LEMMA FixedEcho ==
    ASSUME IInv, NEW o, SendableObject(o), Reading(o), ReadFixed
    PROVE  Reading(o)' /\ pc' # "idle"
<1>1. /\ pc = "fields" /\ todo = 0 /\ at \in DOMAIN Fields[obj.id]
      /\ Field.type \in Fixed /\ UNCHANGED <<data, current>>
  BY InFieldMeans DEF ReadFixed
<1>2. PICK d, v : d = Fields[o.id][at] /\ v = o.f[d.name]
  OBVIOUS
<1>3. /\ o.id \in Ids /\ obj.id = o.id /\ at \in DOMAIN Fields[o.id] /\ Field = d
      /\ Known(d) /\ v \in Value(d) /\ data \in String /\ needle \in Nat
      /\ Part(data, needle, Put(d, v))
      /\ needle = 2 + Start(Writes(o), at - 1)
      /\ DataHolds(o) /\ RestHolds(o)
      /\ \A i \in 1..(at - 1) : Received(o, i)
      /\ obj.routing_id = Head(current.frames)
  BY <1>1, <1>2, FieldIsThere
<1>4. Put(d, v) = Seen(d, v) /\ Seen(d, v) \in [1..d.arg -> Nat] /\ d.arg \in Nat
  <2>1. v \in [1..d.arg -> Nat] \cup {Null} /\ d.arg \in Nat
    BY <1>1, <1>3 DEF Value, Known, Fixed
  <2>2. Put(d, v) = IF v = Null THEN [i \in 1..d.arg |-> 0] ELSE v
    BY <1>1, <1>3 DEF Put, Fixed
  <2>3. Seen(d, v) = IF v = Null THEN [i \in 1..d.arg |-> 0] ELSE v
    BY <1>1, <1>3 DEF Seen, Fixed
  <2> QED
    BY <2>1, <2>2, <2>3
<1>5. Seen(d, v) \in Value(d)
  BY <1>1, <1>3, <1>4 DEF Value, Fixed
<1> DEFINE s == Put(d, v)
<1>6. s \in String /\ Len(s) = d.arg
  <2>1. \A w \in [1..d.arg -> Nat] : w \in Seq(Nat) /\ Len(w) = d.arg
    BY <1>4
  <2> QED
    BY <1>4, <2>1 DEF String
<1>7. Has(d.arg) /\ Cells(1, d.arg) = s
  <2>1. Part(data, needle + 0, s)
    BY <1>3
  <2> HIDE DEF s
  <2>2. Has(0 + Len(s)) /\ Cells(0 + 1, 0 + Len(s)) = s
    BY <1>3, <1>6, <2>1, CellsAt
  <2> QED
    BY <1>4, <1>6, <2>2
<1>8. /\ needle' = needle + d.arg /\ at' = at + 1 /\ UNCHANGED <<todo, pc, rc, rest>>
      /\ obj' = Set(s)
  BY <1>3, <1>7, SMTT(30) DEF ReadFixed, GetFailed, Malformed, NextField
<1>9. RestHolds(o)'
  BY <1>1, <1>2, <1>3, <1>8, RestStays DEF Fixed
<1> HIDE DEF s
<1>10. needle' = 2 + Start(Writes(o), at - 1) + Len(Put(d, v))
  BY <1>3, <1>6, <1>8 DEF s
<1>11. Seen(d, v) \in Value(d) /\ obj' = Set(Seen(d, v))
  BY <1>4, <1>5, <1>8 DEF s
<1>12. Reading(o)'
  BY <1>1, <1>2, <1>3, <1>8, <1>9, <1>10, <1>11, FieldRead, Zenon
<1> QED
  BY <1>1, <1>8, <1>12

LEMMA TextEcho ==
    ASSUME IInv, NEW o, SendableObject(o), Reading(o), ReadText
    PROVE  Reading(o)' /\ pc' # "idle"
<1>1. /\ pc = "fields" /\ todo = 0 /\ at \in DOMAIN Fields[obj.id]
      /\ Field.type \in Texts /\ UNCHANGED <<data, current>>
  BY InFieldMeans DEF ReadText
<1>2. PICK d, v : d = Fields[o.id][at] /\ v = o.f[d.name]
  OBVIOUS
<1>3. /\ o.id \in Ids /\ obj.id = o.id /\ at \in DOMAIN Fields[o.id] /\ Field = d
      /\ Known(d) /\ v \in Value(d) /\ Sendable(d, v)
      /\ data \in String /\ needle \in Nat
      /\ Part(data, needle, Put(d, v))
      /\ needle = 2 + Start(Writes(o), at - 1)
      /\ DataHolds(o) /\ RestHolds(o)
      /\ \A i \in 1..(at - 1) : Received(o, i)
      /\ obj.routing_id = Head(current.frames)
  BY <1>1, <1>2, FieldIsThere
<1>4. /\ Put(d, v) = PutLong(Seen(d, v)) /\ Seen(d, v) \in String
      /\ Seen(d, v) \in Value(d)
  <2>1. CASE d.type = "string"
    <3>1. v \in String /\ v # Null /\ Len(v) < Byte /\ String = Value(d)
      BY <1>3, <2>1, CodecConstants DEF Value, Fixed, Sendable
    <3>2. Put(d, v) = PutString(v) /\ Seen(d, v) = v
      BY <2>1, <3>1 DEF Put, Seen, Fixed
    <3> QED
      BY <3>1, <3>2, ShortPut
  <2>2. CASE d.type \in {"longstr", "chunk"} /\ v # Null
    <3>1. v \in String
      BY <1>3, <2>2 DEF Value, Fixed
    <3>2. Put(d, v) = PutLong(v) /\ Seen(d, v) = v
      BY <2>2 DEF Put, Seen, Fixed
    <3> QED
      BY <1>3, <3>1, <3>2
  <2>3. CASE d.type \in {"longstr", "chunk"} /\ v = Null
    <3>1. Put(d, v) = <<0>> /\ Seen(d, v) = <<>>
      BY <2>3 DEF Put, Seen, Fixed
    <3>2. <<>> \in String /\ <<>> \in Value(d)
      BY <2>3 DEF Value, Fixed, String
    <3>3. PutLong(<<>>) = <<0>>
      BY DEF PutLong
    <3> QED
      BY <3>1, <3>2, <3>3
  <2> QED
    BY <1>1, <1>3, <2>1, <2>2, <2>3 DEF Texts
<1> DEFINE s == Seen(d, v)
<1>5. HasText(0) /\ Text(0) = s /\ After(0) = Len(PutLong(s))
  <2>1. Part(data, needle + 0, PutLong(s))
    BY <1>3, <1>4
  <2> HIDE DEF s
  <2>2. s \in String
    BY <1>4 DEF s
  <2>3. Len(PutLong(s)) \in Nat
    BY <2>2, PutText DEF String
  <2>4. After(0) = 0 + Len(PutLong(s))
    BY <1>3, <2>1, <2>2, TextAt
  <2> QED
    BY <1>3, <2>1, <2>2, <2>3, <2>4, TextAt
<1>6. /\ needle' = needle + Len(Put(d, v)) /\ at' = at + 1
      /\ UNCHANGED <<todo, pc, rc, rest>>
      /\ obj' = Set(s)
  BY <1>4, <1>5 DEF ReadText, GetFailed, Malformed, NextField
<1>7. RestHolds(o)'
  BY <1>1, <1>2, <1>3, <1>6, RestStays, Zenon DEF Texts
<1>8. Reading(o)'
  BY <1>1, <1>2, <1>3, <1>4, <1>6, <1>7, FieldRead, Zenon
<1> QED
  BY <1>1, <1>6, <1>8

LEMMA FirstItems ==
    ASSUME NEW T, NEW v \in Seq(T)
    PROVE  /\ SubSeq(v, 1, 0) = <<>> /\ SubSeq(v, 1, Len(v)) = v
           /\ \A n \in 0..Len(v) :
                /\ SubSeq(v, 1, n) \in Seq(T) /\ Len(SubSeq(v, 1, n)) = n
                /\ \A i \in 1..n : SubSeq(v, 1, n)[i] = v[i]
           /\ \A n \in 0..Len(v) : n # Len(v) =>
                Append(SubSeq(v, 1, n), v[n + 1]) = SubSeq(v, 1, n + 1)
<1>1. Len(v) \in Nat
  OBVIOUS
<1>2. SubSeq(v, 1, 0) = <<>> /\ SubSeq(v, 1, Len(v)) = v
  BY <1>1
<1>3. ASSUME NEW n \in 0..Len(v)
      PROVE  /\ SubSeq(v, 1, n) \in Seq(T) /\ Len(SubSeq(v, 1, n)) = n
             /\ \A i \in 1..n : SubSeq(v, 1, n)[i] = v[i]
  BY <1>1
<1>4. ASSUME NEW n \in 0..Len(v), n # Len(v)
      PROVE  Append(SubSeq(v, 1, n), v[n + 1]) = SubSeq(v, 1, n + 1)
  <2>1. n + 1 \in 0..Len(v) /\ n \in Nat
    BY <1>1, <1>4
  <2> DEFINE a == SubSeq(v, 1, n)
             b == SubSeq(v, 1, n + 1)
             x == v[n + 1]
  <2>2. /\ a \in Seq(T) /\ Len(a) = n /\ \A i \in 1..n : a[i] = v[i]
        /\ b \in Seq(T) /\ Len(b) = n + 1 /\ \A i \in 1..(n + 1) : b[i] = v[i]
    BY <1>3, <2>1
  <2>3. x \in T
    BY <1>1, <1>4
  <2> HIDE DEF a, b
  <2>4. Append(a, x) \in Seq(T) /\ Len(Append(a, x)) = n + 1
    BY <2>2, <2>3
  <2>5. \A i \in 1..(n + 1) : Append(a, x)[i] = b[i]
    BY <2>1, <2>2, <2>3
  <2>6. Append(a, x) = b
    BY <2>2, <2>4, <2>5
  <2> QED
    BY <2>6 DEF a, b
<1> QED
  BY <1>2, <1>3, <1>4, Zenon

\* The first n items of a list and the cells that they take.
LEMMA ItemsFacts ==
    ASSUME NEW d, d.type \in Lists, NEW v \in Value(d), Sendable(d, v), v # Null
    PROVE  /\ Len(v) \in Nat /\ SubSeq(v, 1, 0) = <<>> /\ SubSeq(v, 1, Len(v)) = v
           /\ Start(ItemsOf(d, v), 0) = 0
           /\ Len(Put(d, v)) = 1 + Start(ItemsOf(d, v), Len(v))
           /\ \A n \in 0..Len(v) : /\ SubSeq(v, 1, n) \in Value(d)
                                   /\ Start(ItemsOf(d, v), n) \in Nat
<1>1. /\ v \in ListOf(d) /\ Len(v) \in Nat
      /\ ItemsOf(d, v) \in Seq(Seq(Nat)) /\ Len(ItemsOf(d, v)) = Len(v)
      /\ Put(d, v) = <<Len(v)>> \o FlattenSeq(ItemsOf(d, v))
  BY ListWritten DEF String
<1>2. PICK T : v \in Seq(T) /\ ListOf(d) = Seq(T)
  BY <1>1 DEF ListOf, Pairs
<1>3. /\ SubSeq(v, 1, 0) = <<>> /\ SubSeq(v, 1, Len(v)) = v
      /\ \A n \in 0..Len(v) : SubSeq(v, 1, n) \in ListOf(d)
  BY <1>2, FirstItems
<1>4. \A n \in 0..Len(v) : SubSeq(v, 1, n) \in Value(d)
  BY <1>3, ListValue
<1> DEFINE items == ItemsOf(d, v)
           fl == FlattenSeq(items)
           h == <<Len(v)>>
<1>5. /\ Start(items, 0) = 0 /\ \A n \in 0..Len(v) : Start(items, n) \in Nat
      /\ fl \in Seq(Nat) /\ Len(fl) = Start(items, Len(v))
  <2> HIDE DEF items
  <2>1. items \in Seq(Seq(Nat)) /\ Len(items) = Len(v)
    BY <1>1 DEF items
  <2>2. fl \in Seq(Nat) /\ Len(fl) = Start(items, Len(v))
    BY <2>1, FlattenAt
  <2> QED
    BY <2>1, <2>2, StartFacts
<1>6. h \in Seq(Nat) /\ Len(h) = 1 /\ Put(d, v) = h \o fl
  BY <1>1
<1> HIDE DEF h, fl
<1>7. Len(Put(d, v)) = 1 + Start(items, Len(v))
  <2>1. Len(h \o fl) = Len(h) + Len(fl)
    BY <1>5, <1>6, ConcatAt
  <2> HIDE DEF items
  <2> QED
    BY <1>5, <1>6, <2>1
<1> QED
  BY <1>1, <1>3, <1>4, <1>5, <1>7

LEMMA WritesStart ==
    ASSUME NEW o, SendableObject(o), NEW i \in DOMAIN Fields[o.id]
    PROVE  /\ i \in Nat \ {0} /\ Start(Writes(o), i - 1) \in Nat
           /\ Start(Follows(o), i - 1) \in Nat
<1>1. /\ Len(Fields[o.id]) \in Nat /\ DOMAIN Fields[o.id] = 1..Len(Fields[o.id])
      /\ Writes(o) \in Seq(Seq(Nat)) /\ Len(Writes(o)) = Len(Fields[o.id])
      /\ Follows(o) \in Seq(Seq(String)) /\ Len(Follows(o)) = Len(Fields[o.id])
  BY WritesFacts DEF String
<1>2. i \in Nat \ {0} /\ i - 1 \in 0..Len(Fields[o.id])
  BY <1>1, SMTT(30)
<1>3. Start(Writes(o), i - 1) \in Nat
  BY <1>1, <1>2, StartFacts
<1>4. Start(Follows(o), i - 1) \in Nat
  BY <1>1, <1>2, StartFacts, SMTT(30)
<1> QED
  BY <1>2, <1>3, <1>4

\* The parser is at a list, in it or before it.
OnList(o, d, v) ==
    /\ at \in DOMAIN Fields[o.id] /\ d = Fields[o.id][at] /\ v = o.f[d.name]
    /\ d.type \in Lists /\ v # Null
    /\ pc = "fields" /\ obj.id = o.id /\ DataHolds(o) /\ RestHolds(o)
    /\ obj.routing_id = Head(current.frames)
    /\ \A i \in 1..(at - 1) : Fields[o.id][i].name # d.name => Received(o, i)

LEMMA OnListFacts ==
    ASSUME NEW o, SendableObject(o), NEW d, NEW v, OnList(o, d, v)
    PROVE  /\ o.id \in Ids /\ at \in DOMAIN Fields[o.id] /\ obj.id = o.id
           /\ d = Fields[o.id][at] /\ v = o.f[d.name] /\ Field = d
           /\ d.type \in Lists /\ v # Null /\ v \in Value(d) /\ Sendable(d, v)
           /\ Start(Writes(o), at - 1) \in Nat
<1>1. /\ at \in DOMAIN Fields[o.id] /\ d = Fields[o.id][at] /\ v = o.f[d.name]
      /\ d.type \in Lists /\ v # Null /\ obj.id = o.id
  BY DEF OnList
<1> QED
  BY <1>1, FieldOfObject, WritesStart, WritesFacts DEF Field

\* How many items are left.
LEMMA Left ==
    ASSUME NEW l \in Nat, NEW n \in 0..l
    PROVE  /\ n = l => l - n = 0
           /\ n # l => l - n # 0 /\ l - (l - n) = n
OBVIOUS

\* The parser has read the last item of a list.
LEMMA ListRead ==
    ASSUME IInv, NEW o, SendableObject(o), NEW d, NEW v,
           OnList(o, d, v),
           needle' = 3 + Start(Writes(o), at - 1) + Start(ItemsOf(d, v), Len(v)),
           obj' = Set(v), todo' = 0, at' = at + 1,
           UNCHANGED <<pc, data, current, rest>>
    PROVE  Reading(o)'
<1>1. /\ o.id \in Ids /\ at \in DOMAIN Fields[o.id] /\ obj.id = o.id
      /\ d = Fields[o.id][at] /\ v = o.f[d.name] /\ Field = d
      /\ d.type \in Lists /\ v # Null /\ v \in Value(d) /\ Sendable(d, v)
      /\ Start(Writes(o), at - 1) \in Nat
  BY OnListFacts
<1>2. Seen(d, v) = v
  BY <1>1, Zenon DEF Seen
<1>3. Seen(d, v) \in Value(d) /\ obj' = Set(Seen(d, v))
  BY <1>1, <1>2, Zenon
<1>4. /\ Len(v) \in Nat /\ Len(Put(d, v)) = 1 + Start(ItemsOf(d, v), Len(v))
      /\ \A n \in 0..Len(v) : Start(ItemsOf(d, v), n) \in Nat
  BY <1>1, ItemsFacts, Zenon
<1>5. Start(ItemsOf(d, v), Len(v)) \in Nat
  BY <1>4
<1> DEFINE p == Start(Writes(o), at - 1)
           q == Start(ItemsOf(d, v), Len(v))
           l == Len(Put(d, v))
<1>6. needle' = 2 + p + l
  <2>1. p \in Nat /\ q \in Nat /\ l = 1 + q /\ needle' = 3 + p + q
    BY <1>1, <1>4, <1>5, Zenon
  <2> HIDE DEF p, q, l
  <2> QED
    BY <2>1
<1>7. RestHolds(o)'
  BY <1>1, RestStays, Zenon DEF OnList, Lists
<1> QED
  BY <1>1, <1>3, <1>6, <1>7, FieldRead, Zenon DEF OnList

\* The parser has read n items of a list and has more to read.
LEMMA ItemsRead ==
    ASSUME IInv, NEW o, SendableObject(o), NEW d, NEW v,
           OnList(o, d, v), NEW n \in 0..Len(v), n # Len(v),
           needle' = 3 + Start(Writes(o), at - 1) + Start(ItemsOf(d, v), n),
           obj' = Set(SubSeq(v, 1, n)), todo' = Len(v) - n, at' = at,
           UNCHANGED <<pc, data, current, rest>>
    PROVE  Reading(o)'
<1>1. /\ o.id \in Ids /\ at \in DOMAIN Fields[o.id] /\ obj.id = o.id
      /\ d = Fields[o.id][at] /\ v = o.f[d.name] /\ Field = d
      /\ d.type \in Lists /\ v # Null /\ v \in Value(d) /\ Sendable(d, v)
  BY OnListFacts
<1>2. Len(v) \in Nat /\ SubSeq(v, 1, n) \in Value(d)
  BY <1>1, ItemsFacts, Zenon
<1>3. todo' # 0 /\ Len(v) - todo' = n
  BY <1>2, Left
<1>4. /\ obj'.id = obj.id /\ obj'.routing_id = obj.routing_id
      /\ obj'.f[d.name] = SubSeq(v, 1, n)
      /\ \A x \in Names : x # d.name => obj'.f[x] = obj.f[x]
  BY <1>1, <1>2, SetOnly, Zenon
<1>5. ASSUME NEW i \in 1..(at' - 1), Fields[o.id][i].name # d.name
      PROVE  Received(o, i)'
  <2>1. i \in 1..(at - 1)
    OBVIOUS
  <2>2. i \in DOMAIN Fields[o.id]
    <3>1. Len(Fields[o.id]) \in Nat /\ DOMAIN Fields[o.id] = 1..Len(Fields[o.id])
      BY WritesFacts
    <3>2. at \in 1..Len(Fields[o.id])
      BY <1>1, <3>1, ZenonT(30)
    <3> QED
      BY <2>1, <3>1, <3>2
  <2>3. Received(o, i)
    BY <1>5, <2>1 DEF OnList
  <2>4. Fields[o.id][i].name \in Names
    BY <2>2, FieldOfObject, Zenon
  <2> QED
    BY <1>4, <1>5, <2>3, <2>4 DEF Received
<1>6. InList(o)'
  BY <1>1, <1>3, <1>4, <1>5, Zenon DEF InList
<1>7. DataHolds(o)' /\ RestHolds(o)'
  BY ZenonT(30) DEF DataHolds, RestHolds, OnList
<1>8. pc = "fields" /\ obj.id = o.id /\ obj.routing_id = Head(current.frames)
  BY DEF OnList
<1> QED
  BY <1>3, <1>4, <1>6, <1>7, <1>8 DEF Reading

\* Either way.
LEMMA SomeItemsRead ==
    ASSUME IInv, NEW o, SendableObject(o), NEW d, NEW v,
           OnList(o, d, v), NEW n \in 0..Len(v),
           needle' = 3 + Start(Writes(o), at - 1) + Start(ItemsOf(d, v), n),
           obj' = Set(SubSeq(v, 1, n)), Items(Len(v) - n),
           UNCHANGED <<pc, data, current, rest>>
    PROVE  Reading(o)'
<1>1. Len(v) \in Nat /\ SubSeq(v, 1, Len(v)) = v
  BY OnListFacts, ItemsFacts
<1>2. CASE n = Len(v)
  <2>1. Len(v) - n = 0
    BY <1>1, <1>2, Left
  <2>2. todo' = 0 /\ at' = at + 1
    BY <2>1 DEF Items
  <2> QED
    BY <1>1, <1>2, <2>2, ListRead
<1>3. CASE n # Len(v)
  <2>1. Len(v) - n # 0
    BY <1>1, <1>3, Left, Zenon
  <2>2. todo' = Len(v) - n /\ at' = at
    BY <2>1 DEF Items
  <2> QED
    BY <1>3, <2>2, ItemsRead
<1> QED
  BY <1>2, <1>3

LEMMA BeginListEcho ==
    ASSUME IInv, NEW o, SendableObject(o), Reading(o), BeginList
    PROVE  Reading(o)' /\ pc' # "idle"
<1>1. /\ pc = "fields" /\ todo = 0 /\ at \in DOMAIN Fields[obj.id]
      /\ Field.type \in Lists /\ UNCHANGED <<data, current>>
  BY InFieldMeans DEF BeginList
<1>2. PICK d, v : d = Fields[o.id][at] /\ v = o.f[d.name]
  OBVIOUS
<1>3. /\ o.id \in Ids /\ obj.id = o.id /\ at \in DOMAIN Fields[o.id] /\ Field = d
      /\ Known(d) /\ v \in Value(d) /\ Sendable(d, v)
      /\ data \in String /\ needle \in Nat
      /\ Part(data, needle, Put(d, v))
      /\ needle = 2 + Start(Writes(o), at - 1)
      /\ DataHolds(o) /\ RestHolds(o)
      /\ \A i \in 1..(at - 1) : Received(o, i)
      /\ obj.routing_id = Head(current.frames)
  BY <1>1, <1>2, FieldIsThere
<1> DEFINE count == IF v = Null THEN 0 ELSE Len(v)
<1>4. Part(data, needle, <<count>>)
  <2>1. CASE v = Null
    BY <1>1, <1>3, <2>1, ListWritten
  <2>2. CASE v # Null
    <3> DEFINE h == <<Len(v)>>
               fl == FlattenSeq(ItemsOf(d, v))
    <3>1. Put(d, v) = h \o fl /\ h \in Seq(Nat) /\ ItemsOf(d, v) \in Seq(Seq(Nat))
      BY <1>1, <1>3, <2>2, ListWritten DEF String
    <3>2. fl \in Seq(Nat) /\ data \in Seq(Nat)
      BY <1>3, <3>1, FlattenIsSequence DEF String
    <3> HIDE DEF h, fl
    <3>3. Part(data, needle, h)
      BY <1>3, <3>1, <3>2, PartOfConcat
    <3> QED
      BY <2>2, <3>3 DEF h
  <2> QED
    BY <2>1, <2>2
<1>5. Has(1) /\ Cell(1) = count
  BY <1>3, <1>4, NumberAt
<1> HIDE DEF count
<1>6. /\ obj' = Set(<<>>) /\ Items(count) /\ needle' = needle + 1
      /\ UNCHANGED <<pc, rc, rest>>
  BY <1>5 DEF BeginList, GetFailed, Emptied
<1>7. CASE v = Null
  <2>1. todo' = 0 /\ at' = at + 1
    BY <1>6, <1>7 DEF Items, count
  <2>2. Seen(d, v) = <<>> /\ <<>> \in Value(d)
    <3>1. Seen(d, v) = <<>>
      BY <1>1, <1>3, <1>7 DEF Seen, Lists, Fixed
    <3> QED
      BY <1>1, <1>3, <3>1, ListValue
  <2>3. Len(Put(d, v)) = 1
    <3>1. Put(d, v) = <<0>>
      BY <1>1, <1>3, <1>7, ListWritten, Zenon
    <3> QED
      BY <3>1
  <2>4. RestHolds(o)'
    BY <1>1, <1>2, <1>3, <1>6, <2>1, RestStays DEF Lists
  <2>5. needle' = 2 + Start(Writes(o), at - 1) + Len(Put(d, v))
    BY <1>3, <1>6, <2>3
  <2>6. Seen(d, v) \in Value(d) /\ obj' = Set(Seen(d, v))
    BY <1>6, <2>2
  <2>7. Reading(o)'
    BY <1>1, <1>2, <1>3, <1>6, <2>1, <2>4, <2>5, <2>6, FieldRead, Zenon
  <2> QED
    BY <1>1, <1>6, <2>7
<1>8. CASE v # Null
  <2>1. v \in ListOf(d) /\ Len(v) \in Nat /\ ItemsOf(d, v) \in Seq(Seq(Nat))
    BY <1>1, <1>3, <1>8, ListWritten DEF String
  <2>2. SubSeq(v, 1, 0) = <<>>
    <3>1. \E T : v \in Seq(T)
      BY <2>1 DEF ListOf, Pairs
    <3> QED
      BY <3>1, FirstItems
  <2>3. Start(ItemsOf(d, v), 0) = 0
    BY <2>1, StartFacts
  <2>4. Start(Writes(o), at - 1) \in Nat
    <3>1. Writes(o) \in Seq(Seq(Nat)) /\ at - 1 \in 0..Len(Writes(o))
      BY <1>3, WritesFacts DEF String
    <3> QED
      BY <3>1, StartFacts
  <2>5. needle' = 3 + Start(Writes(o), at - 1) + Start(ItemsOf(d, v), 0)
    BY <1>3, <1>6, <2>3, <2>4
  <2>6. obj' = Set(SubSeq(v, 1, 0))
    BY <1>6, <2>2
  <2>7. Items(Len(v) - 0)
    BY <1>6, <1>8, <2>1 DEF count
  <2>8. 0 \in 0..Len(v)
    BY <2>1, SMTT(30)
  <2>9. OnList(o, d, v)
    BY <1>1, <1>2, <1>3, <1>8 DEF OnList
  <2>10. Reading(o)'
    BY <1>1, <1>6, <2>5, <2>6, <2>7, <2>8, <2>9, SomeItemsRead
  <2> QED
    BY <1>1, <1>6, <2>10
<1> QED
  BY <1>7, <1>8

\* What the parser sees at the start of an item.
AtItem(o, d, v, n) ==
    /\ OnList(o, d, v) /\ n \in 0..Len(v) /\ n # Len(v)
    /\ todo - 1 = Len(v) - (n + 1)
    /\ needle = 3 + Start(Writes(o), at - 1) + Start(ItemsOf(d, v), n)
    /\ obj.f[d.name] = SubSeq(v, 1, n)
    /\ Part(data, needle, ItemsOf(d, v)[n + 1])

LEMMA ItemIsThere ==
    ASSUME IInv, NEW o, SendableObject(o), Reading(o), pc = "fields", todo > 0
    PROVE  \E d, v, n : AtItem(o, d, v, n)
<1>1. PICK d, v, n : d = Fields[o.id][at] /\ v = o.f[d.name] /\ n = Len(v) - todo
  OBVIOUS
<1>2. todo \in Nat /\ todo # 0 /\ data \in String /\ needle \in Nat
  BY DEF IInv, ParserInv
<1>3. /\ InList(o) /\ obj.id = o.id /\ DataHolds(o) /\ RestHolds(o)
      /\ obj.routing_id = Head(current.frames)
  BY <1>2 DEF Reading
<1>4. /\ at \in DOMAIN Fields[o.id] /\ d.type \in Lists /\ v # Null /\ n \in 0..Len(v)
      /\ needle = 3 + Start(Writes(o), at - 1) + Start(ItemsOf(d, v), n)
      /\ obj.f[d.name] = SubSeq(v, 1, n)
      /\ \A i \in 1..(at - 1) : Fields[o.id][i].name # d.name => Received(o, i)
  BY <1>1, <1>3, Zenon DEF InList
<1>5. OnList(o, d, v)
  BY <1>1, <1>3, <1>4, Zenon DEF OnList
<1>6. /\ v \in Value(d) /\ Sendable(d, v) /\ Start(Writes(o), at - 1) \in Nat
  BY <1>5, OnListFacts
<1>7. /\ Len(v) \in Nat /\ ItemsOf(d, v) \in Seq(Seq(Nat)) /\ Len(ItemsOf(d, v)) = Len(v)
      /\ Put(d, v) = <<Len(v)>> \o FlattenSeq(ItemsOf(d, v))
      /\ Writes(o)[at] = Put(d, v)
  <2>1. at \in DOMAIN Fields[o.id] /\ d = Fields[o.id][at] /\ v = o.f[d.name]
    BY <1>1, <1>4, Zenon
  <2>2. Writes(o)[at] = Put(d, v)
    BY <2>1, FieldOfObject
  <2> QED
    BY <1>4, <1>6, <2>2, ListWritten DEF String
<1>8. n # Len(v) /\ todo - 1 = Len(v) - (n + 1)
  <2>1. PICK l, m : l = Len(v) /\ m = todo
    BY Zenon
  <2>2. l \in Nat /\ m \in Nat /\ m # 0 /\ n = l - m
    BY <1>1, <1>2, <1>7, <2>1, Zenon
  <2>3. n # l /\ m - 1 = l - (n + 1)
    BY <2>2
  <2> QED
    BY <2>1, <2>3
<1> DEFINE p == 2 + Start(Writes(o), at - 1)
           items == ItemsOf(d, v)
           h == <<Len(v)>>
           fl == FlattenSeq(items)
<1>9. /\ p \in Nat /\ data \in Seq(Nat) /\ h \in Seq(Nat) /\ Len(h) = 1
      /\ fl \in Seq(Nat) /\ Part(data, p, h \o fl)
  <2>1. p \in Nat /\ h \in Seq(Nat) /\ Len(h) = 1 /\ data \in Seq(Nat)
    BY <1>2, <1>6, <1>7 DEF String
  <2>2. fl \in Seq(Nat)
    BY <1>7, FlattenIsSequence
  <2>3. Part(data, p, h \o fl)
    BY <1>3, <1>4, <1>7 DEF DataHolds
  <2> QED
    BY <2>1, <2>2, <2>3
<1> HIDE DEF p, h
<1>10. Part(data, p + 1, fl)
  <2> HIDE DEF fl
  <2> QED
    BY <1>9, PartOfConcat
<1>11. n + 1 \in 1..Len(items) /\ (n + 1) - 1 = n /\ n \in Nat
  <2> HIDE DEF items
  <2>1. PICK l : l = Len(items)
    OBVIOUS
  <2>2. l \in Nat /\ n \in 0..l /\ n # l
    BY <1>4, <1>7, <1>8, <2>1 DEF items
  <2>3. n + 1 \in 1..l /\ (n + 1) - 1 = n /\ n \in Nat
    BY <2>2
  <2> QED
    BY <2>1, <2>3
<1>12. Part(data, p + 1 + Start(items, n), items[n + 1])
  <2> HIDE DEF items
  <2>1. items \in Seq(Seq(Nat)) /\ p + 1 \in Nat
    BY <1>7, <1>9 DEF items
  <2>2. Part(data, (p + 1) + Start(items, (n + 1) - 1), items[n + 1])
    BY <1>9, <1>10, <1>11, <2>1, PartOfFlatten
  <2> QED
    BY <1>11, <2>2
<1>13. p + 1 + Start(items, n) = needle
  <2>1. p + 1 = 3 + Start(Writes(o), at - 1)
    BY <1>6 DEF p
  <2> QED
    BY <1>4, <2>1
<1>14. AtItem(o, d, v, n)
  BY <1>4, <1>5, <1>8, <1>12, <1>13 DEF AtItem
<1> QED
  BY <1>14

\* What follows from there.
LEMMA AtItemFacts ==
    ASSUME NEW o, SendableObject(o), NEW d, NEW v, NEW n, NEW i,
           AtItem(o, d, v, n), i = n + 1
    PROVE  /\ OnList(o, d, v) /\ Field = d /\ d.type \in Lists
           /\ v # Null /\ v \in Value(d) /\ Sendable(d, v)
           /\ Len(v) \in Nat /\ n \in Nat /\ i \in 0..Len(v) /\ i \in 1..Len(v)
           /\ todo - 1 = Len(v) - i
           /\ Start(Writes(o), at - 1) \in Nat /\ Start(ItemsOf(d, v), n) \in Nat
           /\ ItemsOf(d, v)[i] \in String
           /\ needle = 3 + Start(Writes(o), at - 1) + Start(ItemsOf(d, v), n)
           /\ 3 + Start(Writes(o), at - 1) + Start(ItemsOf(d, v), i)
                = needle + Len(ItemsOf(d, v)[i])
           /\ Append(SubSeq(v, 1, n), v[i]) = SubSeq(v, 1, i)
           /\ \A j \in 1..n : SubSeq(v, 1, n)[j] = v[j]
           /\ DOMAIN SubSeq(v, 1, n) = 1..n
<1>1. /\ OnList(o, d, v) /\ n \in 0..Len(v) /\ n # Len(v)
      /\ todo - 1 = Len(v) - (n + 1)
      /\ needle = 3 + Start(Writes(o), at - 1) + Start(ItemsOf(d, v), n)
  BY DEF AtItem
<1>2. /\ Field = d /\ d.type \in Lists /\ v # Null /\ v \in Value(d) /\ Sendable(d, v)
      /\ Start(Writes(o), at - 1) \in Nat
  BY <1>1, OnListFacts
<1>3. /\ Len(v) \in Nat /\ v \in ListOf(d)
      /\ ItemsOf(d, v) \in Seq(String) /\ Len(ItemsOf(d, v)) = Len(v)
  BY <1>2, ListWritten
<1>4. /\ n \in Nat /\ n + 1 \in 0..Len(v) /\ n + 1 \in 1..Len(v) /\ (n + 1) - 1 = n
  <2>1. PICK l \in Nat : l = Len(v)
    BY <1>3
  <2>2. n \in Nat /\ n + 1 \in 0..l /\ n + 1 \in 1..l /\ (n + 1) - 1 = n
    <3>1. n \in 0..l /\ n # l
      BY <1>1, <2>1
    <3> QED
      BY <3>1
  <2> QED
    BY <2>1, <2>2
<1> DEFINE items == ItemsOf(d, v)
           q == Start(items, n)
           r == Start(items, n + 1)
           l == Len(items[n + 1])
<1>5. q \in Nat /\ r = q + l /\ l \in Nat /\ items[n + 1] \in String
  <2> HIDE DEF items
  <2>1. items \in Seq(Seq(Nat)) /\ n + 1 \in 1..Len(items) /\ n \in 0..Len(items)
    BY <1>1, <1>3, <1>4 DEF items, String
  <2>2. q \in Nat /\ r = Start(items, (n + 1) - 1) + l
    BY <2>1, StartFacts
  <2>3. items[n + 1] \in Seq(Nat)
    BY <2>1
  <2>4. l \in Nat
    BY <2>3
  <2> QED
    BY <1>4, <2>2, <2>3, <2>4 DEF String
<1>6. 3 + Start(Writes(o), at - 1) + r = needle + l
  <2>1. needle = 3 + Start(Writes(o), at - 1) + q
    BY <1>1
  <2> HIDE DEF q, r, l
  <2> QED
    BY <1>2, <1>5, <2>1
<1>7. PICK T : v \in Seq(T)
  BY <1>3 DEF ListOf, Pairs
<1>8. /\ Append(SubSeq(v, 1, n), v[n + 1]) = SubSeq(v, 1, n + 1)
      /\ \A j \in 1..n : SubSeq(v, 1, n)[j] = v[j]
      /\ SubSeq(v, 1, n) \in Seq(T) /\ Len(SubSeq(v, 1, n)) = n
  BY <1>1, <1>7, FirstItems
<1>9. DOMAIN SubSeq(v, 1, n) = 1..n
  <2> DEFINE s == SubSeq(v, 1, n)
  <2>1. s \in Seq(T) /\ Len(s) = n
    BY <1>8
  <2> HIDE DEF s
  <2>2. DOMAIN s = 1..n
    BY <2>1
  <2> QED
    BY <2>2 DEF s
<1> QED
  BY <1>1, <1>2, <1>3, <1>4, <1>5, <1>6, <1>8, <1>9

LEMMA ItemEcho ==
    ASSUME IInv, NEW o, SendableObject(o), Reading(o), ReadItem
    PROVE  Reading(o)' /\ pc' # "idle"
<1>1. pc = "fields" /\ todo > 0 /\ UNCHANGED <<data, current>>
      /\ data \in String /\ needle \in Nat
  BY DEF ReadItem, IInv, ParserInv
<1>2. PICK d, v, n : AtItem(o, d, v, n)
  BY <1>1, ItemIsThere
<1> DEFINE items == ItemsOf(d, v)
<1>0. PICK i : i = n + 1
  OBVIOUS
<1>3. /\ OnList(o, d, v) /\ Field = d /\ d.type \in Lists
      /\ v # Null /\ v \in Value(d) /\ Sendable(d, v)
      /\ Len(v) \in Nat /\ n \in Nat /\ i \in 0..Len(v) /\ i \in 1..Len(v)
      /\ todo - 1 = Len(v) - i
      /\ items[i] \in String
      /\ 3 + Start(Writes(o), at - 1) + Start(items, i) = needle + Len(items[i])
      /\ Append(SubSeq(v, 1, n), v[i]) = SubSeq(v, 1, i)
      /\ \A j \in 1..n : SubSeq(v, 1, n)[j] = v[j]
      /\ DOMAIN SubSeq(v, 1, n) = 1..n
  <2>1. /\ OnList(o, d, v) /\ Field = d /\ d.type \in Lists
        /\ v # Null /\ v \in Value(d) /\ Sendable(d, v)
        /\ Len(v) \in Nat /\ n \in Nat /\ i \in 0..Len(v) /\ i \in 1..Len(v)
        /\ todo - 1 = Len(v) - i
    BY <1>0, <1>2, AtItemFacts
  <2>2. /\ items[i] \in String
        /\ 3 + Start(Writes(o), at - 1) + Start(items, i) = needle + Len(items[i])
    BY <1>0, <1>2, AtItemFacts
  <2>3. /\ Append(SubSeq(v, 1, n), v[i]) = SubSeq(v, 1, i)
        /\ \A j \in 1..n : SubSeq(v, 1, n)[j] = v[j]
        /\ DOMAIN SubSeq(v, 1, n) = 1..n
    <3> DEFINE seen == SubSeq(v, 1, n)
               more == SubSeq(v, 1, i)
    <3>1. Append(seen, v[i]) = more
      BY <1>0, <1>2, AtItemFacts, SMTT(30)
    <3>2. \A j \in 1..n : seen[j] = v[j]
      BY <1>0, <1>2, AtItemFacts
    <3>3. DOMAIN seen = 1..n
      BY <1>0, <1>2, AtItemFacts
    <3> QED
      BY <3>1, <3>2, <3>3
  <2> QED
    BY <2>1, <2>2, <2>3
<1>4. Part(data, needle, items[i]) /\ obj.f[d.name] = SubSeq(v, 1, n)
  BY <1>0, <1>2 DEF AtItem
<1> HIDE DEF items
<1>5. ASSUME obj' = Set(SubSeq(v, 1, i)), needle' = needle + Len(items[i]),
             Items(todo - 1), UNCHANGED <<pc, rc, rest>>
      PROVE  Reading(o)' /\ pc' # "idle"
  <2>1. Items(Len(v) - i)
    BY <1>3, <1>5
  <2>2. needle' = 3 + Start(Writes(o), at - 1) + Start(ItemsOf(d, v), i)
    BY <1>3, <1>5 DEF items
  <2>3. Reading(o)'
    BY <1>1, <1>3, <1>5, <2>1, <2>2, SomeItemsRead
  <2> QED
    BY <1>1, <1>5, <2>3
<1>6. CASE d.type = "strings"
  <2>1. v[i] \in String /\ items[i] = PutLong(v[i])
    BY <1>3, <1>6, ItemWritten DEF items
  <2>2. HasText(0) /\ Text(0) = v[i] /\ After(0) = Len(items[i])
    <3>1. Part(data, needle + 0, PutLong(v[i]))
      BY <1>1, <1>4, <2>1
    <3>2. HasText(0) /\ Text(0) = v[i] /\ After(0) = 0 + Len(PutLong(v[i]))
      BY <1>1, <2>1, <3>1, TextAt
    <3>3. Len(PutLong(v[i])) \in Nat
      BY <2>1, PutText DEF String
    <3> QED
      BY <2>1, <3>2, <3>3
  <2>3. /\ obj' = Grow(v[i]) /\ needle' = needle + Len(items[i])
        /\ Items(todo - 1) /\ UNCHANGED <<pc, rc, rest>>
    BY <1>3, <1>6, <2>2 DEF ReadItem, GetFailed
  <2>4. obj' = Set(SubSeq(v, 1, i))
    BY <1>3, <1>4, <2>3 DEF Grow
  <2> QED
    BY <1>5, <2>3, <2>4
<1>7. CASE d.type = "hash"
  <2>1. PICK k, x : k = v[i][1] /\ x = v[i][2]
    OBVIOUS
  <2>2. /\ k \in String /\ x \in String /\ v[i] = <<k, x>>
        /\ items[i] = PutLong(k) \o PutLong(x)
    BY <1>3, <1>7, <2>1, ItemWritten, ZenonT(30) DEF items
  <2>3. PutLong(k) \in Seq(Nat) /\ PutLong(x) \in Seq(Nat)
    BY <2>2, PutText DEF String
  <2>4. PICK a \in Seq(Nat), b \in Seq(Nat) : a = PutLong(k) /\ b = PutLong(x)
    BY <2>3
  <2>5. /\ Len(a) \in Nat /\ Len(b) \in Nat /\ Len(items[i]) = Len(a) + Len(b)
        /\ Part(data, needle, a) /\ Part(data, needle + Len(a), b)
    <3>1. items[i] = a \o b
      BY <2>2, <2>4
    <3>2. Part(data, needle, a \o b) /\ data \in Seq(Nat)
      BY <1>1, <1>4, <3>1 DEF String
    <3>3. Part(data, needle, a) /\ Part(data, needle + Len(a), b)
      BY <1>1, <3>2, PartOfConcat
    <3> QED
      BY <3>1, <3>3, ConcatAt
  <2>6. HasText(0) /\ Text(0) = k /\ After(0) = Len(a)
    <3>1. Part(data, needle + 0, PutLong(k))
      BY <1>1, <2>4, <2>5
    <3>2. HasText(0) /\ Text(0) = k /\ After(0) = 0 + Len(PutLong(k))
      BY <1>1, <2>2, <3>1, TextAt
    <3> QED
      BY <2>4, <2>5, <3>2
  <2>7. HasText(After(0)) /\ Text(After(0)) = x /\ After(After(0)) = Len(items[i])
    <3>1. Part(data, needle + After(0), PutLong(x)) /\ After(0) \in Nat
      BY <2>4, <2>5, <2>6
    <3>2. /\ HasText(After(0)) /\ Text(After(0)) = x
          /\ After(After(0)) = After(0) + Len(PutLong(x))
      BY <1>1, <2>2, <3>1, TextAt
    <3> QED
      BY <2>4, <2>5, <2>6, <3>2
  <2>8. \A j \in 1..n : SubSeq(v, 1, n)[j][1] # k
    <3>1. SUFFICES ASSUME NEW j \in 1..n, v[j][1] = k PROVE FALSE
      BY <1>3
    <3>2. j \in 1..Len(v) /\ j # i
      <4>1. PICK l \in Nat : l = Len(v)
        BY <1>3
      <4>2. i \in 1..l /\ i = n + 1 /\ n \in Nat
        BY <1>0, <1>3, <4>1
      <4>3. j \in 1..l /\ j # i
        BY <4>2
      <4> QED
        BY <4>1, <4>3
    <3>3. v[j][1] = v[i][1] => j = i
      BY <1>3, <1>7, <3>2 DEF Sendable
    <3> QED
      BY <2>1, <3>1, <3>2, <3>3
  <2>9. Inserted(k, x) = Set(SubSeq(v, 1, i))
    <3>1. ~ \E j \in DOMAIN obj.f[Field.name] : obj.f[Field.name][j][1] = k
      BY <1>3, <1>4, <2>8
    <3>2. Inserted(k, x) = Grow(<<k, x>>)
      BY <3>1 DEF Inserted
    <3> QED
      BY <1>3, <1>4, <2>2, <3>2 DEF Grow
  <2>10. /\ obj' = Inserted(k, x) /\ needle' = needle + Len(items[i])
         /\ Items(todo - 1) /\ UNCHANGED <<pc, rc, rest>>
    BY <1>3, <1>7, <2>6, <2>7 DEF ReadItem, GetFailed
  <2> QED
    BY <1>5, <2>9, <2>10
<1> QED
  BY <1>3, <1>6, <1>7 DEF Lists

\* The first l of the frames that are left are taken.
FramesTaken(l) ==
    /\ at' = at + 1 /\ Len(rest') = Len(rest) - l
    /\ \A k \in 1..Len(rest') : rest'[k] = rest[l + k]

\* What the frames that are left begin with, and what is left after that.
LEMMA FollowsAt ==
    ASSUME NEW o, SendableObject(o), at \in DOMAIN Fields[o.id], RestHolds(o),
           NEW d, NEW v, d = Fields[o.id][at], v = o.f[d.name], NEW fr,
           fr = Frames(d, v)
    PROVE  /\ fr \in Seq(String) /\ Len(fr) \in Nat /\ Len(rest) \in Nat
           /\ Len(fr) <= Len(rest)
           /\ \A k \in 1..Len(fr) : rest[k] = fr[k]
           /\ at = Len(Fields[o.id]) => Len(rest) = Len(fr)
           /\ FramesTaken(Len(fr)) => RestHolds(o)'
<1> DEFINE fl == Follows(o)
           all == OverFields(Frames, o)
           st == Start(fl, at - 1)
           nx == Start(fl, at)
           n == Len(fl)
<1>1. /\ fl \in Seq(Seq(String)) /\ n = Len(Fields[o.id]) /\ n \in Nat
      /\ all = FlattenSeq(fl) /\ at \in 1..n /\ at \in Nat
  BY WritesFacts, SMTT(30)
<1>2. fl[at] = fr /\ fr \in Seq(String)
  BY FieldOfObject
<1>3. /\ Len(all) = Start(fl, n) /\ nx <= Start(fl, n)
      /\ \A k \in 1..Len(fr) : all[st + k] = fr[k]
  <2> HIDE DEF fl, all
  <2>1. fl \in Seq(Seq(String)) /\ at \in 1..Len(fl) /\ all = FlattenSeq(fl)
    BY <1>1
  <2>2. Len(FlattenSeq(fl)) = Start(fl, Len(fl)) /\ nx <= Start(fl, Len(fl))
    BY <2>1, FlattenAt
  <2>3. \A k \in 1..Len(fl[at]) : FlattenSeq(fl)[st + k] = fl[at][k]
    BY <2>1, FlattenAt, SMTT(30)
  <2> QED
    BY <1>2, <2>1, <2>2, <2>3, Zenon
<1>4. nx = st + Len(fr) /\ st \in Nat /\ nx \in Nat /\ Start(fl, n) \in Nat
  <2> HIDE DEF fl
  <2>1. at - 1 \in 0..n /\ at \in 0..n /\ n \in 0..n
    <3> HIDE DEF n
    <3> QED
      BY <1>1
  <2>2. nx = st + Len(fl[at])
    BY <1>1, StartFacts, SMTT(30)
  <2> QED
    BY <1>1, <1>2, <2>1, <2>2, StartFacts
<1>5. Len(fr) \in Nat
  BY <1>2
<1>6. /\ Len(rest) = Len(all) - st
      /\ \A k \in 1..Len(rest) : rest[k] = all[st + k]
  BY SMTT(30) DEF RestHolds
<1> HIDE DEF fl, all, st, nx, n
<1>7. Len(all) \in Nat /\ Len(rest) \in Nat /\ Len(fr) <= Len(rest)
  <2>1. PICK a, l, r : a = Len(all) /\ l = Len(fr) /\ r = Len(rest)
    BY Zenon
  <2>2. a \in Nat /\ l \in Nat /\ st \in Nat /\ r = a - st /\ st + l <= a
    BY <1>3, <1>4, <1>5, <1>6, <2>1, Zenon
  <2>3. r \in Nat /\ l <= r
    BY <2>2
  <2> QED
    BY <2>1, <2>2, <2>3
<1>8. ASSUME NEW k \in 1..Len(fr) PROVE rest[k] = fr[k]
  <2>1. k \in 1..Len(rest)
    <3>1. PICK l \in Nat, r \in Nat : l = Len(fr) /\ r = Len(rest)
      BY <1>5, <1>7, SMTT(30)
    <3>2. k \in 1..l /\ l <= r
      BY <1>7, <3>1
    <3>3. k \in 1..r
      BY <3>2, SMTT(30)
    <3> QED
      BY <3>1, <3>3, SMTT(30)
  <2> QED
    BY <1>3, <1>6, <2>1, ZenonT(30)
<1>9. at = Len(Fields[o.id]) => Len(rest) = Len(fr)
  <2>1. SUFFICES ASSUME at = Len(Fields[o.id]) PROVE Len(rest) = Len(fr)
    OBVIOUS
  <2>2. nx = Len(all)
    BY <1>1, <1>3, <2>1, Zenon DEF nx
  <2>3. PICK a, l, r : a = Len(all) /\ l = Len(fr) /\ r = Len(rest)
    BY Zenon
  <2>4. l \in Nat /\ st \in Nat /\ r = a - st /\ a = st + l
    BY <1>4, <1>5, <1>6, <2>2, <2>3, Zenon
  <2>5. r = l
    BY <2>4
  <2> QED
    BY <2>3, <2>5, SMTT(30)
<1>10. ASSUME FramesTaken(Len(fr)) PROVE RestHolds(o)'
  <2>0. /\ at' = at + 1 /\ Len(rest') = Len(rest) - Len(fr)
        /\ \A k \in 1..Len(rest') : rest'[k] = rest[Len(fr) + k]
    BY <1>10, Zenon DEF FramesTaken
  <2>1. at' - 1 = at
    <3>1. \A x \in Nat : (x + 1) - 1 = x
      OBVIOUS
    <3>2. at \in Nat
      BY <1>1
    <3> QED
      BY <2>0, <3>1, <3>2, Zenon
  <2>2. PICK a, l, r, s : a = Len(all) /\ l = Len(fr) /\ r = Len(rest) /\ s = Len(rest')
    BY Zenon
  <2>3. /\ l \in Nat /\ st \in Nat /\ r = a - st /\ r \in Nat /\ a \in Nat
        /\ l <= r /\ nx = st + l /\ s = r - l
    BY <1>4, <1>5, <1>6, <1>7, <2>0, <2>2, Zenon
  <2>4. s = a - nx
    BY <2>3
  <2>5. ASSUME NEW k \in 1..s PROVE rest'[k] = all[nx + k]
    <3>1. l + k \in 1..r /\ st + (l + k) = nx + k
      BY <2>3
    <3>2. rest[l + k] = all[st + (l + k)]
      BY <1>6, <2>2, <3>1, Zenon
    <3>3. rest'[k] = rest[l + k]
      BY <2>0, <2>2, ZenonT(30)
    <3> QED
      BY <3>1, <3>2, <3>3
  <2>6. Len(rest') = Len(all) - nx /\ \A k \in 1..Len(rest') : rest'[k] = all[nx + k]
    BY <2>2, <2>4, <2>5
  <2>7. all' = all /\ Start(Follows(o), at' - 1) = nx
    BY <2>1 DEF all, nx, fl, OverFields, FieldsOf
  <2> QED
    BY <2>6, <2>7 DEF RestHolds, all
<1> QED
  BY <1>2, <1>5, <1>7, <1>8, <1>9, <1>10, Zenon

LEMMA FrameEcho ==
    ASSUME IInv, NEW o, SendableObject(o), Reading(o), ReadFrame
    PROVE  Reading(o)' /\ pc' # "idle"
<1>1. /\ pc = "fields" /\ todo = 0 /\ at \in DOMAIN Fields[obj.id]
      /\ Field.type \in {"frame", "msg"} /\ UNCHANGED <<data, current>>
      /\ rest \in Seq(String)
  BY InFieldMeans DEF ReadFrame, IInv, ParserInv
<1>2. PICK d, v, fr : d = Fields[o.id][at] /\ v = o.f[d.name] /\ fr = Frames(d, v)
  OBVIOUS
<1>3. /\ o.id \in Ids /\ obj.id = o.id /\ at \in DOMAIN Fields[o.id] /\ Field = d
      /\ Known(d) /\ v \in Value(d) /\ data \in String /\ needle \in Nat
      /\ needle = 2 + Start(Writes(o), at - 1)
      /\ DataHolds(o) /\ RestHolds(o)
      /\ \A i \in 1..(at - 1) : Received(o, i)
      /\ obj.routing_id = Head(current.frames)
  BY <1>1, <1>2, FieldIsThere
<1>4. /\ fr \in Seq(String) /\ Len(fr) \in Nat /\ Len(rest) \in Nat
      /\ Len(fr) <= Len(rest)
      /\ \A k \in 1..Len(fr) : rest[k] = fr[k]
      /\ at = Len(Fields[o.id]) => Len(rest) = Len(fr)
      /\ FramesTaken(Len(fr)) => RestHolds(o)'
  <2>1. /\ at \in DOMAIN Fields[o.id] /\ RestHolds(o)
        /\ d = Fields[o.id][at] /\ v = o.f[d.name] /\ fr = Frames(d, v)
    BY <1>2, <1>3, SMTT(30)
  <2>2. /\ fr \in Seq(String) /\ Len(fr) \in Nat /\ Len(rest) \in Nat
        /\ Len(fr) <= Len(rest)
        /\ at = Len(Fields[o.id]) => Len(rest) = Len(fr)
    BY <2>1, FollowsAt, SMTT(30)
  <2>3. ASSUME NEW k \in 1..Len(fr) PROVE rest[k] = fr[k]
    BY <2>1, FollowsAt, SMTT(30)
  <2>4. ASSUME FramesTaken(Len(fr)) PROVE RestHolds(o)'
    BY <2>1, <2>4, FollowsAt
  <2> QED
    BY <2>2, <2>3, <2>4
<1>5. needle = 2 + Start(Writes(o), at - 1) + Len(Put(d, v))
  <2>1. Put(d, v) = <<>>
    BY <1>1, <1>3 DEF Put, Fixed
  <2>2. Len(Put(d, v)) = 0
    BY <2>1
  <2>3. Start(Writes(o), at - 1) \in Nat
    BY <1>3, WritesStart
  <2> QED
    BY <1>3, <2>2, <2>3
<1>6. ASSUME Seen(d, v) \in Value(d), obj' = Set(Seen(d, v)), RestHolds(o)',
             at' = at + 1, UNCHANGED <<needle, todo, pc>>
      PROVE  Reading(o)' /\ pc' # "idle"
  <2>1. Reading(o)'
    BY <1>1, <1>2, <1>3, <1>5, <1>6, FieldRead, Zenon
  <2> QED
    BY <1>1, <1>6, <2>1
<1>7. CASE d.type = "frame"
  <2>1. fr = <<Seen(d, v)>> /\ Seen(d, v) \in String /\ Seen(d, v) \in Value(d)
    <3>1. CASE v = Null
      BY <1>2, <1>7, <3>1, SMTT(30) DEF Frames, Seen, Fixed, Value, String
    <3>2. CASE v # Null
      BY <1>2, <1>3, <1>7, <3>2 DEF Frames, Seen, Fixed, Value
    <3> QED
      BY <3>1, <3>2
  <2>2. Len(fr) = 1 /\ fr[1] = Seen(d, v)
    BY <2>1
  <2>3. rest # <<>> /\ rest[1] = Seen(d, v) /\ Len(rest) >= 1
    <3>1. Len(rest) >= 1 /\ rest[1] = Seen(d, v)
      BY <1>4, <2>2
    <3> QED
      BY <3>1
  <2>4. Head(rest) = Seen(d, v)
    BY <1>1, <2>3
  <2>5. Tail(rest) \in Seq(String) /\ Len(Tail(rest)) = Len(rest) - 1
        /\ \A k \in 1..Len(Tail(rest)) : Tail(rest)[k] = rest[1 + k]
    BY <1>1, <2>3
  <2>6. /\ obj' = Set(Seen(d, v)) /\ rest' = Tail(rest) /\ at' = at + 1
        /\ UNCHANGED <<needle, todo, pc>>
    BY <1>3, <1>7, <2>3, <2>4 DEF ReadFrame, Malformed
  <2>7. RestHolds(o)'
    BY <1>4, <2>2, <2>5, <2>6 DEF FramesTaken
  <2> QED
    BY <1>6, <2>1, <2>6, <2>7
<1>8. CASE d.type = "msg"
  <2>1. fr = Seen(d, v) /\ Seen(d, v) \in Value(d)
    <3>1. CASE v = Null
      <4>1. fr = <<<<>>>> /\ Seen(d, v) = <<<<>>>>
        BY <1>2, <1>8, <3>1 DEF Frames, Seen, Fixed
      <4>2. <<<<>>>> \in Seq(String)
        BY SMTT(30) DEF String
      <4> QED
        BY <1>8, <4>1, <4>2 DEF Value, Fixed
    <3>2. CASE v # Null
      BY <1>2, <1>3, <1>8, <3>2, SMTT(30) DEF Frames, Seen
    <3> QED
      BY <3>1, <3>2
  <2>2. at = Len(Fields[o.id])
    BY <1>2, <1>3, <1>8, CodecConstants
  <2>3. Len(rest) = Len(fr)
    BY <1>4, <2>2
  <2>4. rest = fr
    BY <1>1, <1>4, <2>3
  <2>5. /\ obj' = Set(Seen(d, v)) /\ rest' = <<>> /\ at' = at + 1
        /\ UNCHANGED <<needle, todo, pc>>
    BY <1>3, <1>8, <2>1, <2>4 DEF ReadFrame, Malformed
  <2>6. RestHolds(o)'
    <3>1. Len(rest') = 0 /\ Len(rest) - Len(fr) = 0
      BY <1>4, <2>3, <2>5
    <3>2. \A k \in 1..Len(rest') : rest'[k] = rest[Len(fr) + k]
      BY <3>1
    <3> QED
      BY <1>4, <2>5, <3>1, <3>2 DEF FramesTaken
  <2> QED
    BY <1>6, <2>1, <2>5, <2>6
<1> QED
  BY <1>1, <1>3, <1>7, <1>8

LEMMA EndEcho ==
    ASSUME IInv, NEW o, SendableObject(o), Reading(o), EndRecv
    PROVE  Reading(o)' /\ rc' = 0 /\ pc' = "idle"
<1>1. /\ pc = "fields" /\ todo = 0 /\ at \notin DOMAIN Fields[obj.id]
      /\ rc' = 0 /\ pc' = "idle" /\ UNCHANGED <<current, obj, rest>>
      /\ rest \in Seq(String)
  BY DEF EndRecv, Return, IInv, ParserInv
<1>2. /\ obj.id = o.id /\ RestHolds(o) /\ AtField(o)
      /\ obj.routing_id = Head(current.frames)
  BY <1>1 DEF Reading
<1> DEFINE fl == Follows(o)
           n == Len(Fields[o.id])
<1>3. /\ fl \in Seq(Seq(String)) /\ Len(fl) = n /\ n \in Nat
      /\ DOMAIN Fields[o.id] = 1..n /\ OverFields(Frames, o) = FlattenSeq(fl)
  BY WritesFacts
<1>4. at = n + 1 /\ at - 1 = n
  <2> HIDE DEF n
  <2>1. at \in 1..(n + 1) /\ at \notin 1..n
    BY <1>1, <1>2, <1>3 DEF AtField, n
  <2> QED
    BY <1>3, <2>1
<1>5. \A i \in DOMAIN Fields[o.id] : Received(o, i)
  BY <1>2, <1>3, <1>4 DEF AtField
<1>6. rest = <<>>
  <2> HIDE DEF fl, n
  <2>1. Len(OverFields(Frames, o)) = Start(fl, n) /\ Start(fl, n) \in Nat
    BY <1>3, FlattenAt, StartFacts
  <2>2. Len(rest) = Start(fl, n) - Start(fl, n)
    BY <1>2, <1>4, <2>1 DEF RestHolds, fl
  <2>3. Len(rest) = 0
    BY <2>1, <2>2
  <2> QED
    BY <1>1, <2>3
<1>7. \A i \in DOMAIN Fields[o.id] : Received(o, i)'
  BY <1>1, <1>5 DEF Received
<1> QED
  BY <1>1, <1>2, <1>6, <1>7 DEF Reading

-------------------------------------------------------------------------------
\* The other steps.

\* A step that leaves the parser and its input alone.
LEMMA ReadingStays ==
    ASSUME NEW o, Reading(o), UNCHANGED <<parser, rest, current>>
    PROVE  Reading(o)'
<1>1. /\ UNCHANGED <<obj, data, needle, at, todo, pc, rc, rest, current>>
  BY DEF parser
<1>2. \A i : Received(o, i) => Received(o, i)'
  BY <1>1 DEF Received
<1>3. (DataHolds(o) => DataHolds(o)') /\ (RestHolds(o) => RestHolds(o)')
  BY <1>1 DEF DataHolds, RestHolds
<1>4. AtField(o) => AtField(o)'
  BY <1>1, <1>2 DEF AtField
<1>5. InList(o) => InList(o)'
  BY <1>1, <1>2, Zenon DEF InList
<1> QED
  BY <1>1, <1>2, <1>3, <1>4, <1>5 DEF Reading

LEMMA ParserUnchanged ==
    ASSUME EchoInv, UNCHANGED <<parser, rest, current>>
    PROVE  /\ WasSent(current)'
           /\ \A o : o = current'.object /\ o # Null => Reading(o)'
<1>1. WasSent(current')
  BY DEF EchoInv
<1>2. ASSUME NEW o, o = current'.object, o # Null PROVE Reading(o)'
  BY <1>2, ReadingStays DEF EchoInv
<1> QED
  BY <1>1, <1>2

LEMMA FaithfulStays ==
    ASSUME EchoIsFaithful, UNCHANGED <<replied, current>>
    PROVE  EchoIsFaithful'
BY DEF EchoIsFaithful

LEMMA BlankIsSendable ==
    ASSUME NEW n \in Names
    PROVE  Sendable(FieldOf(n), Blank[n])
<1> DEFINE d == FieldOf(n)
<1>1. CASE d.type = "string"
  <2>1. Blank[n] = <<>>
    BY <1>1 DEF Blank
  <2>2. Len(<<>>) < Byte
    BY CodecConstants
  <2> QED
    BY <1>1, <2>1, <2>2 DEF Sendable
<1>2. CASE d.type = "hash"
  <2>1. Blank[n] = Null
    BY <1>2 DEF Blank
  <2> QED
    BY <1>2, <2>1 DEF Sendable
<1>3. CASE d.type \notin {"string", "hash"}
  BY <1>3 DEF Sendable
<1> QED
  BY <1>1, <1>2, <1>3

LEMMA InitEcho == Init => EchoInv
<1> SUFFICES ASSUME Init PROVE EchoInv
  OBVIOUS
<1>1. queue = <<>> /\ replied = Null /\ current.object = Null /\ out.f = Blank
  BY DEF Init
<1>2. \A i \in 1..Len(queue) : WasSent(queue[i])
  BY <1>1
<1>3. \A n \in Names : Sendable(FieldOf(n), out.f[n])
  BY <1>1, BlankIsSendable
<1>4. WasSent(current)
  BY <1>1 DEF WasSent
<1>5. EchoIsFaithful
  BY <1>1 DEF EchoIsFaithful
<1> QED
  BY <1>1, <1>2, <1>3, <1>4, <1>5 DEF EchoInv

\* The frames that Post puts on the wire.
LEMMA PostedFrames ==
    ASSUME NEW T, NEW a \in T, NEW b \in T, NEW s \in Seq(T), NEW f,
           f = <<a>> \o (<<b>> \o s)
    PROVE  /\ f \in Seq(T) /\ Len(f) > 1 /\ f[2] = b /\ SubSeq(f, 3, Len(f)) = s
<1> DEFINE g == <<b>> \o s
<1>1. g \in Seq(T) /\ Len(g) = 1 + Len(s) /\ Len(s) \in Nat
      /\ g[1] = b /\ \A k \in 1..Len(s) : g[1 + k] = s[k]
  OBVIOUS
<1> HIDE DEF g
<1>2. f = <<a>> \o g
  BY DEF g
<1>3. f \in Seq(T) /\ Len(f) = 1 + Len(g) /\ \A k \in 1..Len(g) : f[1 + k] = g[k]
  BY <1>1, <1>2
<1>4. Len(f) = 2 + Len(s) /\ f[2] = b
  BY <1>1, <1>3
<1>5. ASSUME NEW k \in 1..Len(s) PROVE f[2 + k] = s[k]
  <2>1. 1 + k \in 1..Len(g) /\ 1 + (1 + k) = 2 + k
    BY <1>1
  <2> QED
    BY <1>1, <1>3, <2>1
<1>6. SubSeq(f, 3, Len(f)) = s
  <2> DEFINE t == SubSeq(f, 3, Len(f))
             l == Len(s)
  <2>1. t \in Seq(T) /\ Len(t) = l /\ \A k \in 1..l : t[k] = f[2 + k]
    <3>1. t = SubSeq(f, 3, 2 + l) /\ l \in Nat /\ Len(f) = 2 + l
      BY <1>1, <1>4
    <3> HIDE DEF l, t
    <3> QED
      BY <1>3, <3>1
  <2> HIDE DEF t
  <2>2. \A k \in 1..l : t[k] = s[k]
    BY <1>5, <2>1
  <2>3. t = s
    BY <2>1, <2>2
  <2> QED
    BY <2>3 DEF t
<1> QED
  BY <1>1, <1>3, <1>4, <1>6

LEMMA RestOfMessage ==
    ASSUME NEW o, SendableObject(o)
    PROVE  /\ FirstFrame(o) \in String /\ OverFields(Frames, o) \in Seq(String)
           /\ Tail(Message(o)) = OverFields(Frames, o)
<1>1. /\ o.id \in Nat /\ Writes(o) \in Seq(Seq(Nat)) /\ Follows(o) \in Seq(Seq(String))
      /\ OverFields(Put, o) = FlattenSeq(Writes(o))
      /\ OverFields(Frames, o) = FlattenSeq(Follows(o))
  BY WritesFacts DEF String
<1>2. OverFields(Frames, o) \in Seq(String) /\ OverFields(Put, o) \in Seq(Nat)
  BY <1>1, FlattenIsSequence
<1>3. FirstFrame(o) \in Seq(Nat)
  <2>1. PICK h, p : h = <<Signature, o.id>> /\ p = OverFields(Put, o)
    OBVIOUS
  <2>2. h \in Seq(Nat)
    BY <1>1, <2>1, CodecConstants
  <2>3. h \o p \in Seq(Nat)
    BY <1>2, <2>1, <2>2, ConcatAt
  <2> QED
    BY <2>1, <2>3 DEF FirstFrame
<1>4. Tail(Message(o)) = OverFields(Frames, o)
  <2>1. PICK x, s : x = FirstFrame(o) /\ s = OverFields(Frames, o)
    OBVIOUS
  <2>2. x \in String /\ s \in Seq(String) /\ Message(o) = <<x>> \o s
    BY <1>2, <1>3, <2>1 DEF Message, String
  <2>3. Tail(<<x>> \o s) = s
    BY <2>2
  <2> QED
    BY <2>1, <2>2, <2>3
<1> QED
  BY <1>2, <1>3, <1>4 DEF String

LEMMA FilledIsSendable ==
    ASSUME ObjectsSendable, NEW o \in Objects, NEW f, WellTyped(f),
           \A n \in Names : Sendable(FieldOf(n), f[n])
    PROVE  SendableObject(Filled(o, f))
<1> DEFINE g == [n \in Names |-> IF n \in DOMAIN o.f /\ o.f[n] # Null
                                 THEN o.f[n] ELSE f[n]]
<1>1. Filled(o, f).id \in Ids /\ WellTyped(Filled(o, f).f)
  BY FilledIsTyped
<1>2. Filled(o, f).f = g
  BY DEF Filled
<1>3. ASSUME NEW n \in Names PROVE Sendable(FieldOf(n), g[n])
  BY DEF ObjectsSendable
<1> HIDE DEF g
<1> QED
  BY <1>1, <1>2, <1>3 DEF SendableObject

LEMMA AppendedSent ==
    ASSUME IInv, EchoInv, NEW m, WasSent(m), queue' = Append(queue, m)
    PROVE  \A i \in 1..Len(queue') : WasSent(queue'[i])
<1>1. PICK q \in Seq(Posted) : q = queue
  BY DEF IInv, SenderInv
<1>2. /\ Len(Append(q, m)) = Len(q) + 1 /\ Len(q) \in Nat
      /\ Append(q, m)[Len(q) + 1] = m
      /\ \A i \in 1..Len(q) : Append(q, m)[i] = q[i]
  OBVIOUS
<1>3. \A i \in 1..Len(q) : WasSent(q[i])
  BY <1>1 DEF EchoInv
<1>4. ASSUME NEW i \in 1..(Len(q) + 1) PROVE WasSent(Append(q, m)[i])
  <2>1. i = Len(q) + 1 \/ i \in 1..Len(q)
    BY <1>2
  <2> QED
    BY <1>2, <1>3, <2>1
<1> QED
  BY <1>1, <1>2, <1>4

LEMMA SendEcho == IInv /\ EchoInv /\ ObjectsSendable /\ Send => EchoInv'
<1> SUFFICES ASSUME IInv, EchoInv, ObjectsSendable, Send PROVE EchoInv'
  OBVIOUS
<1>1. PICK o \in Objects :
        /\ out' = Filled(o, out.f)
        /\ filled' = Encoding(Filled(o, out.f), bytes')
        /\ Post(<<Padded(FirstFrame(Filled(o, out.f)), filled'.size)>>
                    \o Tail(Message(Filled(o, out.f))), Filled(o, out.f), OwnId)
  BY DEF Send
<1>2. PICK new, size : new = Filled(o, out.f) /\ size = filled'.size
  OBVIOUS
<1>3. WellTyped(out.f) /\ \A n \in Names : Sendable(FieldOf(n), out.f[n])
  BY DEF IInv, SenderInv, EchoInv
<1>4. SendableObject(new) /\ out' = new
  BY <1>1, <1>2, <1>3, FilledIsSendable
<1>5. size \in Nat
  <2>1. IInv'
    BY SendInv
  <2> QED
    BY <1>2, <2>1 DEF IInv, SenderInv
<1>6. PICK first, follow : /\ first = Padded(FirstFrame(new), size)
                           /\ follow = OverFields(Frames, new)
  OBVIOUS
<1>7. first \in String /\ follow \in Seq(String) /\ Tail(Message(new)) = follow
  BY <1>4, <1>5, <1>6, RestOfMessage, PaddedIsString
<1>8. PICK m : m = [frames |-> <<OwnId>> \o (<<first>> \o follow), object |-> new]
  OBVIOUS
<1>9. queue' = Append(queue, m)
  BY <1>1, <1>2, <1>6, <1>7, <1>8 DEF Post
<1>10. WasSent(m)
  <2>1. PICK fs : fs = <<OwnId>> \o (<<first>> \o follow)
    OBVIOUS
  <2>2. m.frames = fs /\ m.object = new
    BY <1>8, <2>1
  <2>3. Len(fs) > 1 /\ fs[2] = first /\ SubSeq(fs, 3, Len(fs)) = follow
    BY <1>7, <2>1, PostedFrames, CodecConstants
  <2> QED
    BY <1>4, <1>5, <1>6, <2>2, <2>3 DEF WasSent
<1>11. \A i \in 1..Len(queue') : WasSent(queue'[i])
  BY <1>9, <1>10, AppendedSent
<1>12. \A n \in Names : Sendable(FieldOf(n), out'.f[n])
  BY <1>4 DEF SendableObject
<1>13. UNCHANGED <<parser, rest, current, replied>>
  BY DEF Send
<1>14. EchoIsFaithful'
  BY <1>13, FaithfulStays DEF EchoInv
<1> QED
  BY <1>11, <1>12, <1>13, <1>14, ParserUnchanged DEF EchoInv

LEMMA StrangerEcho == IInv /\ EchoInv /\ Stranger => EchoInv'
<1> SUFFICES ASSUME IInv, EchoInv, Stranger PROVE EchoInv'
  OBVIOUS
<1>1. PICK m \in Strangers : Post(m, Null, OtherId)
  BY DEF Stranger
<1>2. PICK x : x = [frames |-> <<OtherId>> \o m, object |-> Null]
  OBVIOUS
<1>3. queue' = Append(queue, x) /\ WasSent(x)
  BY <1>1, <1>2 DEF Post, WasSent
<1>4. \A i \in 1..Len(queue') : WasSent(queue'[i])
  BY <1>3, AppendedSent
<1>5. UNCHANGED <<parser, rest, current, replied, out>>
  BY DEF Stranger
<1>6. EchoIsFaithful'
  BY <1>5, FaithfulStays DEF EchoInv
<1> QED
  BY <1>4, <1>5, <1>6, ParserUnchanged DEF EchoInv

LEMMA EncodeEcho == IInv /\ EchoInv /\ Encode => EchoInv'
<1> SUFFICES ASSUME IInv, EchoInv, Encode PROVE EchoInv'
  OBVIOUS
<1>1. UNCHANGED <<parser, rest, current, replied, out, queue>>
  BY DEF Encode
<1>2. EchoIsFaithful'
  BY <1>1, FaithfulStays DEF EchoInv
<1> QED
  BY <1>1, <1>2, ParserUnchanged DEF EchoInv

LEMMA TakeEcho == IInv /\ EchoInv /\ Take => EchoInv'
<1> SUFFICES ASSUME IInv, EchoInv, Take PROVE EchoInv'
  OBVIOUS
<1>1. PICK n \in Hashes : out' = [out EXCEPT !.f[n] = Null]
  BY DEF Take
<1>2. n \in Names /\ FieldOf(n).type = "hash"
  BY DEF Hashes
<1>3. out'.f = [out.f EXCEPT ![n] = Null] /\ DOMAIN out.f = Names
  BY <1>1 DEF IInv, SenderInv
<1>4. ASSUME NEW m \in Names PROVE Sendable(FieldOf(m), out'.f[m])
  <2>1. CASE m = n
    BY <1>2, <1>3, <2>1 DEF Sendable
  <2>2. CASE m # n
    BY <1>3, <2>2 DEF EchoInv
  <2> QED
    BY <2>1, <2>2
<1>5. UNCHANGED <<parser, rest, current, replied, queue>>
  BY DEF Take
<1>6. EchoIsFaithful'
  BY <1>5, FaithfulStays DEF EchoInv
<1> QED
  BY <1>4, <1>5, <1>6, ParserUnchanged DEF EchoInv

\* An object into which a message was received makes the same message.
LEMMA MessageSeen ==
    ASSUME NEW o, SendableObject(o), obj.id = o.id,
           \A i \in DOMAIN Fields[o.id] : Received(o, i)
    PROVE  Message(obj) = Message(o)
<1>1. FieldsOf(o.id) = Fields[o.id]
  BY WritesFacts
<1>2. ASSUME NEW i \in DOMAIN Fields[o.id], NEW d, NEW v, NEW w,
             d = Fields[o.id][i], v = o.f[d.name], w = obj.f[d.name]
      PROVE  Put(d, w) = Put(d, v) /\ Frames(d, w) = Frames(d, v)
  <2>1. Known(d) /\ v \in Value(d)
    BY <1>2, FieldOfObject
  <2>2. CASE d.type = "value"
    BY <2>2 DEF Put, Frames, Fixed
  <2>3. CASE d.type # "value"
    <3>1. w = Seen(d, v)
      BY <1>2, <2>3 DEF Received
    <3> QED
      BY <2>1, <2>3, <3>1, PutSeen
  <2> QED
    BY <2>2, <2>3
<1>3. OverFields(Put, obj) = OverFields(Put, o)
  BY <1>1, <1>2 DEF OverFields
<1>4. OverFields(Frames, obj) = OverFields(Frames, o)
  BY <1>1, <1>2 DEF OverFields
<1> QED
  BY <1>3, <1>4 DEF Message, FirstFrame

LEMMA ReplyEcho == IInv /\ EchoInv /\ Reply => EchoInv'
<1> SUFFICES ASSUME IInv, EchoInv, Reply PROVE EchoInv'
  OBVIOUS
<1>1. /\ UNCHANGED <<parser, rest, current, queue, out>>
      /\ pc = "idle" /\ replied' = [to |-> obj.routing_id, frames |-> Message(obj)]
  BY DEF Reply
<1>2. ASSUME NEW o, o = current.object, o # Null
      PROVE  replied'.to = Head(current.frames) /\ replied'.frames = Message(o)
  <2>1. Reading(o) /\ SendableObject(o)
    BY <1>2 DEF EchoInv, WasSent
  <2>2. /\ obj.routing_id = Head(current.frames) /\ obj.id = o.id
        /\ \A i \in DOMAIN Fields[o.id] : Received(o, i)
    BY <1>1, <2>1 DEF Reading
  <2> QED
    BY <1>1, <2>1, <2>2, MessageSeen
<1>3. EchoIsFaithful'
  BY <1>1, <1>2 DEF EchoIsFaithful
<1> QED
  BY <1>1, <1>3, ParserUnchanged DEF EchoInv

LEMMA BeginEcho == IInv /\ EchoInv /\ BeginRecv => EchoInv'
<1> SUFFICES ASSUME IInv, EchoInv, BeginRecv PROVE EchoInv'
  OBVIOUS
<1>1. /\ current' = Available /\ replied' = Null /\ out' = out
      /\ rest # <<>> \/ queue # <<>>
      /\ queue' = IF rest = <<>> THEN Tail(queue) ELSE queue
  BY DEF BeginRecv, sender
<1>2. EchoIsFaithful'
  BY <1>1 DEF EchoIsFaithful
<1>3. \A n \in Names : Sendable(FieldOf(n), out'.f[n])
  BY <1>1 DEF EchoInv
<1>4. PICK q \in Seq(Posted) : q = queue
  BY DEF IInv, SenderInv
<1>5. \A i \in 1..Len(q) : WasSent(q[i])
  BY <1>4 DEF EchoInv
<1>6. \A i \in 1..Len(queue') : WasSent(queue'[i])
  <2>1. CASE rest = <<>>
    <3>1. q # <<>> /\ queue' = Tail(q)
      BY <1>1, <1>4, <2>1
    <3>2. /\ Len(Tail(q)) = Len(q) - 1 /\ Len(q) \in Nat
          /\ \A i \in 1..Len(Tail(q)) : Tail(q)[i] = q[i + 1]
      BY <3>1
    <3>3. ASSUME NEW i \in 1..Len(Tail(q)) PROVE WasSent(Tail(q)[i])
      <4>1. i + 1 \in 1..Len(q)
        BY <3>2
      <4> QED
        BY <1>5, <3>2, <4>1
    <3> QED
      BY <3>1, <3>3
  <2>2. CASE rest # <<>>
    BY <1>1, <1>4, <1>5, <2>2
  <2> QED
    BY <2>1, <2>2
<1>7. WasSent(current')
  <2>1. CASE rest = <<>>
    <3>1. q # <<>> /\ current' = Head(q)
      BY <1>1, <1>4, <2>1 DEF Available
    <3>2. Head(q) = q[1] /\ 1 \in 1..Len(q)
      BY <3>1
    <3> QED
      BY <1>5, <3>1, <3>2
  <2>2. CASE rest # <<>>
    BY <1>1, <2>2 DEF Available, WasSent
  <2> QED
    BY <2>1, <2>2
<1>8. ASSUME NEW o, o = current'.object, o # Null PROVE Reading(o)'
  <2>1. PICK fs : fs = current'.frames
    OBVIOUS
  <2>2. /\ SendableObject(o) /\ Len(fs) > 1
        /\ SubSeq(fs, 3, Len(fs)) = OverFields(Frames, o)
    BY <1>7, <1>8, <2>1 DEF WasSent
  <2>3. PICK size \in Nat : fs[2] = Padded(FirstFrame(o), size)
    BY <1>7, <1>8, <2>1 DEF WasSent
  <2>4. /\ data' = fs[2] /\ rest' = OverFields(Frames, o) /\ pc' = "header"
        /\ at' = 1 /\ needle' = 0
        /\ obj' = [obj EXCEPT !.routing_id = Head(fs)]
    <3>1. fs = Available.frames
      BY <1>1, <2>1
    <3>2. Len(fs) # 1
      BY <2>2
    <3> QED
      BY <2>2, <3>1, <3>2 DEF BeginRecv
  <2>5. obj'.routing_id = Head(current'.frames)
    BY <2>1, <2>4 DEF IInv, ObjectInv
  <2>6. DataHolds(o)'
    BY <2>2, <2>3, <2>4, FirstFrameParts DEF DataHolds
  <2>7. RestHolds(o)'
    <3>1. Start(Follows(o), 0) = 0 /\ OverFields(Frames, o) \in Seq(String)
      BY <2>2, WritesFacts, StartFacts, RestOfMessage
    <3>2. PICK all \in Seq(String) : all = OverFields(Frames, o)
      BY <3>1
    <3>3. Len(all) = Len(all) - 0 /\ \A k \in 1..Len(all) : all[k] = all[0 + k]
      OBVIOUS
    <3>4. at' - 1 = 0 /\ rest' = all
      BY <2>4, <3>2
    <3>5. OverFields(Frames, o)' = all /\ Start(Follows(o), at' - 1) = 0
      BY <3>1, <3>2, <3>4
    <3> QED
      BY <3>3, <3>4, <3>5 DEF RestHolds
  <2> QED
    BY <2>4, <2>5, <2>6, <2>7 DEF Reading
<1> QED
  BY <1>2, <1>3, <1>6, <1>7, <1>8 DEF EchoInv

\* The other steps of recv read on.
LEMMA ReadEcho ==
    ASSUME IInv, EchoInv, Recv, ~ BeginRecv
    PROVE  /\ EchoInv'
           /\ current.object # Null /\ pc' = "idle" => rc' = 0
<1>1. UNCHANGED <<sender, queue, replied, current>>
  BY DEF Recv, ReadHeader, ReadNumber, ReadFixed, ReadText, BeginList, ReadItem,
         ReadFrame, EndRecv, InField
<1>2. ASSUME NEW o, o = current.object, o # Null
      PROVE  Reading(o)' /\ (pc' = "idle" => rc' = 0)
  <2>1. Reading(o) /\ SendableObject(o)
    BY <1>2 DEF EchoInv, WasSent
  <2> QED
    BY <2>1, HeaderEcho, NumberEcho, FixedEcho, TextEcho, BeginListEcho, ItemEcho,
       FrameEcho, EndEcho DEF Recv
<1>3. EchoIsFaithful'
  BY <1>1, FaithfulStays DEF EchoInv
<1>4. WasSent(current')
  BY <1>1 DEF EchoInv
<1>5. \A n \in Names : Sendable(FieldOf(n), out'.f[n])
  BY <1>1 DEF EchoInv, sender
<1>6. \A i \in 1..Len(queue') : WasSent(queue'[i])
  BY <1>1 DEF EchoInv
<1>7. EchoInv'
  BY <1>1, <1>2, <1>3, <1>4, <1>5, <1>6 DEF EchoInv
<1> QED
  BY <1>2, <1>7

LEMMA StepEcho == IInv /\ EchoInv /\ ObjectsSendable /\ [Next]_vars => EchoInv'
<1> SUFFICES ASSUME IInv, EchoInv, ObjectsSendable, [Next]_vars PROVE EchoInv'
  OBVIOUS
<1>1. CASE UNCHANGED vars
  <2>1. UNCHANGED <<parser, rest, current, replied, out, queue>>
    BY <1>1 DEF vars, sender
  <2>2. EchoIsFaithful'
    BY <2>1, FaithfulStays DEF EchoInv
  <2> QED
    BY <2>1, <2>2, ParserUnchanged DEF EchoInv
<1>2. CASE Take \/ Send \/ Encode \/ Reply \/ Stranger
  BY <1>2, TakeEcho, SendEcho, EncodeEcho, ReplyEcho, StrangerEcho
<1>3. CASE Recv
  BY <1>3, BeginEcho, ReadEcho, SMTT(30)
<1> QED
  BY <1>1, <1>2, <1>3 DEF Next

\* recv returns from a message that was sent only at its end.
LEMMA StepReturns ==
    ASSUME IInv, EchoInv, EchoInv', [Next]_vars, Returns, current.object # Null
    PROVE  LET o == current.object
           IN /\ rc' = 0 /\ obj'.id = o.id
              /\ obj'.routing_id = Head(current.frames)
              /\ \A i \in DOMAIN Fields[o.id] :
                   LET d == Fields[o.id][i]
                   IN d.type = "value" \/ obj'.f[d.name] = Seen(d, o.f[d.name])
              /\ rest' = <<>>
<1>1. Recv /\ ~ BeginRecv
  BY DEF Returns, Next, Take, Send, Encode, Reply, Stranger, vars, parser, BeginRecv
<1>2. rc' = 0 /\ current' = current
  <2>1. rc' = 0
    BY <1>1, ReadEcho DEF Returns
  <2>2. current' = current
    BY <1>1 DEF Recv, ReadHeader, ReadNumber, ReadFixed, ReadText, BeginList,
       ReadItem,
         ReadFrame, EndRecv, InField
  <2> QED
    BY <2>1, <2>2
<1>3. PICK o : o = current.object
  OBVIOUS
<1>4. Reading(o)'
  BY <1>2, <1>3 DEF EchoInv
<1>5. /\ obj'.routing_id = Head(current.frames) /\ obj'.id = o.id /\ rest' = <<>>
      /\ \A i \in DOMAIN Fields[o.id] : Received(o, i)'
  BY <1>2, <1>4 DEF Reading, Returns
<1> QED
  BY <1>2, <1>3, <1>5 DEF Received

-------------------------------------------------------------------------------
LEMMA EchoInvariance ==
    ASSUME ObjectsSendable
    PROVE  Spec => []EchoInv
<1>1. IInv /\ EchoInv /\ [Next]_vars => EchoInv'
  BY StepEcho
<1> QED
  BY <1>1, InitEcho, Invariance, PTL DEF Spec

\* What is sent back as it was received is what was sent, to the one who sent it, for
\* every protocol, every sequence of messages of others and whatever the two objects
\* held before, as long as what the application puts into its object fits the format:
\* zproto_example_send and zproto_example_recv.
THEOREM EchoFaithful ==
    ASSUME ObjectsSendable
    PROVE  Spec => []EchoIsFaithful
<1>1. EchoInv => EchoIsFaithful
  BY DEF EchoInv
<1> QED
  BY <1>1, EchoInvariance, PTL

\* On the same condition recv takes every message that was sent to its end, with 0 and
\* with every field as it was sent, and leaves the socket at the next message.
THEOREM MessagesGoRound ==
    ASSUME ObjectsSendable
    PROVE  Spec => RoundTrip
<1>1. ASSUME IInv, EchoInv, EchoInv', [Next]_vars
      PROVE  [Returns /\ current.object # Null =>
                LET o == current.object
                IN /\ rc' = 0 /\ obj'.id = o.id
                   /\ obj'.routing_id = Head(current.frames)
                   /\ \A i \in DOMAIN Fields[o.id] :
                        LET d == Fields[o.id][i]
                        IN d.type = "value" \/ obj'.f[d.name] = Seen(d, o.f[d.name])
                   /\ rest' = <<>>]_vars
  BY <1>1, StepReturns
<1> QED
  BY <1>1, Invariance, EchoInvariance, PTL DEF Spec, RoundTrip
===============================================================================
