--------------------------- MODULE ExampleObjectProofs ---------------------------
(***************************************************************************)
(* The memory behind the objects of ExampleObject: for every protocol,     *)
(* every number of objects and any order of calls each block has one       *)
(* owner.                                                                  *)
(***************************************************************************)
EXTENDS ExampleObject, FiniteSetTheorems, TLAPS

\* What new_zpl has left behind is still allocated, since nobody can free it.
LostStays == lost \subseteq Live

IInv == TypeOK /\ SoleOwner /\ LostStays

-------------------------------------------------------------------------------
\* Places

Contents == Values \cup {Null}

LEMMA PlaceFacts ==
    /\ "self" \notin Items
    /\ \A h \in Handles, n \in Items \cup {"self"} :
        <<h, n>> \in Parts(h) /\ <<h, n>> \in Places /\ <<h, n>> \notin Mine
    /\ \A h \in Handles : Parts(h) \subseteq Places /\ Parts(h) \cap Mine = {}
    /\ \A h, g \in Handles : h # g => Parts(h) \cap Parts(g) = {}
    /\ Mine \subseteq Places
    /\ \A n \in Loose : <<App, TypeOf[n]>> \in Mine
    /\ Given \subseteq Loose /\ Loose \subseteq Items
<1>1. "self" \notin Items
  BY ObjectConstants DEF Items
<1>2. App \notin Handles
  BY ObjectConstants
<1>3. \A h \in Handles, n \in Items \cup {"self"} :
        <<h, n>> \in Parts(h) /\ <<h, n>> \in Places /\ <<h, n>> \notin Mine
  BY <1>2 DEF Parts, Places, Mine
<1>4. \A h \in Handles : Parts(h) \subseteq Places /\ Parts(h) \cap Mine = {}
  BY <1>2 DEF Parts, Places, Mine
<1>5. \A h, g \in Handles : h # g => Parts(h) \cap Parts(g) = {}
  BY DEF Parts
<1>6. Mine \subseteq Places /\ \A n \in Loose : <<App, TypeOf[n]>> \in Mine
  BY DEF Places, Mine, ItemTypes
<1>7. Given \subseteq Loose /\ Loose \subseteq Items
  BY DEF Given, Loose, Owned
<1> QED
  BY <1>1, <1>3, <1>4, <1>5, <1>6, <1>7

\* malloc gives a block that is not in use, and a different one for each place.
LEMMA FreshFacts ==
    ASSUME NEW P, Room(P), NEW p \in P
    PROVE  /\ Fresh(p) \notin Live
           /\ Fresh(p)[1] = p
           /\ \E k \in Serials : Fresh(p) = <<p, k>>
<1>1. \E k \in Serials : <<p, k>> \notin Live
  BY DEF Room
<1> QED
  BY <1>1 DEF Fresh

LEMMA NullIsNoBlock ==
    ASSUME TypeOK PROVE Null \notin Live
  BY ObjectConstants DEF TypeOK

-------------------------------------------------------------------------------
\* Memory

MemoryTyped ==
    /\ at \in [Places -> (Places \X Serials) \cup {Null}]
    /\ Live \subseteq Places \X Serials
    /\ \A b \in Live : heap[b] \in Contents

\* Each object that has contents afterwards exists then.
KeepsOwners(P, F) ==
    \A h \in Handles :
        \/ <<h, "self">> \in F
        \/ Parts(h) \cap F = {} /\ (<<h, "self">> \notin P \/ Parts(h) \subseteq P)
        \/ <<h, "self">> \notin P /\ Exists(h)

\* To free what some places point to and allocate for others keeps the memory
\* sound, if no pointer to something else is overwritten.
LEMMA ReplaceInv ==
    ASSUME IInv, NEW P \in SUBSET Places, NEW fill, DOMAIN fill \subseteq Places,
           \A p \in DOMAIN fill : fill[p] \in Contents,
           \A p \in DOMAIN fill : p \in P \/ at[p] = Null,
           KeepsOwners(P, DOMAIN fill),
           Replace(P, fill), lost' = lost
    PROVE  MemoryTyped' /\ SoleOwner' /\ LostStays'
<1> DEFINE F == DOMAIN fill
<1> USE DEF Live
<1>1. /\ at \in [Places -> (Places \X Serials) \cup {Null}]
      /\ Live \subseteq Places \X Serials
      /\ \A b \in Live : heap[b] \in Contents
      /\ Null \notin Live /\ lost \subseteq Live
  BY NullIsNoBlock DEF IInv, TypeOK, Contents, LostStays
<1>2. \A p \in F : /\ Fresh(p) \notin Live /\ Fresh(p)[1] = p
                   /\ Fresh(p) \in Places \X Serials
  BY FreshFacts DEF Replace
<1>3. /\ DOMAIN at' = Places
      /\ \A p \in Places : at'[p] = IF p \in F THEN Fresh(p)
                                    ELSE IF p \in P THEN Null ELSE at[p]
  BY DEF Replace
<1>4. /\ Live' = (Live \ {at[p] : p \in P}) \cup {Fresh(p) : p \in F}
      /\ \A b \in Live' : heap'[b] = IF b \in Live THEN heap[b] ELSE fill[b[1]]
  BY DEF Replace, Heap, Blocks
<1>5. MemoryTyped'
  <2>1. at' \in [Places -> (Places \X Serials) \cup {Null}]
    <3>1. at' = [p \in Places |-> IF p \in F THEN Fresh(p)
                                  ELSE IF p \in P THEN Null ELSE at[p]]
      BY DEF Replace
    <3> QED
      BY <1>1, <1>2, <3>1
  <2>2. \A b \in Live' : heap'[b] \in Contents
    BY <1>1, <1>2, <1>4
  <2>3. Live' \subseteq Places \X Serials
    BY <1>1, <1>2, <1>4
  <2> QED
    BY <2>1, <2>2, <2>3 DEF MemoryTyped
<1>6. \A p \in Places : at[p] # Null =>
        at[p] \in Live \ lost /\ \A q \in Places \ {p} : at[q] # at[p]
  BY DEF IInv, SoleOwner
<1>7. \A p \in Places : at'[p] # Null => at'[p] \in Live' \ lost'
  <2> SUFFICES ASSUME NEW p \in Places, at'[p] # Null PROVE at'[p] \in Live' \ lost'
    OBVIOUS
  <2>1. CASE p \in F
    BY <2>1, <1>1, <1>2, <1>3, <1>4
  <2>2. CASE p \notin F
    <3>1. at'[p] = at[p] /\ p \notin P /\ at[p] # Null
      BY <2>2, <1>3
    <3>2. at[p] \notin {at[q] : q \in P}
      BY <3>1, <1>6
    <3> QED
      BY <3>1, <3>2, <1>4, <1>6
  <2> QED
    BY <2>1, <2>2
<1>8. \A p \in Places : at'[p] # Null => \A q \in Places \ {p} : at'[q] # at'[p]
  <2> SUFFICES ASSUME NEW p \in Places, at'[p] # Null, NEW q \in Places \ {p}, at'[q] = at'[p]
               PROVE FALSE
    OBVIOUS
  <2>1. CASE p \in F /\ q \in F
    BY <2>1, <1>2, <1>3
  <2>2. CASE p \in F /\ q \notin F
    BY <2>2, <1>2, <1>3, <1>6
  <2>3. CASE p \notin F /\ q \in F
    BY <2>3, <1>2, <1>3, <1>6
  <2>4. CASE p \notin F /\ q \notin F
    BY <2>4, <1>3, <1>6
  <2> QED
    BY <2>1, <2>2, <2>3, <2>4
<1>9. \A b \in Live' : b \in lost' \/ \E p \in Places : at'[p] = b
  <2> SUFFICES ASSUME NEW b \in Live', b \notin lost PROVE \E p \in Places : at'[p] = b
    OBVIOUS
  <2>1. CASE b \in {Fresh(p) : p \in F}
    BY <2>1, <1>3
  <2>2. CASE b \in Live \ {at[p] : p \in P}
    <3>1. PICK p \in Places : at[p] = b
      BY <2>2 DEF IInv, SoleOwner
    <3>2. p \notin P /\ p \notin F
      BY <2>2, <3>1, <1>1
    <3> QED
      BY <3>1, <3>2, <1>3
  <2> QED
    BY <2>1, <2>2, <1>4
<1>10. LostStays'
  <2>1. \A p \in P : at[p] \notin lost
    BY <1>1, <1>6
  <2> QED
    BY <2>1, <1>1, <1>4 DEF LostStays
<1>11. \A h \in Handles : ~ Exists(h)' => \A p \in Parts(h) : at'[p] = Null
  <2> SUFFICES ASSUME NEW h \in Handles, at'[<<h, "self">>] = Null, NEW p \in Parts(h)
               PROVE  at'[p] = Null
    BY DEF Exists
  <2>1. <<h, "self">> \in Places /\ p \in Places
    BY PlaceFacts
  <2>2. <<h, "self">> \notin F
    BY <2>1, <1>2, <1>3, ObjectConstants
  <2>3. ~ (<<h, "self">> \notin P /\ Exists(h))
    BY <2>1, <2>2, <1>3 DEF Exists
  <2>4. p \notin F /\ (<<h, "self">> \notin P \/ Parts(h) \subseteq P)
    BY <2>2, <2>3 DEF KeepsOwners
  <2>5. p \in P \/ ~ Exists(h)
    BY <2>3, <2>4
  <2>6. ~ Exists(h) => at[p] = Null
    BY DEF IInv, SoleOwner
  <2> QED
    BY <2>1, <2>4, <2>5, <2>6, <1>3
<1> QED
  BY <1>5, <1>7, <1>8, <1>9, <1>10, <1>11 DEF SoleOwner

\* To hand an item over keeps it sound.
LEMMA MoveInv ==
    ASSUME IInv, NEW p \in Places, NEW q \in Places, p # q,
           \A h \in Handles : <<h, "self">> \notin {p, q} /\ (q \in Parts(h) => Exists(h)),
           Move(p, q), lost' = lost
    PROVE  MemoryTyped' /\ SoleOwner' /\ LostStays'
<1> USE DEF Live
<1>1. /\ at \in [Places -> (Places \X Serials) \cup {Null}]
      /\ Live \subseteq Places \X Serials
      /\ \A b \in Live : heap[b] \in Contents
      /\ Null \notin Live /\ lost \subseteq Live
  BY NullIsNoBlock DEF IInv, TypeOK, Contents, LostStays
<1>2. /\ at' \in [Places -> (Places \X Serials) \cup {Null}]
      /\ \A r \in Places : at'[r] = IF r = p THEN Null ELSE IF r = q THEN at[p] ELSE at[r]
  BY <1>1 DEF Move
<1>3. /\ Live' = Live \ {at[q]}
      /\ \A b \in Live' : heap'[b] = heap[b]
  BY DEF Move, Heap, Blocks, Nothing
<1>4. \A r \in Places : at[r] # Null =>
        at[r] \in Live \ lost /\ \A s \in Places \ {r} : at[s] # at[r]
  BY DEF IInv, SoleOwner
<1>5. MemoryTyped'
  BY <1>1, <1>2, <1>3 DEF MemoryTyped
<1>6. \A r \in Places : at'[r] # Null =>
        at'[r] \in Live' \ lost' /\ \A s \in Places \ {r} : at'[s] # at'[r]
  BY <1>2, <1>3, <1>4
<1>7. \A b \in Live' : b \in lost' \/ \E r \in Places : at'[r] = b
  <2> SUFFICES ASSUME NEW b \in Live', b \notin lost PROVE \E r \in Places : at'[r] = b
    OBVIOUS
  <2>1. PICK r \in Places : at[r] = b
    BY <1>3 DEF IInv, SoleOwner
  <2> QED
    BY <2>1, <1>2, <1>3
<1>8. LostStays'
  BY <1>1, <1>3, <1>4 DEF LostStays
<1>9. \A h \in Handles : ~ Exists(h)' => \A r \in Parts(h) : at'[r] = Null
  <2> SUFFICES ASSUME NEW h \in Handles, at'[<<h, "self">>] = Null, NEW r \in Parts(h)
               PROVE  at'[r] = Null
    BY DEF Exists
  <2>1. <<h, "self">> \in Places /\ r \in Places
    BY PlaceFacts
  <2>2. ~ Exists(h)
    BY <2>1, <1>2 DEF Exists
  <2>3. at[r] = Null /\ r # q
    BY <2>2 DEF IInv, SoleOwner
  <2> QED
    BY <2>1, <2>3, <1>2
<1> QED
  BY <1>5, <1>6, <1>7, <1>8, <1>9 DEF SoleOwner

\* A new object and its items.
LEMMA ObjectWithFacts ==
    ASSUME NEW h, NEW f, "self" \notin DOMAIN f
    PROVE  /\ DOMAIN ObjectWith(h, f) = {<<h, n>> : n \in DOMAIN f \cup {"self"}}
           /\ ObjectWith(h, f)[<<h, "self">>] = Null
           /\ \A n \in DOMAIN f : ObjectWith(h, f)[<<h, n>>] = f[n]
  BY DEF ObjectWith

\* Types of fields.
LEMMA FieldFacts ==
    /\ TypeOf["routing_id"] = "frame"
    /\ \A n \in Items : TypeOf[n] # "number"
    /\ \A i \in Ids : NamesOf(i) \subseteq Names
    /\ NamesOf(0) = {}
    /\ Items \cup Inlines = Names \cup {"routing_id"}
    /\ Items \cap Inlines = {}
<1>1. TypeOf["routing_id"] = "frame"
  BY DEF TypeOf
<1>2. \A n \in Items : TypeOf[n] # "number"
  BY <1>1 DEF Items, Inlines, Inline
<1>3. \A i \in Ids : NamesOf(i) \subseteq Names
  BY DEF Names
<1>4. NamesOf(0) = {}
  BY ObjectConstants DEF NamesOf, FieldsOf
<1>5. Items \cap Inlines = {} /\ Items \cup Inlines = Names \cup {"routing_id"}
  BY ObjectConstants DEF Items, Inlines
<1> QED
  BY <1>1, <1>2, <1>3, <1>4, <1>5

LEMMA GetType ==
    ASSUME TypeOK, NEW p
    PROVE  Get(p) \in Contents
  BY DEF TypeOK, Get, Contents

\* A value that is put in a field fits it.
InlineVals == Values0 \cup 0..(Width - 1)
Fits(n, v) == v \in InlineVals /\ (TypeOf[n] = "number" => v < Width)

LEMMA InlineNat == InlineVals \subseteq Nat /\ Width \in Nat \ {0}
<1>1. Values \subseteq Nat /\ Width \in Nat \ {0}
  BY ObjectConstants
<1> QED
  BY <1>1 DEF InlineVals, Values0

LEMMA FitFits ==
    ASSUME NEW n, NEW v, v \in InlineVals \/ (TypeOf[n] = "number" /\ v \in Nat)
    PROVE  Fits(n, Fit(n, v))
<1>1. v \in Nat /\ Width \in Nat \ {0}
  BY InlineNat
<1>2. v % Width \in 0..(Width - 1) /\ v % Width < Width
  BY <1>1
<1> QED
  BY <1>1, <1>2 DEF Fit, Fits, InlineVals

\* The parts of TypeOK that are not about memory, and how it all comes together.
ObjectsTyped ==
    /\ id \in [Handles -> Ids \cup {0}]
    /\ val \in [Handles -> [Inlines -> InlineVals]]
    /\ \A h \in Handles, n \in Inlines : TypeOf[n] = "number" => val[h][n] < Width
    /\ up \in BOOLEAN

LEMMA Parted == IInv => MemoryTyped /\ SoleOwner /\ LostStays /\ ObjectsTyped
  BY DEF IInv, TypeOK, MemoryTyped, ObjectsTyped, InlineVals, Contents

LEMMA Joined ==
    ASSUME MemoryTyped', SoleOwner', LostStays', ObjectsTyped'
    PROVE  IInv'
<1>1. lost' \subseteq Places \X Serials
  BY DEF MemoryTyped, LostStays
<1> QED
  BY <1>1 DEF IInv, TypeOK, MemoryTyped, ObjectsTyped, InlineVals, Contents

\* A new object with its items.
LEMMA CreateInv ==
    ASSUME IInv, NEW h \in Handles, ~ Exists(h), NEW f, DOMAIN f \subseteq Items,
           \A n \in DOMAIN f : f[n] \in Contents,
           Replace({}, ObjectWith(h, f)), lost' = lost
    PROVE  MemoryTyped' /\ SoleOwner' /\ LostStays'
<1> DEFINE fill == ObjectWith(h, f)
<1>1. /\ DOMAIN fill = {<<h, n>> : n \in DOMAIN f \cup {"self"}}
      /\ fill[<<h, "self">>] = Null
      /\ \A n \in DOMAIN f : fill[<<h, n>>] = f[n]
  <2>1. "self" \notin DOMAIN f
    BY PlaceFacts
  <2> QED
    BY <2>1, ObjectWithFacts
<1>2. DOMAIN fill \subseteq Parts(h) /\ DOMAIN fill \subseteq Places
  BY <1>1, PlaceFacts
<1>3. \A p \in DOMAIN fill : fill[p] \in Contents
  BY <1>1 DEF Contents
<1>4. \A p \in DOMAIN fill : at[p] = Null
  BY <1>2 DEF IInv, SoleOwner
<1>5. KeepsOwners({}, DOMAIN fill)
  BY <1>1, <1>2, PlaceFacts DEF KeepsOwners
<1> HIDE DEF fill
<1>6. Replace({}, fill)
  BY DEF fill
<1> QED
  BY <1>2, <1>3, <1>4, <1>5, <1>6, ReplaceInv

\* One value in place of another.
LEMMA PutInv ==
    ASSUME IInv, NEW p \in Places, \A h \in Handles : p # <<h, "self">>,
           \A h \in Handles : p \in Parts(h) => Exists(h),
           NEW v \in Contents, NEW P \in SUBSET {p}, p \in P \/ at[p] = Null,
           Replace(P, One(p, v)), lost' = lost
    PROVE  MemoryTyped' /\ SoleOwner' /\ LostStays'
<1>1. DOMAIN One(p, v) = {p} /\ One(p, v)[p] = v
  BY DEF One
<1>2. KeepsOwners(P, {p})
  BY DEF KeepsOwners
<1> DEFINE fill == One(p, v)
<1>3. Replace(P, fill) /\ DOMAIN fill = {p} /\ fill[p] = v
  BY <1>1
<1> HIDE DEF fill
<1> QED
  BY <1>2, <1>3, ReplaceInv

LEMMA ClearInv ==
    ASSUME IInv, NEW P \in SUBSET Places,
           KeepsOwners(P, {}), Replace(P, Nothing), lost' = lost
    PROVE  MemoryTyped' /\ SoleOwner' /\ LostStays'
<1> DEFINE fill == Nothing
<1>1. Replace(P, fill) /\ DOMAIN fill = {}
  BY DEF Nothing
<1> HIDE DEF fill
<1> QED
  BY <1>1, ReplaceInv

-------------------------------------------------------------------------------
\* The application's own items

LEMMA MakeInv == ASSUME IInv, Make PROVE IInv'
<1>1. PICK p \in Mine \ Holds, v \in Values : Replace({}, One(p, v))
  BY DEF Make
<1>2. /\ p \in Places /\ at[p] = Null /\ v \in Contents
      /\ \A h \in Handles : p \notin Parts(h) /\ p # <<h, "self">>
  BY <1>1, PlaceFacts DEF Holds, Contents
<1>3. MemoryTyped' /\ SoleOwner' /\ LostStays'
  BY <1>1, <1>2, PutInv DEF Make
<1>4. ObjectsTyped'
  BY Parted DEF Make, ObjectsTyped
<1> QED
  BY <1>3, <1>4, Joined

LEMMA DropInv == ASSUME IInv, Drop PROVE IInv'
<1>1. PICK p \in Holds : Replace({p}, Nothing)
  BY DEF Drop
<1>2. p \in Mine /\ p \in Places
  BY <1>1, PlaceFacts DEF Holds
<1>3. KeepsOwners({p}, {})
  BY <1>2, PlaceFacts DEF KeepsOwners
<1>4. MemoryTyped' /\ SoleOwner' /\ LostStays'
  BY <1>1, <1>2, <1>3, ClearInv DEF Drop
<1>5. ObjectsTyped'
  BY Parted DEF Drop, ObjectsTyped
<1> QED
  BY <1>4, <1>5, Joined

LEMMA EditInv == ASSUME IInv, NEW h \in Handles, Edit(h) PROVE IInv'
<1>1. PICK n \in Loose, v \in Values : heap' = [heap EXCEPT ![at[<<h, n>>]] = v]
  BY DEF Edit
<1>2. Live' = Live /\ \A b \in Live : heap'[b] = heap[b] \/ heap'[b] = v
  BY <1>1 DEF Live
<1>3. at' = at /\ lost' = lost
  BY DEF Edit
<1>4. MemoryTyped' /\ LostStays'
  BY <1>2, <1>3, Parted DEF MemoryTyped, LostStays, Contents
<1>5. SoleOwner'
  BY <1>2, <1>3, Parted DEF SoleOwner, Exists
<1>6. ObjectsTyped'
  BY Parted DEF Edit, ObjectsTyped
<1> QED
  BY <1>4, <1>5, <1>6, Joined

-------------------------------------------------------------------------------
\* Objects

LEMMA NewInv == ASSUME IInv, NEW h \in Handles, New(h) PROVE IInv'
<1>1. DOMAIN Nothing \subseteq Items /\ \A n \in DOMAIN Nothing : Nothing[n] \in Contents
  BY DEF Nothing
<1>2. MemoryTyped' /\ SoleOwner' /\ LostStays'
  BY <1>1, CreateInv DEF New
<1>3. ObjectsTyped'
  BY Parted DEF New, ObjectsTyped
<1> QED
  BY <1>2, <1>3, Joined

LEMMA BlankType == Blank \in [Inlines -> InlineVals]
                   /\ \A n \in Inlines : Blank[n] = 0 /\ 0 < Width
  BY ObjectConstants DEF Blank, InlineVals, Values0

LEMMA DestroyInv == ASSUME IInv, NEW h \in Handles, Destroy(h) PROVE IInv'
<1>1. KeepsOwners(Parts(h), {})
  BY PlaceFacts DEF KeepsOwners
<1>2. Parts(h) \in SUBSET Places
  BY PlaceFacts
<1>3. MemoryTyped' /\ SoleOwner' /\ LostStays'
  BY <1>1, <1>2, ClearInv DEF Destroy
<1>4. ObjectsTyped'
  BY Parted, BlankType DEF Destroy, ObjectsTyped
<1> QED
  BY <1>3, <1>4, Joined

LEMMA DupInv ==
    ASSUME IInv, NEW h \in Handles, NEW g \in Handles, Dup(h, g)
    PROVE  IInv'
<1> DEFINE f == [n \in Copied(h) |-> Get(<<h, n>>)]
<1>1. DOMAIN f \subseteq Items /\ \A n \in DOMAIN f : f[n] \in Contents
  BY GetType DEF IInv, Copied
<1>2. ~ Exists(g) /\ Replace({}, ObjectWith(g, f)) /\ lost' = lost
  BY DEF Dup
<1> HIDE DEF f
<1>3. MemoryTyped' /\ SoleOwner' /\ LostStays'
  BY <1>1, <1>2, CreateInv
<1>4. ObjectsTyped'
  <2> DEFINE w == [n \in Inlines |-> IF TypeOf[n] = "octets" THEN 0 ELSE val[h][n]]
  <2>1. w \in [Inlines -> InlineVals]
        /\ \A n \in Inlines : TypeOf[n] = "number" => w[n] < Width
    BY Parted, BlankType DEF ObjectsTyped, InlineVals, Values0
  <2>2. val' = [val EXCEPT ![g] = w] /\ id' = [id EXCEPT ![g] = id[h]] /\ up' = up
    BY DEF Dup
  <2> HIDE DEF w
  <2> QED
    BY <2>1, <2>2, Parted DEF ObjectsTyped
<1> QED
  BY <1>3, <1>4, Joined

LEMMA SetIdInv == ASSUME IInv, NEW h \in Handles, SetId(h) PROVE IInv'
<1>1. MemoryTyped' /\ SoleOwner' /\ LostStays'
  BY Parted DEF SetId, MemoryTyped, SoleOwner, LostStays, Exists, Live
<1>2. ObjectsTyped'
  BY Parted DEF SetId, ObjectsTyped
<1> QED
  BY <1>1, <1>2, Joined

LEMMA SetInlineInv == ASSUME IInv, NEW h \in Handles, SetInline(h) PROVE IInv'
<1>1. MemoryTyped' /\ SoleOwner' /\ LostStays'
  BY Parted DEF SetInline, MemoryTyped, SoleOwner, LostStays, Exists, Live
<1>2. PICK n \in Inlines, v \in Values0 : val' = [val EXCEPT ![h][n] = Fit(n, v)]
  BY DEF SetInline
<1>3. Fits(n, Fit(n, v))
  <2>1. v \in InlineVals
    BY DEF InlineVals
  <2> QED
    BY <2>1, FitFits
<1>4. ObjectsTyped'
  BY <1>2, <1>3, Parted DEF SetInline, ObjectsTyped, Fits
<1> QED
  BY <1>1, <1>4, Joined

LEMMA SetCopyInv == ASSUME IInv, NEW h \in Handles, SetCopy(h) PROVE IInv'
<1>1. PICK n \in Items \ Given :
        \E v \in IF TypeOf[n] = "longstr" THEN Values ELSE {Get(<<App, TypeOf[n]>>)} :
            Replace({<<h, n>>}, IF v = Null THEN Nothing ELSE One(<<h, n>>, v))
  BY DEF SetCopy
<1>2. PICK v \in IF TypeOf[n] = "longstr" THEN Values ELSE {Get(<<App, TypeOf[n]>>)} :
        Replace({<<h, n>>}, IF v = Null THEN Nothing ELSE One(<<h, n>>, v))
  BY <1>1
<1>3. v \in Contents
  BY GetType DEF IInv, Contents
<1>4. /\ <<h, n>> \in Places /\ n # "self"
      /\ \A g \in Handles : <<h, n>> # <<g, "self">>
      /\ \A g \in Handles : <<h, n>> \in Parts(g) => g = h
  BY PlaceFacts DEF Parts
<1>5. Exists(h) /\ lost' = lost
  BY DEF SetCopy
<1>6. MemoryTyped' /\ SoleOwner' /\ LostStays'
  <2>1. CASE v = Null
    <3>1. Replace({<<h, n>>}, Nothing) /\ KeepsOwners({<<h, n>>}, {})
      BY <1>2, <1>4, <2>1 DEF KeepsOwners
    <3> QED
      BY <3>1, <1>4, <1>5, ClearInv
  <2>2. CASE v # Null
    <3>1. Replace({<<h, n>>}, One(<<h, n>>, v))
      BY <1>2, <2>2
    <3> QED
      BY <3>1, <1>3, <1>4, <1>5, PutInv
  <2> QED
    BY <2>1, <2>2
<1>7. ObjectsTyped'
  BY Parted DEF SetCopy, ObjectsTyped
<1> QED
  BY <1>6, <1>7, Joined

\* Between an object and the application, in either direction.
LEMMA HandOverInv ==
    ASSUME IInv, NEW h \in Handles, Exists(h), NEW n \in Loose, lost' = lost,
           \/ Move(<<App, TypeOf[n]>>, <<h, n>>)
           \/ Move(<<h, n>>, <<App, TypeOf[n]>>)
    PROVE  MemoryTyped' /\ SoleOwner' /\ LostStays'
<1> DEFINE p == <<App, TypeOf[n]>>
           q == <<h, n>>
<1>1. p \in Places /\ q \in Places /\ p # q
  BY PlaceFacts
<1>2. /\ \A g \in Handles : <<g, "self">> \notin {p, q}
      /\ \A g \in Handles : p \notin Parts(g)
      /\ \A g \in Handles : q \in Parts(g) => Exists(g)
  BY PlaceFacts DEF Parts
<1>3. Move(p, q) \/ Move(q, p)
  OBVIOUS
<1> HIDE DEF p, q
<1> QED
  BY <1>1, <1>2, <1>3, MoveInv

LEMMA SetOwnInv == ASSUME IInv, NEW h \in Handles, SetOwn(h) PROVE IInv'
<1>1. PICK n \in Given : Move(<<App, TypeOf[n]>>, <<h, n>>)
  BY DEF SetOwn
<1>2. n \in Loose
  BY PlaceFacts
<1>3. MemoryTyped' /\ SoleOwner' /\ LostStays'
  BY <1>1, <1>2, HandOverInv DEF SetOwn
<1>4. ObjectsTyped'
  BY Parted DEF SetOwn, ObjectsTyped
<1> QED
  BY <1>3, <1>4, Joined

LEMMA TakeInv == ASSUME IInv, NEW h \in Handles, Take(h) PROVE IInv'
<1>1. PICK n \in Loose : Move(<<h, n>>, <<App, TypeOf[n]>>)
  BY DEF Take
<1>2. MemoryTyped' /\ SoleOwner' /\ LostStays'
  BY <1>1, HandOverInv DEF Take
<1>3. ObjectsTyped'
  BY Parted DEF Take, ObjectsTyped
<1> QED
  BY <1>2, <1>3, Joined

LEMMA RecvInv == ASSUME IInv, NEW h \in Handles, Recv(h) PROVE IInv'
<1>1. PICK i \in Ids \cup {0, id[h]}, v \in Values, from \in SUBSET {"routing_id"} :
       \E k \in 0..Len(FieldsOf(i)) :
        LET read  == {FieldsOf(i)[j].name : j \in 1..k}
            items == {<<h, n>> : n \in (read \cup from) \cap Items}
        IN /\ Replace(items, [p \in items |-> v])
           /\ id' = [id EXCEPT ![h] = i]
           /\ val' = [val EXCEPT ![h] = [n \in Inlines |->
                        IF n \in read THEN Fit(n, v) ELSE val[h][n]]]
  BY DEF Recv
<1>2. PICK read : \E N \in SUBSET Items : LET items == {<<h, n>> : n \in N} IN
           /\ Replace(items, [p \in items |-> v])
           /\ id' = [id EXCEPT ![h] = i]
           /\ val' = [val EXCEPT ![h] = [n \in Inlines |->
                        IF n \in read THEN Fit(n, v) ELSE val[h][n]]]
  <2>1. PICK k \in 0..Len(FieldsOf(i)) :
        LET r     == {FieldsOf(i)[j].name : j \in 1..k}
            items == {<<h, n>> : n \in (r \cup from) \cap Items}
        IN /\ Replace(items, [p \in items |-> v])
           /\ id' = [id EXCEPT ![h] = i]
           /\ val' = [val EXCEPT ![h] = [n \in Inlines |->
                        IF n \in r THEN Fit(n, v) ELSE val[h][n]]]
    BY <1>1
  <2> DEFINE r == {FieldsOf(i)[j].name : j \in 1..k}
             N == (r \cup from) \cap Items
  <2>2. N \in SUBSET Items
    OBVIOUS
  <2> QED
    BY <2>1, <2>2
<1>3. PICK N \in SUBSET Items : LET items == {<<h, n>> : n \in N} IN
           /\ Replace(items, [p \in items |-> v])
           /\ id' = [id EXCEPT ![h] = i]
           /\ val' = [val EXCEPT ![h] = [n \in Inlines |->
                        IF n \in read THEN Fit(n, v) ELSE val[h][n]]]
  BY <1>2
<1> DEFINE P == {<<h, n>> : n \in N}
           fill == [p \in P |-> v]
<1>4. Exists(h) /\ lost' = lost /\ up' = up
  BY DEF Recv
<1>5. P \in SUBSET Places /\ P \subseteq Parts(h)
  BY PlaceFacts
<1>6. DOMAIN fill = P /\ \A p \in DOMAIN fill : fill[p] \in Contents
  BY DEF Contents
<1>7. KeepsOwners(P, P)
  <2>1. <<h, "self">> \notin P
    BY PlaceFacts
  <2> QED
    BY <2>1, <1>4, <1>5, PlaceFacts DEF KeepsOwners
<1>8. Replace(P, fill)
  BY <1>3
<1>9. MemoryTyped' /\ SoleOwner' /\ LostStays'
  <2> HIDE DEF P, fill
  <2> QED
    BY <1>4, <1>5, <1>6, <1>7, <1>8, ReplaceInv
<1>10. ObjectsTyped'
  <2> DEFINE w == [n \in Inlines |-> IF n \in read THEN Fit(n, v) ELSE val[h][n]]
  <2>1. \A n \in Inlines : Fits(n, Fit(n, v))
    <3>1. v \in InlineVals
      BY DEF InlineVals, Values0
    <3> QED
      BY <3>1, FitFits
  <2>2. w \in [Inlines -> InlineVals]
        /\ \A n \in Inlines : TypeOf[n] = "number" => w[n] < Width
    BY <2>1, Parted DEF ObjectsTyped, Fits
  <2>3. i \in Ids \cup {0}
    BY Parted DEF ObjectsTyped
  <2>4. val' = [val EXCEPT ![h] = w] /\ id' = [id EXCEPT ![h] = i]
    BY <1>3
  <2> HIDE DEF w
  <2> QED
    BY <2>2, <2>3, <2>4, <1>4, Parted DEF ObjectsTyped
<1> QED
  BY <1>9, <1>10, Joined

-------------------------------------------------------------------------------
\* ZPL

LEMMA AbortInv == ASSUME Abort PROVE IInv'
<1>1. /\ at' = [p \in Places |-> Null] /\ Live' = {} /\ lost' = {}
  BY DEF Abort, Unset, Nothing, Live
<1>2. MemoryTyped' /\ LostStays'
  BY <1>1 DEF MemoryTyped, LostStays
<1>3. SoleOwner'
  <2>1. \A h \in Handles : Parts(h) \subseteq Places
    BY PlaceFacts
  <2> QED
    BY <1>1, <2>1 DEF SoleOwner
<1>4. ObjectsTyped'
  BY BlankType DEF Abort, ObjectsTyped
<1> QED
  BY <1>2, <1>3, <1>4, Joined

\* Entries of a configuration that was exported and edited.
EntryType(n, e) ==
    \/ e \in {Null, Bad, Odd}
    \/ n \in Items /\ e \in Values
    \/ n \in Inlines /\ (e \in InlineVals \/ (TypeOf[n] = "number" /\ e \in Nat))

LEMMA EditsType ==
    ASSUME IInv, NEW g \in Handles, id[g] \in Ids, NEW c \in Edits(Exported(g))
    PROVE  /\ c.id = id[g]
           /\ DOMAIN c.f = NamesOf(id[g]) \cup {"routing_id"}
           /\ DOMAIN c.f \subseteq Names \cup {"routing_id"}
           /\ \A n \in DOMAIN c.f : EntryType(n, c.f[n])
<1> DEFINE d == Exported(g)
           D == NamesOf(id[g]) \cup {"routing_id"}
<1>1. d = [id |-> id[g], f |-> [n \in D |-> Seen(g)[n]]]
  BY DEF Exported
<1>2. D \subseteq Names \cup {"routing_id"}
  BY FieldFacts
<1>3. \A n \in D : IF n \in Inlines THEN d.f[n] \in InlineVals ELSE n \in Items /\ d.f[n] \in Contents
  <2> SUFFICES ASSUME NEW n \in D
               PROVE  IF n \in Inlines THEN d.f[n] \in InlineVals
                      ELSE n \in Items /\ d.f[n] \in Contents
    OBVIOUS
  <2>1. d.f[n] = IF n \in Inlines THEN val[g][n] ELSE Get(<<g, n>>)
    BY <1>1, <1>2 DEF Seen
  <2>2. Get(<<g, n>>) \in Contents
    BY GetType DEF IInv
  <2>3. n \in Inlines => val[g][n] \in InlineVals
    BY Parted DEF ObjectsTyped
  <2> QED
    BY <1>2, <2>1, <2>2, <2>3, FieldFacts
<1> HIDE DEF d
<1>4. \A n \in D : EntryType(n, d.f[n])
  BY <1>3 DEF EntryType, Contents
<1>5. \/ c = d
      \/ \E n \in D, e \in {Null, Bad, Odd} : c = [d EXCEPT !.f[n] = e]
      \/ \E n \in D : TypeOf[n] = "number" /\ c = [d EXCEPT !.f[n] = @ + Width]
  <2>1. DOMAIN d.f = D
    BY <1>1
  <2> QED
    BY <2>1 DEF Edits, d
<1>6. CASE c = d
  BY <1>1, <1>2, <1>4, <1>6
<1>7. CASE \E n \in D, e \in {Null, Bad, Odd} : c = [d EXCEPT !.f[n] = e]
  <2>1. PICK m \in D, e \in {Null, Bad, Odd} : c = [d EXCEPT !.f[m] = e]
    BY <1>7
  <2>2. c.id = id[g] /\ c.f = [d.f EXCEPT ![m] = e]
    BY <1>1, <2>1
  <2>3. DOMAIN c.f = D /\ \A n \in D : c.f[n] = IF n = m THEN e ELSE d.f[n]
    BY <1>1, <2>2
  <2> QED
    BY <1>2, <1>4, <2>2, <2>3 DEF EntryType
<1>8. CASE \E n \in D : TypeOf[n] = "number" /\ c = [d EXCEPT !.f[n] = @ + Width]
  <2>1. PICK m \in D : TypeOf[m] = "number" /\ c = [d EXCEPT !.f[m] = @ + Width]
    BY <1>8
  <2>2. c.id = id[g] /\ c.f = [d.f EXCEPT ![m] = d.f[m] + Width]
    BY <1>1, <2>1
  <2>3. DOMAIN c.f = D /\ \A n \in D : c.f[n] = IF n = m THEN d.f[m] + Width ELSE d.f[n]
    BY <1>1, <2>2
  <2>4. m \in Inlines /\ d.f[m] \in InlineVals
    BY <1>3, <2>1, FieldFacts
  <2>5. d.f[m] + Width \in Nat
    <3>1. d.f[m] \in Nat
      BY <2>4, InlineNat
    <3> QED
      BY <3>1, InlineNat
  <2>6. TypeOf[m] = "number" /\ d.f[m] + Width \in Nat
    BY <2>1, <2>5
  <2> QED
    BY <1>2, <1>4, <2>2, <2>3, <2>4, <2>6 DEF EntryType
<1> QED
  BY <1>5, <1>6, <1>7, <1>8

\* The fields that are read before an entry are fields of the configuration.
LEMMA BeforeInside ==
    ASSUME NEW c, c.id \in Ids, DOMAIN c.f = NamesOf(c.id) \cup {"routing_id"},
           NEW n \in DOMAIN c.f
    PROVE  Before(c, n) \subseteq DOMAIN c.f
<1> DEFINE L == Len(FieldsOf(c.id))
<1>1. FieldsOf(c.id) \in Seq(Range(FieldsOf(c.id)))
  BY ObjectConstants DEF FieldsOf
<1>2. L \in Nat /\ DOMAIN FieldsOf(c.id) = 1..L
  BY <1>1
<1>3. DOMAIN Order(c.id) = 0..L
  BY DEF Order
<1>4. \A j \in 0..L : Order(c.id)[j] \in DOMAIN c.f
  BY <1>2 DEF Order, NamesOf
<1>5. \E j \in 0..L : Order(c.id)[j] = n
  <2>1. CASE n = "routing_id"
    BY <2>1, <1>2 DEF Order
  <2>2. CASE n \in NamesOf(c.id)
    <3>1. PICK j \in 1..L : FieldsOf(c.id)[j].name = n
      BY <2>2, <1>2 DEF NamesOf
    <3>2. j \in 0..L /\ j # 0
      BY <1>2
    <3> QED
      BY <3>1, <3>2 DEF Order
  <2> QED
    BY <2>1, <2>2
<1>6. PICK k \in 0..L : Before(c, n) = {Order(c.id)[j] : j \in 0..(k - 1)}
  BY <1>3, <1>5 DEF Before
<1>7. 0..(k - 1) \subseteq 0..L
  BY <1>2
<1> QED
  BY <1>4, <1>6, <1>7

\* What new_zpl builds from such a configuration.
LEMMA BuiltType ==
    ASSUME NEW c, NEW N, N \subseteq DOMAIN c.f, NEW any \in Values,
           \A n \in DOMAIN c.f : EntryType(n, c.f[n]),
           NEW n \in N \cap Items, c.f[n] # Null
    PROVE  Value(n, c.f[n], any) \in Contents
<1>1. c.f[n] \in {Bad, Odd} \/ c.f[n] \in Values
  BY FieldFacts DEF EntryType
<1>2. \A v : Fit(n, v) = v
  BY FieldFacts DEF Fit
<1> QED
  BY <1>1, <1>2 DEF Value, Contents

LEMMA ImportInv ==
    ASSUME IInv, NEW h \in Handles, ~ Exists(h), NEW g \in Handles, id[g] \in Ids,
           NEW c \in Edits(Exported(g)), NEW any \in Values, Import(h, c, any)
    PROVE  IInv'
<1>1. /\ c.id = id[g]
      /\ \A n \in DOMAIN c.f : EntryType(n, c.f[n])
  BY EditsType
<1> DEFINE f == [n \in {m \in DOMAIN c.f \cap Items : c.f[m] # Null} |->
                    Value(n, c.f[n], any)]
           w == [n \in Inlines |-> IF n \in DOMAIN c.f THEN Value(n, c.f[n], any) ELSE 0]
<1>2. DOMAIN f \subseteq Items /\ \A n \in DOMAIN f : f[n] \in Contents
  BY <1>1, BuiltType
<1>3. Replace({}, ObjectWith(h, f)) /\ lost' = lost /\ up' = up
  BY DEF Import, Built
<1>4. w \in [Inlines -> InlineVals]
      /\ \A n \in Inlines : TypeOf[n] = "number" => w[n] < Width
  <2> SUFFICES ASSUME NEW n \in Inlines PROVE Fits(n, w[n])
    BY DEF Fits
  <2>1. CASE n \notin DOMAIN c.f
    BY <2>1, InlineNat DEF Fits, InlineVals, Values0
  <2>2. CASE n \in DOMAIN c.f
    <3>1. n # "routing_id" /\ TypeOf[n] \in Needed
      BY FieldFacts, ObjectConstants DEF Inlines, Inline, Needed, Hex
    <3>2. c.f[n] # Null
      BY <2>2, <3>1 DEF Import, Whole, Stops, Refuses
    <3>3. \/ c.f[n] \in {Bad, Odd}
          \/ c.f[n] \in InlineVals
          \/ TypeOf[n] = "number" /\ c.f[n] \in Nat
      BY <1>1, <2>2, <3>2, FieldFacts DEF EntryType
    <3>4. any \in InlineVals
      BY DEF InlineVals, Values0
    <3>5. \E e : Value(n, c.f[n], any) = Fit(n, e)
                 /\ (e \in InlineVals \/ (TypeOf[n] = "number" /\ e \in Nat))
      BY <3>2, <3>3, <3>4 DEF Value
    <3> QED
      BY <2>2, <3>5, FitFits
  <2> QED
    BY <2>1, <2>2
<1>5. val' = [val EXCEPT ![h] = w] /\ id' = [id EXCEPT ![h] = c.id]
  BY DEF Import
<1> HIDE DEF f, w
<1>6. MemoryTyped' /\ SoleOwner' /\ LostStays'
  BY <1>2, <1>3, CreateInv
<1>7. ObjectsTyped'
  BY <1>1, <1>3, <1>4, <1>5, Parted DEF ObjectsTyped
<1> QED
  BY <1>6, <1>7, Joined

\* What is lost is added to the heap and to lost alike.
LEMMA LoseInv ==
    ASSUME IInv, NEW h \in Handles, NEW g \in Handles, id[g] \in Ids,
           NEW c \in Edits(Exported(g)), NEW any \in Values,
           NEW n \in DOMAIN c.f, Lose(h, c, n, any)
    PROVE  IInv'
<1> DEFINE N == Before(c, n)
           f == [m \in {l \in N \cap Items : c.f[l] # Null} |-> Value(m, c.f[m], any)]
           fill == ObjectWith(h, f)
           F == DOMAIN fill
<1>1. N \subseteq DOMAIN c.f /\ \A m \in DOMAIN c.f : EntryType(m, c.f[m])
  BY EditsType, BeforeInside
<1>2. DOMAIN f \subseteq Items /\ \A m \in DOMAIN f : f[m] \in Contents
  BY <1>1, BuiltType
<1>3. /\ F = {<<h, m>> : m \in DOMAIN f \cup {"self"}}
      /\ \A p \in F : fill[p] \in Contents
  <2>1. "self" \notin DOMAIN f
    BY <1>2, PlaceFacts
  <2> HIDE DEF f
  <2>2. /\ DOMAIN fill = {<<h, m>> : m \in DOMAIN f \cup {"self"}}
        /\ fill[<<h, "self">>] = Null
        /\ \A m \in DOMAIN f : fill[<<h, m>>] = f[m]
    BY <2>1, ObjectWithFacts, Zenon
  <2> QED
    BY <1>2, <2>2 DEF Contents
<1>4. F \subseteq Places
  BY <1>2, <1>3, PlaceFacts
<1>5. /\ Room(F) /\ heap' = Heap({}, fill) /\ lost' = lost \cup Blocks(F)
      /\ at' = at /\ id' = id /\ val' = val /\ up' = up
  BY DEF Lose, Built
<1> HIDE DEF f, fill, F
<1>6. \A p \in F : /\ Fresh(p) \notin Live /\ Fresh(p)[1] = p
                   /\ Fresh(p) \in Places \X Serials
  BY <1>4, <1>5, FreshFacts
<1>7. /\ Live' = Live \cup Blocks(F)
      /\ \A b \in Live' : heap'[b] = IF b \in Live THEN heap[b] ELSE fill[b[1]]
  BY <1>5 DEF Heap, Live, F
<1>8. Blocks(F) \subseteq Places \X Serials /\ Blocks(F) \cap Live = {}
  BY <1>6 DEF Blocks
<1>9. \A b \in Live' : heap'[b] \in Contents
  BY <1>3, <1>6, <1>7, Parted DEF Blocks, MemoryTyped
<1>10. MemoryTyped' /\ LostStays'
  BY <1>5, <1>7, <1>8, <1>9, Parted DEF MemoryTyped, LostStays
<1>11. SoleOwner'
  <2>1. \A p \in Places : at[p] # Null =>
          at[p] \in Live' \ lost' /\ \A q \in Places \ {p} : at[q] # at[p]
    BY <1>5, <1>7, <1>8, Parted DEF SoleOwner
  <2>2. \A b \in Live' : b \in lost' \/ \E p \in Places : at[p] = b
    BY <1>5, <1>7, Parted DEF SoleOwner
  <2> QED
    BY <1>5, <2>1, <2>2, Parted DEF SoleOwner, Exists
<1>12. ObjectsTyped'
  BY <1>5, Parted DEF ObjectsTyped
<1> QED
  BY <1>10, <1>11, <1>12, Joined

LEMMA NewZplInv == ASSUME IInv, NEW h \in Handles, NewZpl(h) PROVE IInv'
<1>1. PICK g \in Handles :
        /\ Exists(g) /\ Exportable(g) /\ id[g] \in Ids
        /\ \E c \in Edits(Exported(g)), any \in Values :
            \/ Import(h, c, any)
            \/ \E n \in DOMAIN c.f : Lose(h, c, n, any)
            \/ Abort
  BY DEF NewZpl
<1>2. PICK c \in Edits(Exported(g)), any \in Values :
            \/ Import(h, c, any)
            \/ \E n \in DOMAIN c.f : Lose(h, c, n, any)
            \/ Abort
  BY <1>1
<1>3. ~ Exists(h)
  BY DEF NewZpl
<1> QED
  BY <1>1, <1>2, <1>3, ImportInv, LoseInv, AbortInv

-------------------------------------------------------------------------------
\* All steps

LEMMA InitInv == Init => IInv
<1> SUFFICES ASSUME Init PROVE IInv
  OBVIOUS
<1>1. /\ at = [p \in Places |-> Null] /\ Live = {} /\ lost = {}
  BY DEF Init, Unset, Nothing, Live
<1>2. \A h \in Handles : Parts(h) \subseteq Places
  BY PlaceFacts
<1>3. SoleOwner /\ LostStays
  BY <1>1, <1>2 DEF SoleOwner, LostStays
<1>4. TypeOK
  BY <1>1, BlankType DEF Init, TypeOK, InlineVals
<1> QED
  BY <1>3, <1>4 DEF IInv

LEMMA NextInv == IInv /\ [Next]_vars => IInv'
<1> SUFFICES ASSUME IInv, [Next]_vars PROVE IInv'
  OBVIOUS
<1>1. CASE Make \/ Drop
  BY <1>1, MakeInv, DropInv
<1>2. CASE \E h \in Handles : Call(h)
  <2>1. PICK h \in Handles : Call(h)
    BY <1>2
  <2>2. Zpl(h) => IInv'
    BY AbortInv DEF Zpl
  <2> QED
    BY <2>1, <2>2, NewInv, DestroyInv, SetIdInv, SetInlineInv, SetCopyInv, SetOwnInv,
       TakeInv, EditInv, RecvInv, NewZplInv DEF Call
<1>3. CASE \E h, g \in Handles : Dup(h, g)
  BY <1>3, DupInv
<1>4. CASE UNCHANGED vars
  <2>1. Live' = Live
    BY <1>4 DEF vars, Live
  <2>2. TypeOK'
    BY <1>4, <2>1 DEF vars, IInv, TypeOK
  <2>3. SoleOwner' /\ LostStays'
    BY <1>4, <2>1 DEF vars, IInv, SoleOwner, LostStays, Exists
  <2> QED
    BY <2>2, <2>3 DEF IInv
<1> QED
  BY <1>1, <1>2, <1>3, <1>4 DEF Next

LEMMA Inductive == Spec => []IInv
  BY InitInv, NextInv, PTL DEF Spec

\* No order of calls and no configuration, edited or not, takes an object out of its
\* type: numbers fit their width, whatever width an import or a message has.
THEOREM ObjectsTypeCorrect == Spec => []TypeOK
<1>1. IInv => TypeOK
  BY DEF IInv
<1> QED
  BY <1>1, Inductive, PTL

\* Every block of memory has exactly one owner, or was lost by new_zpl: no order of
\* setters, getters, dup, recv, export and import frees an item twice, leaves a
\* pointer to one that is freed, or leaks one.
THEOREM ObjectsSoleOwner == Spec => []SoleOwner
<1>1. IInv => SoleOwner
  BY DEF IInv
<1> QED
  BY <1>1, Inductive, PTL

-------------------------------------------------------------------------------
\* What a step shows of other objects.

\* Items whose place is not touched keep what is in them.
LEMMA ReplaceGet ==
    ASSUME IInv, NEW P \in SUBSET Places, NEW fill, DOMAIN fill \subseteq Places,
           Replace(P, fill)
    PROVE  /\ \A q \in Places \ (P \cup DOMAIN fill) : Get(q)' = Get(q)
           /\ \A q \in DOMAIN fill : Get(q)' = fill[q]
<1> DEFINE F == DOMAIN fill
<1>1. /\ \A p \in Places : at'[p] = IF p \in F THEN Fresh(p)
                                    ELSE IF p \in P THEN Null ELSE at[p]
      /\ Live' = (Live \ {at[p] : p \in P}) \cup {Fresh(p) : p \in F}
      /\ \A b \in Live' : heap'[b] = IF b \in Live THEN heap[b] ELSE fill[b[1]]
  BY DEF Replace, Heap, Blocks, Live
<1>2. \A p \in F : Fresh(p) \notin Live /\ Fresh(p)[1] = p
  BY FreshFacts DEF Replace
<1>3. \A q \in Places : at[q] # Null =>
        at[q] \in Live /\ \A p \in Places \ {q} : at[p] # at[q]
  BY DEF IInv, SoleOwner
<1>4. Null \notin Live /\ Null \notin Live'
  BY <1>1, <1>2, NullIsNoBlock, ObjectConstants, FreshFacts DEF IInv, Replace
<1>5. ASSUME NEW q \in Places \ (P \cup F) PROVE Get(q)' = Get(q)
  <2>1. at'[q] = at[q]
    BY <1>1
  <2>2. CASE at[q] = Null
    BY <1>4, <2>1, <2>2 DEF Get
  <2>3. CASE at[q] # Null
    <3>1. at[q] \in Live /\ at[q] \notin {at[p] : p \in P}
      BY <1>3, <2>3
    <3>2. at[q] \in Live' /\ heap'[at[q]] = heap[at[q]]
      BY <1>1, <3>1
    <3> QED
      BY <2>1, <3>1, <3>2 DEF Get
  <2> QED
    BY <2>2, <2>3
<1>6. ASSUME NEW q \in F PROVE Get(q)' = fill[q]
  <2>1. at'[q] = Fresh(q) /\ Fresh(q) \in Live' /\ heap'[Fresh(q)] = fill[q]
    BY <1>1, <1>2
  <2> QED
    BY <2>1 DEF Get
<1> QED
  BY <1>5, <1>6

LEMMA MoveGet ==
    ASSUME IInv, NEW p \in Places, NEW q \in Places, Move(p, q)
    PROVE  \A r \in Places \ {p, q} : Get(r)' = Get(r)
<1>1. /\ \A r \in Places \ {p, q} : at'[r] = at[r]
      /\ Live' = Live \ {at[q]} /\ \A b \in Live' : heap'[b] = heap[b]
  BY DEF Move, Heap, Blocks, Nothing, Live, IInv, TypeOK
<1>2. \A r \in Places : at[r] # Null =>
        at[r] \in Live /\ \A s \in Places \ {r} : at[s] # at[r]
  BY DEF IInv, SoleOwner
<1>3. Null \notin Live
  BY NullIsNoBlock DEF IInv
<1> QED
  BY <1>1, <1>2, <1>3 DEF Get

LEMMA SeenSame ==
    ASSUME NEW h \in Handles, val'[h] = val[h],
           \A n \in Items : Get(<<h, n>>)' = Get(<<h, n>>)
    PROVE  Seen(h)' = Seen(h)
<1>1. \A n \in Names \cup {"routing_id"} : n \notin Inlines => n \in Items
  BY FieldFacts
<1> QED
  BY <1>1 DEF Seen

\* No other object than g is seen to change.
Only(g) == \A h \in Handles : h # g => Seen(h)' = Seen(h)

LEMMA ReplaceApart ==
    ASSUME IInv, NEW g, NEW P \in SUBSET Places, NEW fill, DOMAIN fill \subseteq Places,
           \A h \in Handles : h # g => Parts(h) \cap (P \cup DOMAIN fill) = {},
           \A h \in Handles : h # g => val'[h] = val[h],
           Replace(P, fill)
    PROVE  Only(g)
<1> SUFFICES ASSUME NEW h \in Handles, h # g PROVE Seen(h)' = Seen(h)
  BY DEF Only
<1>1. \A n \in Items : <<h, n>> \in Places \ (P \cup DOMAIN fill)
  BY PlaceFacts
<1>2. \A n \in Items : Get(<<h, n>>)' = Get(<<h, n>>)
  BY <1>1, ReplaceGet
<1> QED
  BY <1>2, SeenSame

LEMMA MoveApart ==
    ASSUME IInv, NEW g \in Handles, NEW n \in Loose, val' = val,
           \/ Move(<<App, TypeOf[n]>>, <<g, n>>)
           \/ Move(<<g, n>>, <<App, TypeOf[n]>>)
    PROVE  Only(g)
<1> SUFFICES ASSUME NEW h \in Handles, h # g PROVE Seen(h)' = Seen(h)
  BY DEF Only
<1>1. <<App, TypeOf[n]>> \in Places /\ <<g, n>> \in Places
  BY PlaceFacts
<1>2. \A m \in Items : <<h, m>> \in Places \ {<<App, TypeOf[n]>>, <<g, n>>}
  BY PlaceFacts
<1>3. \A r \in Places \ {<<App, TypeOf[n]>>, <<g, n>>} : Get(r)' = Get(r)
  BY <1>1, MoveGet
<1> QED
  BY <1>2, <1>3, SeenSame

\* The blocks of different objects are different.
LEMMA EditApart == ASSUME IInv, NEW g \in Handles, Edit(g) PROVE Only(g)
<1> SUFFICES ASSUME NEW h \in Handles, h # g PROVE Seen(h)' = Seen(h)
  BY DEF Only
<1>1. PICK n \in Loose, v \in Values :
        at[<<g, n>>] # Null /\ heap' = [heap EXCEPT ![at[<<g, n>>]] = v]
  BY DEF Edit
<1>2. at' = at /\ val' = val
  BY DEF Edit
<1>3. ASSUME NEW m \in Items PROVE Get(<<h, m>>)' = Get(<<h, m>>)
  <2>1. <<h, m>> \in Places /\ <<g, n>> \in Places /\ <<h, m>> # <<g, n>>
    BY PlaceFacts
  <2>2. at[<<h, m>>] # at[<<g, n>>]
    BY <1>1, <2>1 DEF IInv, SoleOwner
  <2> QED
    BY <1>1, <1>2, <2>2 DEF Get, Live
<1> QED
  BY <1>2, <1>3, SeenSame

LEMMA CreateApart ==
    ASSUME IInv, NEW g \in Handles, NEW f, DOMAIN f \subseteq Items,
           \A h \in Handles : h # g => val'[h] = val[h],
           Replace({}, ObjectWith(g, f))
    PROVE  Only(g)
<1> DEFINE fill == ObjectWith(g, f)
<1>1. DOMAIN fill = {<<g, n>> : n \in DOMAIN f \cup {"self"}}
  BY DEF ObjectWith
<1>2. DOMAIN fill \subseteq Parts(g) /\ DOMAIN fill \subseteq Places
  BY <1>1, PlaceFacts
<1>3. \A h \in Handles : h # g => Parts(h) \cap DOMAIN fill = {}
  BY <1>2, PlaceFacts
<1>4. Replace({}, fill)
  OBVIOUS
<1> HIDE DEF fill
<1> QED
  BY <1>2, <1>3, <1>4, ReplaceApart

LEMMA ApplicationApart == ASSUME IInv, Make \/ Drop PROVE Only(App)
<1>1. Mine \subseteq Places /\ \A h \in Handles : Parts(h) \cap Mine = {}
  BY PlaceFacts
<1>2. CASE Make
  <2>1. PICK p \in Mine \ Holds, v \in Values : Replace({}, One(p, v))
    BY <1>2 DEF Make
  <2> DEFINE fill == One(p, v)
  <2>2. DOMAIN fill = {p} /\ Replace({}, fill) /\ val' = val
    BY <1>2, <2>1 DEF One, Make
  <2>3. DOMAIN fill \subseteq Places /\ \A h \in Handles : Parts(h) \cap DOMAIN fill = {}
    BY <1>1, <2>1, <2>2
  <2> HIDE DEF fill
  <2> QED
    BY <2>2, <2>3, ReplaceApart
<1>3. CASE Drop
  <2>1. PICK p \in Holds : Replace({p}, Nothing)
    BY <1>3 DEF Drop
  <2> DEFINE fill == Nothing
  <2>2. DOMAIN fill = {} /\ Replace({p}, fill) /\ val' = val
    BY <1>3, <2>1 DEF Nothing, Drop
  <2>3. {p} \subseteq Places /\ \A h \in Handles : Parts(h) \cap {p} = {}
    BY <1>1, <2>1 DEF Holds
  <2> HIDE DEF fill
  <2> QED
    BY <2>2, <2>3, ReplaceApart
<1> QED
  BY <1>2, <1>3

\* The calls that change one object in place.
LEMMA InPlaceApart ==
    ASSUME IInv, NEW g \in Handles,
           SetId(g) \/ SetInline(g) \/ SetCopy(g) \/ Destroy(g) \/ Recv(g)
    PROVE  Only(g)
<1>1. CASE SetId(g) \/ SetInline(g)
  <2>1. /\ at' = at /\ heap' = heap
        /\ \A h \in Handles : h # g => val'[h] = val[h]
    BY <1>1, Parted DEF SetId, SetInline, ObjectsTyped
  <2>2. \A p : Get(p)' = Get(p)
    BY <2>1 DEF Get, Live
  <2> QED
    BY <2>1, <2>2, SeenSame DEF Only
<1>2. CASE SetCopy(g)
  <2>1. PICK n \in Items \ Given :
        \E v \in IF TypeOf[n] = "longstr" THEN Values ELSE {Get(<<App, TypeOf[n]>>)} :
            Replace({<<g, n>>}, IF v = Null THEN Nothing ELSE One(<<g, n>>, v))
    BY <1>2 DEF SetCopy
  <2>2. PICK v : Replace({<<g, n>>}, IF v = Null THEN Nothing ELSE One(<<g, n>>, v))
    BY <2>1
  <2> DEFINE fill == IF v = Null THEN Nothing ELSE One(<<g, n>>, v)
  <2>3. DOMAIN fill \subseteq {<<g, n>>} /\ Replace({<<g, n>>}, fill)
    BY <2>2 DEF Nothing, One
  <2>4. /\ {<<g, n>>} \subseteq Places
        /\ \A h \in Handles : h # g => Parts(h) \cap {<<g, n>>} = {}
        /\ val' = val
    BY <1>2, PlaceFacts DEF SetCopy
  <2> HIDE DEF fill
  <2> QED
    BY <2>3, <2>4, ReplaceApart
<1>3. CASE Destroy(g)
  <2> DEFINE fill == Nothing
  <2>1. /\ DOMAIN fill = {} /\ Replace(Parts(g), fill)
        /\ \A h \in Handles : h # g => val'[h] = val[h]
    BY <1>3, Parted DEF Nothing, Destroy, ObjectsTyped
  <2>2. /\ Parts(g) \subseteq Places
        /\ \A h \in Handles : h # g => Parts(h) \cap Parts(g) = {}
    BY PlaceFacts
  <2> HIDE DEF fill
  <2> QED
    BY <2>1, <2>2, ReplaceApart
<1>4. CASE Recv(g)
  <2>1. PICK i \in Ids \cup {0, id[g]}, v \in Values, from \in SUBSET {"routing_id"} :
       \E k \in 0..Len(FieldsOf(i)) :
        LET read  == {FieldsOf(i)[j].name : j \in 1..k}
            items == {<<g, n>> : n \in (read \cup from) \cap Items}
        IN Replace(items, [p \in items |-> v])
    BY <1>4 DEF Recv
  <2>2. PICK k \in 0..Len(FieldsOf(i)) :
        LET read  == {FieldsOf(i)[j].name : j \in 1..k}
            items == {<<g, n>> : n \in (read \cup from) \cap Items}
        IN Replace(items, [p \in items |-> v])
    BY <2>1
  <2> DEFINE P == {<<g, n>> : n \in ({FieldsOf(i)[j].name : j \in 1..k} \cup from) \cap Items}
             fill == [p \in P |-> v]
  <2>3. P \subseteq Parts(g) /\ DOMAIN fill = P /\ Replace(P, fill)
    BY <2>2, PlaceFacts
  <2>4. \A h \in Handles : h # g => val'[h] = val[h]
    BY <1>4, Parted DEF Recv, ObjectsTyped
  <2> HIDE DEF P, fill
  <2>5. P \subseteq Places /\ \A h \in Handles : h # g => Parts(h) \cap P = {}
    BY <2>3, PlaceFacts
  <2> QED
    BY <2>3, <2>4, <2>5, ReplaceApart
<1> QED
  BY <1>1, <1>2, <1>3, <1>4

LEMMA DupApart ==
    ASSUME IInv, NEW h \in Handles, NEW g \in Handles, Dup(h, g)
    PROVE  Only(g)
<1> DEFINE f == [n \in Copied(h) |-> Get(<<h, n>>)]
<1>1. DOMAIN f \subseteq Items /\ Replace({}, ObjectWith(g, f))
  BY DEF Copied, Dup
<1>2. \A k \in Handles : k # g => val'[k] = val[k]
  BY Parted DEF Dup, ObjectsTyped
<1> HIDE DEF f
<1> QED
  BY <1>1, <1>2, CreateApart

LEMMA NewApart == ASSUME IInv, NEW g \in Handles, New(g) PROVE Only(g)
<1>1. DOMAIN Nothing \subseteq Items /\ Replace({}, ObjectWith(g, Nothing)) /\ val' = val
  BY DEF Nothing, New
<1> QED
  BY <1>1, CreateApart

LEMMA ImportApart ==
    ASSUME IInv, NEW g \in Handles, NEW c, NEW any, Import(g, c, any)
    PROVE  Only(g)
<1> DEFINE f == [n \in {m \in DOMAIN c.f \cap Items : c.f[m] # Null} |->
                    Value(n, c.f[n], any)]
<1>1. DOMAIN f \subseteq Items /\ Replace({}, ObjectWith(g, f))
  BY DEF Import, Built
<1>2. \A k \in Handles : k # g => val'[k] = val[k]
  BY Parted DEF Import, ObjectsTyped
<1> HIDE DEF f
<1> QED
  BY <1>1, <1>2, CreateApart

\* What is lost is not seen by anybody.
LEMMA LoseGet ==
    ASSUME IInv, NEW g \in Handles, NEW c, NEW n, NEW any, Lose(g, c, n, any)
    PROVE  at' = at /\ val' = val /\ \A p \in Places : Get(p)' = Get(p)
<1> DEFINE fill == Built(g, c, Before(c, n), any)
<1>1. at' = at /\ val' = val /\ heap' = Heap({}, fill) /\ Room(DOMAIN fill)
  BY DEF Lose
<1>2. \A q \in DOMAIN fill : q \in Places
  <2>1. DOMAIN fill = {<<g, m>> : m \in {l \in Before(c, n) \cap Items : c.f[l] # Null}
                                         \cup {"self"}}
    BY DEF Built, ObjectWith
  <2> QED
    BY <2>1, PlaceFacts
<1> HIDE DEF fill
<1>3. /\ Live' = Live \cup {Fresh(p) : p \in DOMAIN fill}
      /\ \A b \in Live : heap'[b] = heap[b]
  BY <1>1 DEF Heap, Blocks, Live
<1>4. ASSUME NEW p \in Places PROVE Get(p)' = Get(p)
  <2>1. CASE at[p] = Null
    <3>1. Null \notin Live
      BY NullIsNoBlock DEF IInv
    <3>2. \A q \in DOMAIN fill : Fresh(q) \in Places \X Serials
      BY <1>1, <1>2, FreshFacts
    <3>3. Null \notin Live'
      BY <1>3, <3>1, <3>2, ObjectConstants
    <3> QED
      BY <1>1, <2>1, <3>1, <3>3 DEF Get
  <2>2. CASE at[p] # Null
    <3>1. at[p] \in Live
      BY <2>2 DEF IInv, SoleOwner
    <3> QED
      BY <1>1, <1>3, <3>1 DEF Get
  <2> QED
    BY <2>1, <2>2
<1> QED
  BY <1>1, <1>4

LEMMA LoseApart ==
    ASSUME IInv, NEW g \in Handles, NEW c, NEW n, NEW any, Lose(g, c, n, any)
    PROVE  Only(g)
<1>1. val' = val /\ \A p \in Places : Get(p)' = Get(p)
  BY LoseGet
<1> QED
  BY <1>1, SeenSame, PlaceFacts DEF Only

LEMMA CallApart ==
    ASSUME IInv, NEW g \in Handles, Call(g), up'
    PROVE  Only(g)
<1>1. ~ Abort
  BY DEF Abort
<1>2. ~ Zpl(g)
  BY <1>1 DEF Zpl
<1>3. CASE SetOwn(g) \/ Take(g)
  <2>1. Given \subseteq Loose
    BY PlaceFacts
  <2> QED
    BY <1>3, <2>1, MoveApart DEF SetOwn, Take
<1>4. CASE NewZpl(g)
  <2>1. PICK k \in Handles :
          \E c \in Edits(Exported(k)), any \in Values :
            Import(g, c, any) \/ \E n \in DOMAIN c.f : Lose(g, c, n, any)
    BY <1>1, <1>4 DEF NewZpl
  <2> QED
    BY <2>1, ImportApart, LoseApart
<1> QED
  BY <1>2, <1>3, <1>4, NewApart, InPlaceApart, EditApart DEF Call

\* Whatever an application does to one object, through its methods, its getters or
\* its configuration, no other object is seen to change.
THEOREM ObjectsStayApart == Spec => ObjectsApart
<1> DEFINE AtMostOne == Cardinality({h \in Handles : Seen(h)' # Seen(h)}) <= 1
<1>1. ASSUME NEW g, Only(g) PROVE AtMostOne
  <2> DEFINE Changed == {h \in Handles : Seen(h)' # Seen(h)}
  <2>1. Changed = {} \/ Changed = {g}
    BY <1>1 DEF Only
  <2>2. Cardinality({}) = 0 /\ Cardinality({g}) = 1
    BY FS_EmptySet, FS_Singleton
  <2>3. Cardinality(Changed) <= 1
    <3> HIDE DEF Changed
    <3> QED
      BY <2>1, <2>2
  <2> QED
    BY <2>3
<1>2. ASSUME IInv, Next, up' PROVE \E g : Only(g)
  <2>1. CASE Make \/ Drop
    BY <1>2, <2>1, ApplicationApart
  <2>2. CASE \E g \in Handles : Call(g)
    BY <1>2, <2>2, CallApart
  <2>3. CASE \E h, g \in Handles : Dup(h, g)
    BY <1>2, <2>3, DupApart
  <2> QED
    BY <1>2, <2>1, <2>2, <2>3 DEF Next
<1>3. IInv /\ [Next]_vars =>
        [up' => Cardinality({h \in Handles : Seen(h)' # Seen(h)}) <= 1]_vars
  BY <1>1, <1>2
<1> QED
  BY <1>3, Inductive, PTL DEF Spec, ObjectsApart

\* A copy shows what its original does in every field but the octets, those of other
\* messages included, and the original stays as it was.
THEOREM DupsKeep == Spec => DupKeeps
<1> DEFINE Kept == \A h, g \in Handles : Exists(g)' /\ Dup(h, g) =>
        /\ \A n \in DOMAIN Seen(h) : TypeOf[n] # "octets" => Seen(g)'[n] = Seen(h)[n]
        /\ Seen(h)' = Seen(h)
<1>1. ASSUME IInv, NEW h \in Handles, NEW g \in Handles, Dup(h, g)
      PROVE  /\ \A n \in DOMAIN Seen(h) : TypeOf[n] # "octets" => Seen(g)'[n] = Seen(h)[n]
             /\ Seen(h)' = Seen(h)
  <2> DEFINE f == [n \in Copied(h) |-> Get(<<h, n>>)]
             fill == ObjectWith(g, f)
  <2>1. h # g /\ ~ Exists(g) /\ Replace({}, fill)
    BY <1>1 DEF Dup
  <2>2. Seen(h)' = Seen(h)
    BY <1>1, <2>1, DupApart DEF Only
  <2>3. DOMAIN f = Copied(h) /\ Copied(h) \subseteq Items /\ "self" \notin Items
    BY PlaceFacts DEF Copied
  <2>4. /\ DOMAIN fill = {<<g, n>> : n \in Copied(h) \cup {"self"}}
        /\ \A n \in Copied(h) : fill[<<g, n>>] = Get(<<h, n>>)
    BY <2>3 DEF ObjectWith
  <2> HIDE DEF f, fill
  <2>5. DOMAIN fill \subseteq Places
    BY <2>3, <2>4, PlaceFacts
  <2>6. /\ \A q \in Places \ DOMAIN fill : Get(q)' = Get(q)
        /\ \A q \in DOMAIN fill : Get(q)' = fill[q]
    BY <1>1, <2>1, <2>5, ReplaceGet
  <2>7. ASSUME NEW n \in Items PROVE Get(<<g, n>>)' = Get(<<h, n>>)
    <3>1. CASE n \in Copied(h)
      BY <2>4, <2>6, <3>1
    <3>2. CASE n \notin Copied(h)
      <4>1. <<g, n>> \in Places \ DOMAIN fill /\ <<g, n>> \in Parts(g)
        BY <2>3, <2>4, <3>2, PlaceFacts
      <4>2. at[<<h, n>>] = Null /\ at[<<g, n>>] = Null
        BY <1>1, <2>1, <3>2, <4>1 DEF Copied, IInv, SoleOwner
      <4> QED
        BY <2>6, <4>1, <4>2 DEF Get
    <3> QED
      BY <3>1, <3>2
  <2>8. \A n \in Inlines : TypeOf[n] # "octets" => val'[g][n] = val[h][n]
    BY <1>1, Parted DEF Dup, ObjectsTyped
  <2>9. \A n \in DOMAIN Seen(h) : TypeOf[n] # "octets" => Seen(g)'[n] = Seen(h)[n]
    BY <2>7, <2>8, FieldFacts DEF Seen
  <2> QED
    BY <2>2, <2>9
<1>2. IInv /\ [Next]_vars => [Kept]_vars
  BY <1>1
<1> HIDE DEF Kept
<1>3. Spec => [][Kept]_vars
  BY <1>2, Inductive, PTL DEF Spec
<1> QED
  BY <1>3 DEF DupKeeps, Kept

-------------------------------------------------------------------------------
\* Export and import

\* An item that a place points to has a value in it; only objects themselves have none.
Selves == {<<h, "self">> : h \in Handles}
ItemsFull == \A p \in Places \ Selves : at[p] # Null => Get(p) \in Values

LEMMA ReplaceFull ==
    ASSUME IInv, ItemsFull, NEW P \in SUBSET Places, NEW fill, DOMAIN fill \subseteq Places,
           \A p \in DOMAIN fill \ Selves : fill[p] \in Values,
           Replace(P, fill)
    PROVE  ItemsFull'
<1>1. /\ \A q \in Places \ (P \cup DOMAIN fill) : Get(q)' = Get(q) /\ at'[q] = at[q]
      /\ \A q \in DOMAIN fill : Get(q)' = fill[q]
      /\ \A q \in P \ DOMAIN fill : at'[q] = Null
  BY ReplaceGet DEF Replace
<1>2. \A q \in Places \ Selves : at'[q] # Null => Get(q)' \in Values
  BY <1>1 DEF ItemsFull
<1> QED
  BY <1>2 DEF ItemsFull, Selves

LEMMA MoveFull ==
    ASSUME IInv, ItemsFull, NEW h \in Handles, NEW n \in Loose,
           \/ Move(<<App, TypeOf[n]>>, <<h, n>>)
           \/ Move(<<h, n>>, <<App, TypeOf[n]>>)
    PROVE  ItemsFull'
<1>1. ASSUME NEW p \in Places \ Selves, NEW q \in Places \ Selves, p # q, Move(p, q)
      PROVE  ItemsFull'
  <2>1. /\ \A r \in Places \ {p, q} : Get(r)' = Get(r) /\ at'[r] = at[r]
        /\ at'[p] = Null /\ at'[q] = at[p]
        /\ Live' = Live \ {at[q]} /\ \A b \in Live' : heap'[b] = heap[b]
    <3>1. \A r \in Places \ {p, q} : Get(r)' = Get(r)
      BY <1>1, MoveGet
    <3>2. DOMAIN at = Places
      BY DEF IInv, TypeOK
    <3>3. Live' = Live \ {at[q]} /\ \A b \in Live' : heap'[b] = heap[b]
      BY <1>1 DEF Move, Heap, Blocks, Nothing, Live
    <3> QED
      BY <1>1, <3>1, <3>2, <3>3 DEF Move
  <2>2. at[p] # Null => at[p] \in Live /\ at[q] # at[p]
    BY <1>1 DEF IInv, SoleOwner
  <2>3. at'[q] # Null => Get(q)' \in Values
    BY <1>1, <2>1, <2>2 DEF Get, ItemsFull
  <2>4. \A r \in Places \ Selves : at'[r] # Null => Get(r)' \in Values
    BY <2>1, <2>3 DEF ItemsFull
  <2> QED
    BY <2>4 DEF ItemsFull, Selves
<1>2. /\ <<App, TypeOf[n]>> \in Places \ Selves /\ <<h, n>> \in Places \ Selves
      /\ <<App, TypeOf[n]>> # <<h, n>>
  BY PlaceFacts, ObjectConstants DEF Selves
<1> QED
  BY <1>1, <1>2

LEMMA CreateFull ==
    ASSUME IInv, ItemsFull, NEW h \in Handles, NEW f, DOMAIN f \subseteq Items,
           \A n \in DOMAIN f : f[n] \in Values, Replace({}, ObjectWith(h, f))
    PROVE  ItemsFull'
<1> DEFINE fill == ObjectWith(h, f)
<1>1. "self" \notin DOMAIN f
  BY PlaceFacts
<1>2. /\ DOMAIN fill = {<<h, n>> : n \in DOMAIN f \cup {"self"}}
      /\ \A n \in DOMAIN f : fill[<<h, n>>] = f[n]
  BY <1>1 DEF ObjectWith
<1>3. Replace({}, fill)
  OBVIOUS
<1> HIDE DEF fill
<1>4. DOMAIN fill \subseteq Places
  BY <1>2, PlaceFacts
<1>5. \A p \in DOMAIN fill \ Selves : fill[p] \in Values
  BY <1>2 DEF Selves
<1> QED
  BY <1>3, <1>4, <1>5, ReplaceFull

LEMMA ApplicationFull == ASSUME IInv, ItemsFull, Make \/ Drop PROVE ItemsFull'
<1>1. Mine \subseteq Places
  BY PlaceFacts
<1>2. CASE Make
  <2>1. PICK p \in Mine \ Holds, v \in Values : Replace({}, One(p, v))
    BY <1>2 DEF Make
  <2> DEFINE fill == One(p, v)
  <2>2. DOMAIN fill = {p} /\ fill[p] = v /\ Replace({}, fill)
    BY <2>1 DEF One
  <2> HIDE DEF fill
  <2> QED
    BY <1>1, <2>1, <2>2, ReplaceFull
<1>3. CASE Drop
  <2>1. PICK p \in Holds : Replace({p}, Nothing)
    BY <1>3 DEF Drop
  <2> DEFINE fill == Nothing
  <2>2. DOMAIN fill = {} /\ Replace({p}, fill)
    BY <2>1 DEF Nothing
  <2>3. {p} \subseteq Places
    BY <1>1, <2>1 DEF Holds
  <2> HIDE DEF fill
  <2> QED
    BY <2>2, <2>3, ReplaceFull
<1> QED
  BY <1>2, <1>3

LEMMA InPlaceFull ==
    ASSUME IInv, ItemsFull, NEW g \in Handles,
           SetId(g) \/ SetInline(g) \/ SetCopy(g) \/ Destroy(g) \/ Recv(g)
    PROVE  ItemsFull'
<1>1. CASE SetId(g) \/ SetInline(g)
  <2>1. at' = at /\ heap' = heap
    BY <1>1 DEF SetId, SetInline
  <2>2. \A p \in Places \ Selves : at'[p] # Null => Get(p)' \in Values
    BY <2>1 DEF Get, Live, ItemsFull
  <2> QED
    BY <2>2 DEF ItemsFull, Selves
<1>2. CASE SetCopy(g)
  <2>1. PICK n \in Items \ Given :
        \E v \in IF TypeOf[n] = "longstr" THEN Values ELSE {Get(<<App, TypeOf[n]>>)} :
            Replace({<<g, n>>}, IF v = Null THEN Nothing ELSE One(<<g, n>>, v))
    BY <1>2 DEF SetCopy
  <2>2. PICK v \in IF TypeOf[n] = "longstr" THEN Values ELSE {Get(<<App, TypeOf[n]>>)} :
        Replace({<<g, n>>}, IF v = Null THEN Nothing ELSE One(<<g, n>>, v))
    BY <2>1
  <2> DEFINE fill == IF v = Null THEN Nothing ELSE One(<<g, n>>, v)
  <2>3. v = Null \/ v \in Values
    BY GetType DEF IInv, Contents
  <2>4. /\ DOMAIN fill \subseteq {<<g, n>>} /\ Replace({<<g, n>>}, fill)
        /\ \A p \in DOMAIN fill : fill[p] \in Values
    BY <2>2, <2>3 DEF Nothing, One
  <2>5. {<<g, n>>} \subseteq Places
    BY PlaceFacts
  <2> HIDE DEF fill
  <2> QED
    BY <2>4, <2>5, ReplaceFull
<1>3. CASE Destroy(g)
  <2> DEFINE fill == Nothing
  <2>1. DOMAIN fill = {} /\ Replace(Parts(g), fill)
    BY <1>3 DEF Nothing, Destroy
  <2>2. Parts(g) \subseteq Places
    BY PlaceFacts
  <2> HIDE DEF fill
  <2> QED
    BY <2>1, <2>2, ReplaceFull
<1>4. CASE Recv(g)
  <2>1. PICK i \in Ids \cup {0, id[g]}, v \in Values, from \in SUBSET {"routing_id"} :
       \E k \in 0..Len(FieldsOf(i)) :
        LET read  == {FieldsOf(i)[j].name : j \in 1..k}
            items == {<<g, n>> : n \in (read \cup from) \cap Items}
        IN Replace(items, [p \in items |-> v])
    BY <1>4 DEF Recv
  <2>2. PICK k \in 0..Len(FieldsOf(i)) :
        LET read  == {FieldsOf(i)[j].name : j \in 1..k}
            items == {<<g, n>> : n \in (read \cup from) \cap Items}
        IN Replace(items, [p \in items |-> v])
    BY <2>1
  <2> DEFINE P == {<<g, n>> : n \in ({FieldsOf(i)[j].name : j \in 1..k} \cup from) \cap Items}
             fill == [p \in P |-> v]
  <2>3. P \subseteq Places /\ DOMAIN fill = P /\ Replace(P, fill)
        /\ \A p \in P : fill[p] \in Values
    BY <2>2, PlaceFacts
  <2> HIDE DEF P, fill
  <2> QED
    BY <2>3, ReplaceFull
<1> QED
  BY <1>1, <1>2, <1>3, <1>4

LEMMA DupFull ==
    ASSUME IInv, ItemsFull, NEW h \in Handles, NEW g \in Handles, Dup(h, g)
    PROVE  ItemsFull'
<1> DEFINE f == [n \in Copied(h) |-> Get(<<h, n>>)]
<1>1. DOMAIN f \subseteq Items /\ Replace({}, ObjectWith(g, f))
  BY DEF Copied, Dup
<1>2. \A n \in DOMAIN f : f[n] \in Values
  BY PlaceFacts DEF Copied, ItemsFull, Selves
<1> HIDE DEF f
<1> QED
  BY <1>1, <1>2, CreateFull

LEMMA ImportFull ==
    ASSUME IInv, ItemsFull, NEW h \in Handles, NEW g \in Handles, id[g] \in Ids,
           NEW c \in Edits(Exported(g)), NEW any \in Values, Import(h, c, any)
    PROVE  ItemsFull'
<1> DEFINE f == [n \in {m \in DOMAIN c.f \cap Items : c.f[m] # Null} |->
                    Value(n, c.f[n], any)]
<1>1. \A n \in DOMAIN c.f : EntryType(n, c.f[n])
  BY EditsType
<1>2. ASSUME NEW n \in DOMAIN c.f \cap Items, c.f[n] # Null
      PROVE  Value(n, c.f[n], any) \in Values
  <2>1. c.f[n] \in {Bad, Odd} \/ c.f[n] \in Values
    BY <1>1, <1>2, FieldFacts DEF EntryType
  <2>2. \A v : Fit(n, v) = v
    BY FieldFacts DEF Fit
  <2> QED
    BY <1>2, <2>1, <2>2 DEF Value
<1>3. DOMAIN f \subseteq Items /\ Replace({}, ObjectWith(h, f))
      /\ \A n \in DOMAIN f : f[n] \in Values
  BY <1>2 DEF Import, Built
<1> HIDE DEF f
<1> QED
  BY <1>3, CreateFull

LEMMA CallFull ==
    ASSUME IInv, ItemsFull, NEW g \in Handles, Call(g)
    PROVE  ItemsFull'
<1>1. CASE Abort
  <2>1. \A p \in Places : at'[p] = Null
    BY <1>1 DEF Abort, Unset
  <2> QED
    BY <2>1 DEF ItemsFull, Selves
<1>2. CASE SetOwn(g) \/ Take(g)
  <2>1. Given \subseteq Loose
    BY PlaceFacts
  <2> QED
    BY <1>2, <2>1, MoveFull DEF SetOwn, Take
<1>3. CASE NewZpl(g)
  <2>1. PICK k \in Handles :
          /\ id[k] \in Ids
          /\ \E c \in Edits(Exported(k)), any \in Values :
              Import(g, c, any) \/ (\E n \in DOMAIN c.f : Lose(g, c, n, any)) \/ Abort
    BY <1>3 DEF NewZpl
  <2>2. PICK c \in Edits(Exported(k)), any \in Values :
          Import(g, c, any) \/ (\E n \in DOMAIN c.f : Lose(g, c, n, any)) \/ Abort
    BY <2>1
  <2>3. CASE \E n \in DOMAIN c.f : Lose(g, c, n, any)
    <3>1. at' = at /\ \A p \in Places : Get(p)' = Get(p)
      BY <2>3, LoseGet
    <3>2. \A p \in Places \ Selves : at'[p] # Null => Get(p)' \in Values
      BY <3>1 DEF ItemsFull
    <3> QED
      BY <3>2 DEF ItemsFull, Selves
  <2> QED
    BY <1>1, <2>1, <2>2, <2>3, ImportFull
<1>4. CASE New(g)
  <2>1. DOMAIN Nothing \subseteq Items /\ Replace({}, ObjectWith(g, Nothing))
        /\ \A n \in DOMAIN Nothing : Nothing[n] \in Values
    BY <1>4 DEF Nothing, New
  <2> QED
    BY <2>1, CreateFull
<1>5. CASE Edit(g)
  <2>1. PICK n \in Loose, v \in Values : heap' = [heap EXCEPT ![at[<<g, n>>]] = v]
    BY <1>5 DEF Edit
  <2>2. /\ at' = at /\ Live' = Live
        /\ \A b \in Live : heap'[b] = heap[b] \/ heap'[b] = v
    BY <1>5, <2>1 DEF Edit, Live
  <2>3. \A p \in Places \ Selves : at'[p] # Null => Get(p)' \in Values
    BY <2>2 DEF Get, ItemsFull, IInv, SoleOwner
  <2> QED
    BY <2>3 DEF ItemsFull, Selves
<1> QED
  BY <1>1, <1>2, <1>3, <1>4, <1>5, InPlaceFull DEF Call, Zpl

LEMMA FullInv == Spec => [](IInv /\ ItemsFull)
<1>1. Init => ItemsFull
  BY DEF Init, Unset, ItemsFull
<1>2. ASSUME IInv, ItemsFull, [Next]_vars PROVE ItemsFull'
  <2>1. CASE Make \/ Drop
    BY <1>2, <2>1, ApplicationFull
  <2>2. CASE \E g \in Handles : Call(g)
    BY <1>2, <2>2, CallFull
  <2>3. CASE \E h, g \in Handles : Dup(h, g)
    BY <1>2, <2>3, DupFull
  <2>4. CASE UNCHANGED vars
    <3>1. \A p \in Places \ Selves : at'[p] # Null => Get(p)' \in Values
      BY <1>2, <2>4 DEF vars, Get, Live, ItemsFull
    <3> QED
      BY <3>1 DEF ItemsFull, Selves
  <2> QED
    BY <1>2, <2>1, <2>2, <2>3, <2>4 DEF Next
<1> QED
  BY <1>1, <1>2, InitInv, NextInv, PTL DEF Spec

\* Every message that zpl can export is read back by new_zpl as it was, whatever calls
\* made the object, unless a string in it was never set.
THEOREM ZplGoesRound == Spec => []ZplRoundTrip
<1>1. ASSUME IInv, ItemsFull PROVE ZplRoundTrip
  <2> SUFFICES ASSUME NEW h \in Handles, Exists(h), Exportable(h), id[h] \in Ids,
                      NEW c, c = Exported(h)
               PROVE  /\ \/ Whole(c)
                         \/ \E n \in DOMAIN c.f : TypeOf[n] = "longstr" /\ c.f[n] = Null
                      /\ \A n \in DOMAIN c.f, any \in Values :
                            Value(n, c.f[n], any) = Seen(h)[n]
    BY DEF ZplRoundTrip
  <2> DEFINE D == NamesOf(id[h]) \cup {"routing_id"}
  <2>1. /\ c.id = id[h] /\ DOMAIN c.f = D
        /\ \A n \in D : c.f[n] = Seen(h)[n]
    BY DEF Exported
  <2>2. \A n \in D : Seen(h)[n] = IF n \in Inlines THEN val[h][n] ELSE Get(<<h, n>>)
    BY FieldFacts DEF Seen
  <2>3. ASSUME NEW n \in D, n \in Inlines
        PROVE  c.f[n] \in Nat /\ (TypeOf[n] = "number" => c.f[n] < Width)
    <3>1. val[h][n] \in InlineVals /\ (TypeOf[n] = "number" => val[h][n] < Width)
      BY <1>1, <2>3, Parted DEF ObjectsTyped
    <3> QED
      BY <2>1, <2>2, <2>3, <3>1, InlineNat
  <2>4. ASSUME NEW n \in D, n \notin Inlines
        PROVE  /\ n \in Items /\ c.f[n] = Get(<<h, n>>) /\ c.f[n] \in Contents
               /\ c.f[n] = Null => at[<<h, n>>] = Null
    <3>1. n \in Items
      BY <2>4, FieldFacts
    <3>2. <<h, n>> \in Places \ Selves
      BY <3>1, PlaceFacts DEF Selves
    <3>3. c.f[n] = Get(<<h, n>>) /\ Get(<<h, n>>) \in Contents
      BY <1>1, <2>1, <2>2, <2>4, GetType DEF IInv
    <3>4. Null \notin Nat /\ Values \subseteq Nat
      BY ObjectConstants
    <3> QED
      BY <1>1, <3>1, <3>2, <3>3, <3>4 DEF ItemsFull
  <2>5. Null \notin Nat /\ Bad \notin Nat /\ Odd \notin Nat /\ Values \subseteq Nat
    BY ObjectConstants
  <2>6. ASSUME NEW n \in D, c.f[n] = Null, TypeOf[n] \in Needed, n # "routing_id"
        PROVE  TypeOf[n] = "longstr"
    <3>1. n \notin Inlines
      BY <2>3, <2>5, <2>6
    <3>2. at[<<h, n>>] = Null
      BY <2>4, <2>6, <3>1
    <3>3. TypeOf[n] \notin {"chunk", "frame", "msg"}
      BY <2>6, <3>2 DEF Exportable
    <3>4. n \in Names
      BY <2>6, FieldFacts
    <3>5. TypeOf[n] \notin {"octets", "number", "string"}
      BY <3>1, <3>4 DEF Inlines, Inline
    <3> QED
      BY <2>6, <3>3, <3>5 DEF Needed, Hex
  <2>7. \A n \in D : c.f[n] # Bad /\ c.f[n] # Odd
    <3>1. Null \notin {Bad, Odd}
      BY ObjectConstants
    <3> QED
      BY <2>3, <2>4, <2>5, <3>1 DEF Contents
  <2>8. ASSUME NEW n \in D, Stops(c, n)
        PROVE  TypeOf[n] = "longstr" /\ c.f[n] = Null
    <3>1. c.f[n] = Null /\ TypeOf[n] \in Needed /\ n # "routing_id"
      BY <2>7, <2>8 DEF Stops, Refuses, Loses
    <3> QED
      BY <2>6, <3>1
  <2>9. ASSUME NEW n \in D, NEW any \in Values PROVE Value(n, c.f[n], any) = c.f[n]
    <3>1. TypeOf[n] = "number" => n \in Inlines
      BY <2>4, FieldFacts
    <3>2. TypeOf[n] = "number" => c.f[n] % Width = c.f[n]
      BY <2>3, <3>1, InlineNat
    <3> QED
      BY <2>7, <3>2 DEF Value, Fit
  <2>10. Whole(c) \/ \E n \in D : Stops(c, n)
    BY <2>1 DEF Whole
  <2> QED
    BY <2>1, <2>8, <2>9, <2>10
<1> QED
  BY <1>1, FullInv, PTL
===============================================================================
