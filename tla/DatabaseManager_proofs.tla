----------------------- MODULE DatabaseManager_proofs -----------------------
(***************************************************************************)
(* Theorems about DatabaseManager, for any finite set of processes, any    *)
(* names and data, any number of ids and any faults.                       *)
(***************************************************************************)
EXTENDS DatabaseManager, FiniteSetTheorems, TLAPS

----------------------------------------------------------------------------
(* The inductive invariant. *)

\* A process in the second half of a call has an object.
Busy == \A c \in Clients : pc[c] \in {"insert", "remove", "set"} => obj[c] # NoObject

\* A process that is about to insert found no document of that name, and counts
\* like the document it is going to insert.
Inserting(name) == {c \in Clients : pc[c] = "insert" /\ obj[c].name = name}

CallsBounded ==
    \A name \in Names \ doubtful :
        Cardinality(Named(name)) + Cardinality(Inserting(name)) <= Cardinality(Clients)

IInv == TypeOK /\ Busy /\ CallsBounded

----------------------------------------------------------------------------
(* Lemmas about the operators. *)

LEMMA WriteShape ==
    ASSUME NEW new, NEW accepted \in BOOLEAN, NEW ok, Write(new, accepted, ok)
    PROVE  docs' = docs \/ (accepted /\ docs' = new)
  BY DEF Write

\* wrap leaves a typed object whose id was generated, and its name and data.
LEMMA WrapProperties ==
    ASSUME TypeOK, Busy, NEW c \in Clients, pc[c] \in {"insert", "remove", "set"},
           Wrap(c)
    PROVE  /\ Wrapped(obj[c]) \in Object
           /\ Wrapped(obj[c]).id \in 1..lastOid'
           /\ Content(Wrapped(obj[c])) = Content(obj[c])
           /\ Content(obj[c]) \in Document
           /\ Wrapped(obj[c]).name = obj[c].name
           /\ Wrapped(obj[c]).update = obj[c].update
           /\ Wrapped(obj[c]) # NoObject
           /\ Wrapped(obj[c]).id # obj[c].id => ~obj[c].update
           /\ ~obj[c].update => Wrapped(obj[c]).id = lastOid + 1
           /\ lastOid' \in 0..MaxOids /\ lastOid <= lastOid'
           /\ obj' = [obj EXCEPT ![c] = Wrapped(obj[c])]
<1>1. obj[c] \in Object /\ obj[c] # NoObject
  BY DEF TypeOK, Busy
<1>2. obj[c].id \in 0..lastOid /\ (obj[c].update => obj[c].id > 0)
  BY <1>1 DEF TypeOK, Object
<1>3. lastOid \in Nat /\ MaxOids \in Nat /\ lastOid \in 0..MaxOids
  BY DatabaseAssumption DEF TypeOK
<1>4. CASE obj[c].update
  <2>1. Wrapped(obj[c]) = obj[c] /\ lastOid' = lastOid
    BY <1>4 DEF Wrap, Wrapped
  <2>2. obj[c].id \in 1..lastOid'
    BY <1>2, <1>3, <1>4, <2>1
  <2>3. Content(obj[c]) \in Document
    BY <1>1 DEF Content, Object, Document
  <2>4. obj' = [obj EXCEPT ![c] = Wrapped(obj[c])]
    BY DEF Wrap
  <2>5. lastOid' \in 0..MaxOids /\ lastOid <= lastOid'
    BY <1>3, <2>1
  <2> QED
    BY <1>1, <1>4, <2>1, <2>2, <2>3, <2>4, <2>5
<1>5. CASE ~obj[c].update
  <2>1. Wrapped(obj[c]) = [obj[c] EXCEPT !.id = lastOid + 1]
    BY <1>5 DEF Wrapped
  <2>2. lastOid < MaxOids /\ lastOid' = lastOid + 1
    BY <1>5 DEF Wrap
  <2>3. lastOid + 1 \in 0..MaxOids /\ lastOid + 1 \in 1..lastOid'
    BY <1>3, <2>2
  <2>4. Wrapped(obj[c]) \in Object
    BY <1>1, <2>1, <2>3 DEF Object
  <2>5. Wrapped(obj[c]).update = obj[c].update /\ Wrapped(obj[c]) # NoObject
    BY <1>1, <1>5, <2>1 DEF Object, NoObject
  <2> QED
    BY <1>1, <1>2, <1>3, <1>5, <2>1, <2>2, <2>3, <2>4, <2>5
    DEF Wrap, Content, Object, Document
<1> QED
  BY <1>4, <1>5, <1>1 DEF Object

LEMMA NamedFinite ==
    ASSUME TypeOK, NEW name
    PROVE  IsFiniteSet(Named(name)) /\ Cardinality(Named(name)) \in Nat
<1>1. lastOid \in Nat
  BY DatabaseAssumption DEF TypeOK
<1>2. IsFiniteSet(1..lastOid)
  BY <1>1, FS_Interval
<1>3. Named(name) \subseteq 1..lastOid
  BY DEF TypeOK, Named
<1> QED
  BY <1>2, <1>3, FS_Subset, FS_CardinalityType

LEMMA InsertingFinite ==
    ASSUME NEW name
    PROVE  /\ IsFiniteSet(Inserting(name)) /\ Cardinality(Inserting(name)) \in Nat
           /\ Cardinality(Inserting(name)) <= Cardinality(Clients)
           /\ Cardinality(Clients) \in Nat
<1>1. Inserting(name) \subseteq Clients
  BY DEF Inserting
<1> QED
  BY <1>1, DatabaseAssumption, FS_Subset, FS_CardinalityType

----------------------------------------------------------------------------
(* Types. *)

LEMMA InitOK == Init => IInv
<1> SUFFICES ASSUME Init
             PROVE  IInv
  OBVIOUS
<1>1. DOMAIN docs = {}
  BY DEF Init
<1>2. NoObject \in Object /\ MaxOids \in Nat
  BY DatabaseAssumption DEF NoObject, Object
<1>3. TypeOK
  BY <1>1, <1>2 DEF Init, TypeOK, NoObject
<1>4. Busy
  BY DEF Init, Busy
<1>5. CallsBounded
  <2> SUFFICES ASSUME NEW name \in Names
               PROVE  Cardinality(Named(name)) + Cardinality(Inserting(name))
                        <= Cardinality(Clients)
    BY DEF CallsBounded
  <2>1. Named(name) = {}
    BY <1>1 DEF Named
  <2>2. Cardinality(Named(name)) = 0
    BY <2>1, FS_EmptySet
  <2> QED
    BY <2>2, InsertingFinite
<1> QED
  BY <1>3, <1>4, <1>5 DEF IInv

\* What the three writes have in common, for the types.
LEMMA WriteTypes ==
    ASSUME TypeOK, Busy, NEW c \in Clients, pc[c] \in {"insert", "remove", "set"},
           Wrap(c), Return(c), doubtful' \subseteq Names,
           DOMAIN docs' \subseteq 1..lastOid',
           \A oid \in DOMAIN docs' : docs'[oid] \in Document
    PROVE  TypeOK' /\ Busy'
<1> DEFINE o == Wrapped(obj[c])
<1>1. /\ o \in Object /\ o.id \in 1..lastOid' /\ o # NoObject
      /\ lastOid' \in 0..MaxOids /\ lastOid <= lastOid'
      /\ obj' = [obj EXCEPT ![c] = o]
  BY WrapProperties
<1> HIDE DEF o
<1>2. lastOid \in Nat /\ MaxOids \in Nat /\ lastOid' \in Nat
  BY <1>1, DatabaseAssumption DEF TypeOK
<1>3. obj' \in [Clients -> Object]
  BY <1>1 DEF TypeOK
<1>4. \A d \in Clients : /\ obj'[d].id <= lastOid'
                         /\ obj'[d].update /\ obj'[d] # NoObject => obj'[d].id > 0
  <2> SUFFICES ASSUME NEW d \in Clients
               PROVE  /\ obj'[d].id <= lastOid'
                      /\ obj'[d].update /\ obj'[d] # NoObject => obj'[d].id > 0
    OBVIOUS
  <2>1. CASE d = c
    BY <2>1, <1>1, <1>2 DEF TypeOK, Object
  <2>2. CASE d # c
    <3>1. obj'[d] = obj[d] /\ obj[d] \in Object
      BY <2>2, <1>1 DEF TypeOK
    <3> QED
      BY <3>1, <1>1, <1>2 DEF TypeOK, Object
  <2> QED
    BY <2>1, <2>2
<1>5. pc' \in [Clients -> {"off", "idle", "insert", "remove", "set"}]
  BY DEF TypeOK, Return
<1>6. TypeOK'
  BY <1>1, <1>3, <1>4, <1>5 DEF TypeOK
<1>7. Busy'
  BY <1>1 DEF Busy, Return, TypeOK
<1> QED
  BY <1>6, <1>7

LEMMA InsertTypes ==
    ASSUME TypeOK, Busy, NEW c \in Clients, NEW ok, Insert(c, ok)
    PROVE  TypeOK' /\ Busy'
<1> DEFINE o == Wrapped(obj[c])
           new == [oid \in DOMAIN docs \cup {o.id} |->
                      IF oid = o.id THEN Content(o) ELSE docs[oid]]
<1>1. pc[c] = "insert" /\ Wrap(c) /\ Return(c) /\ doubtful' = doubtful
  BY DEF Insert
<1>2. docs' = docs \/ docs' = new
  BY WriteShape DEF Insert
<1>3. /\ o.id \in 1..lastOid' /\ Content(o) \in Document
      /\ lastOid <= lastOid' /\ lastOid' \in 0..MaxOids
  BY <1>1, WrapProperties
<1> HIDE DEF o
<1>4. DOMAIN docs' \subseteq 1..lastOid'
  BY <1>2, <1>3, DatabaseAssumption DEF TypeOK
<1>5. \A oid \in DOMAIN docs' : docs'[oid] \in Document
  BY <1>2, <1>3 DEF TypeOK
<1> QED
  BY <1>1, <1>4, <1>5, WriteTypes DEF TypeOK

LEMMA RemoveTypes ==
    ASSUME TypeOK, Busy, NEW c \in Clients, NEW ok, Remove(c, ok)
    PROVE  TypeOK' /\ Busy'
<1>1. pc[c] = "remove" /\ Wrap(c) /\ Return(c) /\ doubtful' = doubtful
  BY DEF Remove
<1> DEFINE S == {oid \in DOMAIN docs : \/ oid # Wrapped(obj[c]).id
                                       \/ docs[oid] # Content(Wrapped(obj[c]))}
<1>2. docs' = docs \/ docs' = Restrict(docs, S)
  BY WriteShape DEF Remove
<1>3. lastOid <= lastOid' /\ lastOid' \in 0..MaxOids
  BY <1>1, WrapProperties
<1>4. DOMAIN docs' \subseteq 1..lastOid'
  BY <1>2, <1>3, DatabaseAssumption DEF TypeOK, Restrict
<1>5. \A oid \in DOMAIN docs' : docs'[oid] \in Document
  BY <1>2, <1>3 DEF TypeOK, Restrict
<1> QED
  BY <1>1, <1>4, <1>5, WriteTypes DEF TypeOK

LEMMA SetTypes ==
    ASSUME TypeOK, Busy, NEW c \in Clients, NEW ok, Set(c, ok)
    PROVE  TypeOK' /\ Busy'
<1> DEFINE o == Wrapped(obj[c])
           new == [oid \in DOMAIN docs |->
                      IF oid = obj[c].id THEN Content(o) ELSE docs[oid]]
<1>1. pc[c] = "set" /\ Wrap(c) /\ Return(c)
  BY DEF Set
<1>2. docs' = docs \/ docs' = new
  BY WriteShape DEF Set
<1>3. /\ o \in Object /\ Content(o) \in Document
      /\ lastOid <= lastOid' /\ lastOid' \in 0..MaxOids
  BY <1>1, WrapProperties
<1>4. doubtful' \in {doubtful, doubtful \cup {o.name}}
  BY DEF Set
<1> HIDE DEF o
<1>5. doubtful' \subseteq Names
  BY <1>3, <1>4 DEF TypeOK, Object
<1>6. DOMAIN docs' \subseteq 1..lastOid'
  BY <1>2, <1>3, DatabaseAssumption DEF TypeOK
<1>7. \A oid \in DOMAIN docs' : docs'[oid] \in Document
  BY <1>2, <1>3 DEF TypeOK
<1> QED
  BY <1>1, <1>5, <1>6, <1>7, WriteTypes

\* The actions that leave the collection and the ids alone change the object or
\* the place in the call of one process.
LEMMA LocalTypes ==
    ASSUME TypeOK, Busy, NEW c \in Clients, UNCHANGED <<docs, lastOid>>,
           NEW o \in Object, obj' = [obj EXCEPT ![c] = o],
           o.id <= lastOid, o.update /\ o # NoObject => o.id > 0,
           NEW p \in {"off", "idle", "insert", "remove", "set"},
           pc' = [pc EXCEPT ![c] = p],
           p \in {"insert", "remove", "set"} => o # NoObject,
           doubtful' \subseteq Names
    PROVE  TypeOK' /\ Busy'
<1>1. obj' \in [Clients -> Object]
  BY DEF TypeOK
<1>2. \A d \in Clients : /\ obj'[d].id <= lastOid'
                         /\ obj'[d].update /\ obj'[d] # NoObject => obj'[d].id > 0
  BY DEF TypeOK
<1>3. TypeOK'
  BY <1>1, <1>2 DEF TypeOK
<1>4. Busy'
  BY DEF Busy, TypeOK
<1> QED
  BY <1>3, <1>4

LEMMA TypesKept ==
    ASSUME TypeOK, Busy, [Next]_vars
    PROVE  TypeOK' /\ Busy'
<1>0. /\ lastOid \in Nat /\ MaxOids \in Nat /\ lastOid <= MaxOids
      /\ \A c \in Clients : obj[c] \in Object
  BY DatabaseAssumption DEF TypeOK
<1>N. NoObject \in Object /\ NoObject.id = 0
  BY <1>0, DatabaseAssumption DEF NoObject, Object
<1>1. ASSUME NEW c \in Clients, Connect(c)
      PROVE  TypeOK' /\ Busy'
  <2>1. obj' = [obj EXCEPT ![c] = obj[c]]
    BY <1>1 DEF Connect, TypeOK
  <2> QED
    BY <1>0, <1>1, <2>1, LocalTypes DEF Connect, TypeOK
<1>2. ASSUME NEW c \in Clients, Exit(c)
      PROVE  TypeOK' /\ Busy'
  <2>1. NoObject.id <= lastOid
    BY <1>0, <1>N
  <2> QED
    BY <1>2, <1>N, <2>1, LocalTypes DEF Exit, TypeOK
<1>3. ASSUME NEW c \in Clients, NEW name \in Names, NEW data \in Data,
             Construct(c, name, data)
      PROVE  TypeOK' /\ Busy'
  <2>1. PICK id \in 0..lastOid :
           obj' = [obj EXCEPT ![c] = [id |-> id, name |-> name, data |-> data,
                                      update |-> FALSE]]
    BY <1>3 DEF Construct
  <2> DEFINE o == [id |-> id, name |-> name, data |-> data, update |-> FALSE]
  <2>2. o \in Object /\ o.id <= lastOid /\ ~o.update
    BY <1>0 DEF Object
  <2>3. pc' = [pc EXCEPT ![c] = "idle"]
    BY <1>3 DEF Construct, TypeOK
  <2>4. UNCHANGED <<docs, lastOid, doubtful>> /\ obj' = [obj EXCEPT ![c] = o]
    BY <1>3, <2>1 DEF Construct
  <2> HIDE DEF o
  <2> QED
    BY <2>2, <2>3, <2>4, LocalTypes DEF TypeOK
<1>4. ASSUME NEW c \in Clients, NEW name \in Names, Read(c, name)
      PROVE  TypeOK' /\ Busy'
  <2>1. pc' = [pc EXCEPT ![c] = "idle"] /\ UNCHANGED <<docs, lastOid, doubtful>>
    BY <1>4 DEF Read, TypeOK
  <2>2. \/ obj' = [obj EXCEPT ![c] = NoObject]
        \/ \E oid \in DOMAIN docs :
              obj' = [obj EXCEPT ![c] = [id |-> oid, name |-> docs[oid].name,
                                         data |-> docs[oid].data, update |-> TRUE]]
    BY <1>4 DEF Read
  <2>3. CASE obj' = [obj EXCEPT ![c] = NoObject]
    <3>1. NoObject.id <= lastOid
      BY <1>0, <1>N
    <3> QED
      BY <1>N, <2>1, <2>3, <3>1, LocalTypes DEF TypeOK
  <2>4. ASSUME NEW oid \in DOMAIN docs,
               obj' = [obj EXCEPT ![c] = [id |-> oid, name |-> docs[oid].name,
                                          data |-> docs[oid].data, update |-> TRUE]]
        PROVE  TypeOK' /\ Busy'
    <3> DEFINE o == [id |-> oid, name |-> docs[oid].name, data |-> docs[oid].data,
                     update |-> TRUE]
    <3>1. oid \in 1..lastOid /\ docs[oid] \in Document
      BY DEF TypeOK
    <3>2. o \in Object /\ o.id <= lastOid /\ o.id > 0
      BY <1>0, <3>1 DEF Object, Document
    <3>3. obj' = [obj EXCEPT ![c] = o]
      BY <2>4
    <3> HIDE DEF o
    <3> QED
      BY <2>1, <3>2, <3>3, LocalTypes DEF TypeOK
  <2> QED
    BY <2>2, <2>3, <2>4
<1>5. ASSUME NEW c \in Clients, NEW name \in Names, SetName(c, name)
      PROVE  TypeOK' /\ Busy'
  <2> DEFINE o == [obj[c] EXCEPT !.name = name]
  <2>1. obj[c] # NoObject /\ obj' = [obj EXCEPT ![c] = o]
    BY <1>5 DEF SetName
  <2>2. o \in Object /\ o.id = obj[c].id /\ o.update = obj[c].update
    BY <1>0 DEF Object
  <2>3. o.id <= lastOid /\ (o.update => o.id > 0)
    BY <1>0, <2>1, <2>2 DEF TypeOK
  <2>4. pc' = [pc EXCEPT ![c] = "idle"] /\ UNCHANGED <<docs, lastOid, doubtful>>
    BY <1>5 DEF SetName, TypeOK
  <2> HIDE DEF o
  <2> QED
    BY <2>1, <2>2, <2>3, <2>4, LocalTypes DEF TypeOK
<1>6. ASSUME NEW c \in Clients, NEW data \in Data, SetBinaryData(c, data)
      PROVE  TypeOK' /\ Busy'
  <2> DEFINE o == [obj[c] EXCEPT !.data = data]
  <2>1. obj[c] # NoObject /\ obj' = [obj EXCEPT ![c] = o]
    BY <1>6 DEF SetBinaryData
  <2>2. o \in Object /\ o.id = obj[c].id /\ o.update = obj[c].update
    BY <1>0 DEF Object
  <2>3. o.id <= lastOid /\ (o.update => o.id > 0)
    BY <1>0, <2>1, <2>2 DEF TypeOK
  <2>4. pc' = [pc EXCEPT ![c] = "idle"] /\ UNCHANGED <<docs, lastOid, doubtful>>
    BY <1>6 DEF SetBinaryData, TypeOK
  <2> HIDE DEF o
  <2> QED
    BY <2>1, <2>2, <2>3, <2>4, LocalTypes DEF TypeOK
<1>7. ASSUME NEW c \in Clients, Create(c) \/ Destroy(c) \/ Update(c)
      PROVE  TypeOK' /\ Busy'
  <2>1. obj[c] # NoObject /\ UNCHANGED <<docs, lastOid, obj>>
    BY <1>7 DEF Create, Destroy, Update, Call, GoOn
  <2>2. PICK p \in {"idle", "insert", "remove", "set"} : pc' = [pc EXCEPT ![c] = p]
    <3>1. CASE Create(c)
      BY <3>1 DEF Create, GoOn
    <3>2. CASE Destroy(c)
      BY <3>2 DEF Destroy, GoOn
    <3>3. CASE Update(c)
      BY <3>3 DEF Update, GoOn
    <3> QED
      BY <1>7, <3>1, <3>2, <3>3
  <2>3. doubtful' \subseteq Names
    <3>1. obj[c].name \in Names
      BY <1>0 DEF Object
    <3> QED
      BY <1>7, <3>1 DEF Create, Destroy, Update, TypeOK
  <2>4. obj' = [obj EXCEPT ![c] = obj[c]]
    BY <2>1 DEF TypeOK
  <2> QED
    BY <1>0, <2>1, <2>2, <2>3, <2>4, LocalTypes DEF TypeOK
<1>8. CASE UNCHANGED vars
  BY <1>8 DEF vars, TypeOK, Busy
<1> QED
  BY <1>1, <1>2, <1>3, <1>4, <1>5, <1>6, <1>7, <1>8,
     InsertTypes, RemoveTypes, SetTypes DEF Next

----------------------------------------------------------------------------
(* Names. *)

\* A step after which a name has no more documents and calls than before.
LEMMA BoundShrinks ==
    ASSUME TypeOK, CallsBounded, doubtful \subseteq doubtful', NEW name \in Names,
           name \notin doubtful',
           Named(name)' \subseteq Named(name),
           Inserting(name)' \subseteq Inserting(name)
    PROVE  Cardinality(Named(name)') + Cardinality(Inserting(name)')
             <= Cardinality(Clients)
<1> DEFINE N == Named(name)
           I == Inserting(name)
           NP == Named(name)'
           IP == Inserting(name)'
<1>1. Cardinality(N) + Cardinality(I) <= Cardinality(Clients)
  BY DEF CallsBounded
<1>2. IsFiniteSet(N) /\ IsFiniteSet(I) /\ Cardinality(N) \in Nat /\ Cardinality(I) \in Nat
  BY NamedFinite, InsertingFinite
<1>3. NP \subseteq N /\ IP \subseteq I
  OBVIOUS
<1> HIDE DEF N, I, NP, IP
<1>4. /\ IsFiniteSet(NP) /\ Cardinality(NP) <= Cardinality(N)
      /\ IsFiniteSet(IP) /\ Cardinality(IP) <= Cardinality(I)
  BY <1>2, <1>3, FS_Subset
<1>5. Cardinality(NP) \in Nat /\ Cardinality(IP) \in Nat /\ Cardinality(Clients) \in Nat
  BY <1>4, DatabaseAssumption, FS_CardinalityType
<1>6. Cardinality(NP) + Cardinality(IP) <= Cardinality(Clients)
  BY <1>1, <1>2, <1>4, <1>5
<1> QED
  BY <1>6 DEF NP, IP

\* The query of create: no document of the name, or a doubtful name.
LEMMA CreateBound ==
    ASSUME TypeOK, CallsBounded, NEW c \in Clients, Create(c)
    PROVE  CallsBounded'
<1>1. docs' = docs /\ obj' = obj /\ doubtful \subseteq doubtful'
  BY DEF Create, GoOn
<1> SUFFICES ASSUME NEW name \in Names, name \notin doubtful'
             PROVE  Cardinality(Named(name)') + Cardinality(Inserting(name)')
                      <= Cardinality(Clients)
  BY DEF CallsBounded
<1>2. Named(name)' = Named(name)
  BY <1>1 DEF Named
<1>3. CASE pc'[c] = "insert" /\ name = obj[c].name
  <2>1. ~NameExists(obj[c].name)
    BY <1>3, <1>1 DEF Create, GoOn, TypeOK
  <2>2. Named(name)' = {}
    BY <1>2, <1>3, <2>1 DEF Named, NameExists
  <2>3. Inserting(name)' \subseteq Clients
    BY DEF Inserting
  <2> DEFINE IP == Inserting(name)'
             NP == Named(name)'
  <2> HIDE DEF IP, NP
  <2>4. /\ Cardinality(IP) <= Cardinality(Clients)
        /\ Cardinality(IP) \in Nat /\ Cardinality(Clients) \in Nat
    BY <2>3, DatabaseAssumption, FS_Subset, FS_CardinalityType DEF IP
  <2>5. Cardinality(NP) = 0
    BY <2>2, FS_EmptySet DEF NP
  <2>6. Cardinality(NP) + Cardinality(IP) <= Cardinality(Clients)
    BY <2>4, <2>5
  <2> QED
    BY <2>6 DEF IP, NP
<1>4. CASE ~(pc'[c] = "insert" /\ name = obj[c].name)
  <2>1. \A d \in Clients \ {c} : pc'[d] = pc[d]
    BY DEF Create, GoOn, TypeOK
  <2>2. Inserting(name)' \subseteq Inserting(name)
    BY <1>1, <1>4, <2>1 DEF Inserting
  <2> QED
    BY <1>1, <1>2, <2>2, BoundShrinks
<1> QED
  BY <1>3, <1>4

\* An insertion turns a call into a document.
LEMMA InsertBound ==
    ASSUME TypeOK, Busy, CallsBounded, NEW c \in Clients, NEW ok, Insert(c, ok)
    PROVE  CallsBounded'
<1> DEFINE o == Wrapped(obj[c])
           new == [oid \in DOMAIN docs \cup {o.id} |->
                      IF oid = o.id THEN Content(o) ELSE docs[oid]]
<1>1. pc[c] = "insert" /\ Wrap(c) /\ Return(c) /\ doubtful' = doubtful
  BY DEF Insert
<1>2. docs' = docs \/ (o.id \notin DOMAIN docs /\ docs' = new)
  BY WriteShape DEF Insert
<1>3. Content(o).name = obj[c].name /\ obj' = [obj EXCEPT ![c] = o]
  BY <1>1, WrapProperties DEF Content
<1>4. \A name : Inserting(name)' = Inserting(name) \ {c}
  BY <1>1, <1>3 DEF Inserting, Return, TypeOK
<1> SUFFICES ASSUME NEW name \in Names, name \notin doubtful'
             PROVE  Cardinality(Named(name)') + Cardinality(Inserting(name)')
                      <= Cardinality(Clients)
  BY DEF CallsBounded
<1>5. CASE docs' = new /\ o.id \notin DOMAIN docs /\ name = obj[c].name
  <2> DEFINE N == Named(name)
             I == Inserting(name)
  <2>1. Named(name)' = N \cup {o.id}
    BY <1>3, <1>5 DEF Named
  <2>2. o.id \notin N /\ c \in I
    BY <1>1, <1>5 DEF Named, Inserting
  <2>3. /\ IsFiniteSet(N) /\ IsFiniteSet(I)
        /\ Cardinality(N) \in Nat /\ Cardinality(I) \in Nat
    BY NamedFinite, InsertingFinite
  <2>4. Cardinality(N) + Cardinality(I) <= Cardinality(Clients)
    BY <1>1 DEF CallsBounded
  <2> HIDE DEF N, I, o
  <2>5. Cardinality(N \cup {o.id}) = Cardinality(N) + 1
    BY <2>2, <2>3, FS_AddElement
  <2>6. Cardinality(I \ {c}) = Cardinality(I) - 1
    BY <2>2, <2>3, FS_RemoveElement
  <2>7. Cardinality(N \cup {o.id}) + Cardinality(I \ {c}) <= Cardinality(Clients)
    BY <2>3, <2>4, <2>5, <2>6, InsertingFinite
  <2>8. Inserting(name)' = I \ {c}
    BY <1>4 DEF I
  <2> QED
    BY <2>1, <2>7, <2>8
<1>6. CASE docs' = docs \/ (docs' = new /\ o.id \notin DOMAIN docs /\ name # obj[c].name)
  <2>1. Named(name)' \subseteq Named(name)
    BY <1>3, <1>6 DEF Named
  <2> QED
    BY <1>1, <1>4, <2>1, BoundShrinks
<1> QED
  BY <1>2, <1>5, <1>6

LEMMA RemoveBound ==
    ASSUME TypeOK, Busy, CallsBounded, NEW c \in Clients, NEW ok, Remove(c, ok)
    PROVE  CallsBounded'
<1>1. pc[c] = "remove" /\ Wrap(c) /\ Return(c) /\ doubtful' = doubtful
  BY DEF Remove
<1> DEFINE S == {oid \in DOMAIN docs : \/ oid # Wrapped(obj[c]).id
                                       \/ docs[oid] # Content(Wrapped(obj[c]))}
<1>0. docs' = docs \/ docs' = Restrict(docs, S)
  BY WriteShape DEF Remove
<1>2. DOMAIN docs' \subseteq DOMAIN docs /\ \A oid \in DOMAIN docs' : docs'[oid] = docs[oid]
  BY <1>0 DEF Restrict
<1>3. \A name : Inserting(name)' \subseteq Inserting(name)
  BY <1>1, WrapProperties DEF Inserting, Return, TypeOK
<1>4. \A name : Named(name)' \subseteq Named(name)
  BY <1>2 DEF Named
<1> QED
  BY <1>1, <1>3, <1>4, BoundShrinks DEF CallsBounded

\* A document that gets a name which is not doubtful had that name before.
LEMMA SetBound ==
    ASSUME TypeOK, Busy, CallsBounded, NEW c \in Clients, NEW ok, Set(c, ok)
    PROVE  CallsBounded'
<1> DEFINE o == Wrapped(obj[c])
           id == obj[c].id
           new == [oid \in DOMAIN docs |-> IF oid = id THEN Content(o) ELSE docs[oid]]
<1>1. pc[c] = "set" /\ Wrap(c) /\ Return(c)
  BY DEF Set
<1>2. docs' = docs \/ docs' = new
  BY WriteShape DEF Set
<1>3. doubtful \subseteq doubtful'
  BY DEF Set
<1>5. Content(o).name = o.name
  BY DEF Content
<1>4. docs' = new /\ id \in DOMAIN docs /\ docs[id].name # o.name => o.name \in doubtful'
  <2> SUFFICES ASSUME docs' = new, id \in DOMAIN docs, docs[id].name # o.name
               PROVE  o.name \in doubtful'
    OBVIOUS
  <2>1. docs'[id].name = o.name
    BY <1>5
  <2> QED
    BY <2>1 DEF Set
<1>6. \A name : Inserting(name)' \subseteq Inserting(name)
  BY <1>1, WrapProperties DEF Inserting, Return, TypeOK
<1> HIDE DEF o, id
<1>7. \A name : name \notin doubtful' => Named(name)' \subseteq Named(name)
  BY <1>2, <1>4, <1>5 DEF Named
<1> QED
  BY <1>3, <1>6, <1>7, BoundShrinks DEF CallsBounded

LEMMA BoundKept ==
    ASSUME TypeOK, Busy, CallsBounded, [Next]_vars
    PROVE  CallsBounded'
<1>1. ASSUME NEW c \in Clients,
             \/ Connect(c) \/ Exit(c) \/ Destroy(c) \/ Update(c)
             \/ \E name \in Names, data \in Data : Construct(c, name, data)
             \/ \E name \in Names : Read(c, name) \/ SetName(c, name)
             \/ \E data \in Data : SetBinaryData(c, data)
      PROVE  CallsBounded'
  <2>1. docs' = docs /\ doubtful' = doubtful
    BY <1>1 DEF Connect, Exit, Destroy, Update, Construct, Read, SetName,
                SetBinaryData, GoOn
  <2>2. pc'[c] # "insert" /\ \A d \in Clients \ {c} : pc'[d] = pc[d] /\ obj'[d] = obj[d]
    <3>1. CASE Connect(c) \/ Exit(c)
      BY <3>1 DEF Connect, Exit, TypeOK
    <3>2. CASE Destroy(c) \/ Update(c)
      BY <3>2 DEF Destroy, Update, GoOn, TypeOK
    <3>3. ASSUME NEW name \in Names, NEW data \in Data,
                 \/ Construct(c, name, data) \/ Read(c, name)
                 \/ SetName(c, name) \/ SetBinaryData(c, data)
          PROVE  pc'[c] # "insert" /\ \A d \in Clients \ {c} : pc'[d] = pc[d] /\ obj'[d] = obj[d]
      BY <3>3 DEF Construct, Read, SetName, SetBinaryData, TypeOK
    <3> QED
      BY <1>1, <3>1, <3>2, <3>3, DatabaseAssumption
  <2>3. \A name : Inserting(name)' \subseteq Inserting(name)
    BY <2>2 DEF Inserting
  <2>4. \A name : Named(name)' \subseteq Named(name)
    BY <2>1 DEF Named
  <2> QED
    BY <2>1, <2>3, <2>4, BoundShrinks DEF CallsBounded
<1>2. CASE UNCHANGED vars
  <2>1. /\ doubtful' = doubtful
        /\ \A name : Inserting(name)' = Inserting(name) /\ Named(name)' = Named(name)
    BY <1>2 DEF vars, Inserting, Named
  <2> QED
    BY <2>1 DEF CallsBounded
<1> QED
  BY <1>1, <1>2, CreateBound, InsertBound, RemoveBound, SetBound DEF Next

----------------------------------------------------------------------------
(* Theorems. *)

LEMMA Invariance == Spec => []IInv
<1>1. IInv /\ [Next]_vars => IInv'
  BY TypesKept, BoundKept DEF IInv
<1> QED
  BY InitOK, <1>1, PTL DEF Spec

\* DatabaseManager::create, update, destroy and Object::wrap: the ids in the
\* collection and of loaded objects were all generated by bson_oid_init.
THEOREM TypeCorrect == Spec => []TypeOK
  BY Invariance, PTL DEF IInv

\* DatabaseManager::create: whatever replies are lost and wherever processes
\* stop, a name has at most as many documents as there are processes, except
\* for the names that update introduced or whose query failed.
THEOREM NamesAreBounded == Spec => []NamesBounded
<1>1. IInv => NamesBounded
  <2> SUFFICES ASSUME TypeOK, CallsBounded, NEW name \in Names \ doubtful
               PROVE  Cardinality(Named(name)) <= Cardinality(Clients)
    BY DEF IInv, NamesBounded
  <2>1. /\ Cardinality(Named(name)) \in Nat /\ Cardinality(Inserting(name)) \in Nat
        /\ Cardinality(Clients) \in Nat
    BY NamedFinite, InsertingFinite
  <2> QED
    BY <2>1 DEF CallsBounded
<1> QED
  BY <1>1, Invariance, PTL

\* What the documentation says of names, that they are unique, holds of one
\* process at a time, as long as no query fails and no object is renamed.
Renames(c) ==
    /\ pc[c] = "set" /\ obj[c].id \in DOMAIN docs
    /\ docs[obj[c].id].name # obj[c].name

SoleUser == Init /\ [][Next /\ \A c \in Clients : Renames(c) => pc'[c] = "off"]_vars

THEOREM OneProcessUnique ==
    ASSUME Cardinality(Clients) = 1, "find" \notin Faults
    PROVE  SoleUser => []UniqueNames
<1> DEFINE SoleNext == Next /\ \A c \in Clients : Renames(c) => pc'[c] = "off"
           NoDoubt == doubtful = {}
<1>1. [SoleNext]_vars => [Next]_vars
  OBVIOUS
<1>2. Init => NoDoubt
  BY DEF Init
<1>3. IInv /\ NoDoubt /\ [SoleNext]_vars => NoDoubt'
  <2> SUFFICES ASSUME IInv, NoDoubt, SoleNext
               PROVE  NoDoubt'
    BY DEF vars
  <2>1. ASSUME NEW c \in Clients, Create(c)
        PROVE  NoDoubt'
    BY <2>1 DEF Create, Found
  <2>2. ASSUME NEW c \in Clients, NEW ok, Set(c, ok)
        PROVE  NoDoubt'
    <3>1. pc[c] = "set" /\ Wrap(c) /\ pc'[c] = "idle"
      BY <2>2 DEF Set, Return, IInv, TypeOK
    <3>2. Wrapped(obj[c]).name = obj[c].name
      BY <3>1, WrapProperties DEF IInv
    <3>3. ~Renames(c)
      BY <3>1
    <3>4. obj[c].id \in DOMAIN docs => docs'[obj[c].id].name = docs[obj[c].id].name
      <4>1. obj[c].id \in DOMAIN docs => docs[obj[c].id].name = Wrapped(obj[c]).name
        BY <3>1, <3>2, <3>3 DEF Renames
      <4>2. \/ docs' = docs
            \/ docs' = [oid \in DOMAIN docs |->
                           IF oid = obj[c].id THEN Content(Wrapped(obj[c])) ELSE docs[oid]]
        BY <2>2 DEF Set, Write
      <4>3. Content(Wrapped(obj[c])).name = Wrapped(obj[c]).name
        BY DEF Content
      <4> QED
        BY <4>1, <4>2, <4>3
    <3> QED
      BY <2>2, <3>4 DEF Set
  <2> QED
    BY <2>1, <2>2 DEF Next, Connect, Exit, Construct, Read, SetName, SetBinaryData,
                      Destroy, Update, Insert, Remove
<1>4. NoDoubt /\ NamesBounded => UniqueNames
  BY DEF NamesBounded, UniqueNames
<1> QED
  BY <1>1, <1>2, <1>3, <1>4, Invariance, NamesAreBounded, PTL DEF SoleUser, Spec

\* A document that a write changes or removes is the one its object came from.
LEMMA ChangedDocument ==
    ASSUME TypeOK, Busy, NEW c \in Clients, NEW ok,
           Insert(c, ok) \/ Remove(c, ok) \/ Set(c, ok),
           NEW oid \in DOMAIN docs,
           oid \notin DOMAIN docs' \/ docs'[oid] # docs[oid]
    PROVE  /\ pc[c] \in {"remove", "set"}
           /\ obj[c].update /\ obj[c].id = oid
           /\ oid \notin DOMAIN docs' => Content(obj[c]) = docs[oid]
<1> DEFINE o == Wrapped(obj[c])
<1>1. docs' # docs
  OBVIOUS
<1>2. oid \in 1..lastOid /\ lastOid \in Nat
  BY DatabaseAssumption DEF TypeOK
<1>3. ~Insert(c, ok)
  <2> SUFFICES ASSUME Insert(c, ok)
               PROVE  FALSE
    OBVIOUS
  <2>1. /\ o.id \notin DOMAIN docs
        /\ docs' = [x \in DOMAIN docs \cup {o.id} |->
                      IF x = o.id THEN Content(o) ELSE docs[x]]
    BY <1>1, WriteShape DEF Insert
  <2> HIDE DEF o
  <2>2. oid \in DOMAIN docs' /\ docs'[oid] = docs[oid]
    BY <2>1
  <2> QED
    BY <2>2
<1>4. CASE Remove(c, ok)
  <2> DEFINE S == {x \in DOMAIN docs : x # o.id \/ docs[x] # Content(o)}
  <2>1. pc[c] = "remove" /\ Wrap(c)
    BY <1>4 DEF Remove
  <2>2. docs' = Restrict(docs, S)
    BY <1>1, <1>4, WriteShape DEF Remove
  <2>3. oid \notin S
    BY <2>2 DEF Restrict
  <2>4. oid = o.id /\ docs[oid] = Content(o)
    BY <2>3
  <2> QED
    BY <1>2, <2>1, <2>4, WrapProperties
<1>5. CASE Set(c, ok)
  <2>1. pc[c] = "set" /\ Wrap(c)
    BY <1>5 DEF Set
  <2>2. /\ obj[c].id \in DOMAIN docs => o.id = obj[c].id
        /\ docs' = [x \in DOMAIN docs |-> IF x = obj[c].id THEN Content(o) ELSE docs[x]]
    BY <1>1, <1>5, WriteShape DEF Set
  <2>3. oid = obj[c].id /\ oid \in DOMAIN docs'
    BY <2>2
  <2> QED
    BY <1>2, <2>1, <2>2, <2>3, WrapProperties
<1> QED
  BY <1>3, <1>4, <1>5

\* The documents change only in the writes.
LEMMA OnlyWritesChange ==
    ASSUME [Next]_vars, docs' # docs
    PROVE  \E c \in Clients, ok \in BOOLEAN : Insert(c, ok) \/ Remove(c, ok) \/ Set(c, ok)
  BY DEF Next, vars, Connect, Exit, Construct, Read, SetName, SetBinaryData,
         Create, Destroy, Update, GoOn

\* DatabaseManager::update and destroy with Object::wrap: an object changes or
\* removes no document but the one it was loaded from.
THEOREM OwnDocumentOnly == Spec => OnlyOwnDocument
<1> DEFINE Own(oid) == \E c \in Clients : /\ pc[c] \in {"remove", "set"}
                                          /\ obj[c].update /\ obj[c].id = oid
           Changed(oid) == oid \notin DOMAIN docs' \/ docs'[oid] # docs[oid]
<1>1. ASSUME TypeOK, Busy, [Next]_vars, NEW oid \in DOMAIN docs, Changed(oid)
      PROVE  Own(oid)
  <2>1. docs' # docs
    BY <1>1
  <2>2. PICK c \in Clients, ok \in BOOLEAN : Insert(c, ok) \/ Remove(c, ok) \/ Set(c, ok)
    BY <1>1, <2>1, OnlyWritesChange
  <2> QED
    BY <1>1, <2>2, ChangedDocument
<1>2. IInv /\ [Next]_vars => [\A oid \in DOMAIN docs : Changed(oid) => Own(oid)]_vars
  BY <1>1 DEF IInv
<1> QED
  BY <1>2, Invariance, PTL DEF Spec, OnlyOwnDocument

\* DatabaseManager::destroy: a document that differs from the object is not
\* removed, so one that was changed since it was loaded stays.
THEOREM StaleDestroyLeaves == Spec => StaleDestroyHarmless
<1> DEFINE Seen(oid) == \E c \in Clients : obj[c].id = oid /\ Content(obj[c]) = docs[oid]
<1>1. ASSUME TypeOK, Busy, [Next]_vars, NEW oid \in DOMAIN docs \ DOMAIN docs'
      PROVE  Seen(oid)
  <2>1. docs' # docs
    OBVIOUS
  <2>2. PICK c \in Clients, ok \in BOOLEAN : Insert(c, ok) \/ Remove(c, ok) \/ Set(c, ok)
    BY <1>1, <2>1, OnlyWritesChange
  <2> QED
    BY <1>1, <2>2, ChangedDocument
<1>2. IInv /\ [Next]_vars => [\A oid \in DOMAIN docs \ DOMAIN docs' : Seen(oid)]_vars
  BY <1>1 DEF IInv
<1> QED
  BY <1>2, Invariance, PTL DEF Spec, StaleDestroyHarmless

=============================================================================
