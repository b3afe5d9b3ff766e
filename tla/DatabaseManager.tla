-------------------------- MODULE DatabaseManager --------------------------
(***************************************************************************)
(* core/DAO: objects (object.cpp, cte/Objects/script.cpp) that are stored  *)
(* as documents of a MongoDB collection by DatabaseManager.  Several       *)
(* processes may work on one collection.  A call is synchronous in its     *)
(* process, but it makes two round trips to the server, a query and a      *)
(* write, and the other processes run between them.                        *)
(*                                                                         *)
(* The server is external: it answers a query from the documents it holds, *)
(* applies a write atomically, keeps _id unique and refuses to change it.  *)
(* The operators named Faulty are for mutation, as in DataMan.             *)
(***************************************************************************)
EXTENDS Integers, FiniteSets, Functions

CONSTANTS
    Clients,   \* the processes
    Names,     \* the names of objects
    NoName,    \* the empty name
    Data,      \* the binary data of scripts
    NoData,    \* empty binary data
    MaxOids,   \* bound: object ids generated
    Faults     \* what can go wrong: "find", a query fails; "write", a write
               \* fails; "reply", a write is applied and its reply is lost

ASSUME DatabaseAssumption ==
    /\ IsFiniteSet(Clients)
    /\ NoName \in Names
    /\ NoData \in Data
    /\ MaxOids \in Nat
    /\ Faults \subseteq {"find", "write", "reply"}

VARIABLES
    docs,      \* the collection: a function from _id to the rest of a document
    lastOid,   \* how many ids bson_oid_init has given out: they are 1..lastOid
    obj,       \* per process, the object it works on
    pc,        \* per process, where it is in a call
    doubtful   \* history: the names that create or update may have duplicated

vars == <<docs, lastOid, obj, pc, doubtful>>

Document == [name : Names, data : Data]

\* m_id, m_name, m_binaryData and m_update.  The constructors leave m_id
\* uninitialized: the memory may hold the id of an earlier object, or bytes (0)
\* that are no document's id.
Object == [id : 0..MaxOids, name : Names, data : Data, update : BOOLEAN]
NoObject == [id |-> 0, name |-> NoName, data |-> NoData, update |-> TRUE]

Content(o) == [name |-> o.name, data |-> o.data]
NameExists(name) == \E oid \in DOMAIN docs : docs[oid].name = name

\* unwrap refuses a document with an empty name or empty data.
Readable(doc) == doc.name # NoName /\ doc.data # NoData

\* Object::wrap as it leaves the object: one that was not loaded gets a new id
\* each time.
FaultyWrapped(o) == o                         \* never a new id
Wrapped(o) == IF o.update THEN o ELSE [o EXCEPT !.id = lastOid + 1]

Wrap(c) ==
    /\ obj' = [obj EXCEPT ![c] = Wrapped(@)]
    /\ IF obj[c].update
       THEN UNCHANGED lastOid
       ELSE lastOid < MaxOids /\ lastOid' = lastOid + 1

\* What findQuery may return when a document is there or not: a failed query
\* is taken for "not found".
Found(there) == {there} \cup IF "find" \in Faults THEN {FALSE} ELSE {}

\* The server accepts the write that leaves the documents new, or refuses it;
\* ok is what the driver, and the call, return.
Write(new, accepted, ok) ==
    \/ accepted /\ ok /\ docs' = new
    \/ (accepted => "write" \in Faults) /\ ~ok /\ docs' = docs
    \/ accepted /\ "reply" \in Faults /\ ~ok /\ docs' = new

----------------------------------------------------------------------------
Init ==
    /\ docs = << >>
    /\ lastOid = 0
    /\ obj = [c \in Clients |-> NoObject]
    /\ pc = [c \in Clients |-> "off"]
    /\ doubtful = {}

\* main connects before anything else and leaves when that fails.
Connect(c) ==
    /\ pc[c] = "off"
    /\ pc' = [pc EXCEPT ![c] = "idle"]
    /\ UNCHANGED <<docs, lastOid, obj, doubtful>>

\* The process ends, in the middle of a call or not.
Exit(c) ==
    /\ pc[c] # "off"
    /\ pc' = [pc EXCEPT ![c] = "off"]
    /\ obj' = [obj EXCEPT ![c] = NoObject]
    /\ UNCHANGED <<docs, lastOid, doubtful>>

Construct(c, name, data) ==
    /\ pc[c] = "idle"
    /\ \E id \in 0..lastOid :
          obj' = [obj EXCEPT ![c] = [id |-> id, name |-> name, data |-> data,
                                     update |-> FALSE]]
    /\ UNCHANGED <<docs, lastOid, pc, doubtful>>

\* read: some readable document of that name, or nullptr.
Read(c, name) ==
    /\ pc[c] = "idle"
    /\ LET found == {oid \in DOMAIN docs : docs[oid].name = name /\ Readable(docs[oid])}
       IN  \/ \E oid \in found :
                obj' = [obj EXCEPT ![c] = [id |-> oid, name |-> docs[oid].name,
                                           data |-> docs[oid].data, update |-> TRUE]]
           \/ /\ FALSE \in Found(found # {})
              /\ obj' = [obj EXCEPT ![c] = NoObject]
    /\ UNCHANGED <<docs, lastOid, pc, doubtful>>

SetName(c, name) ==
    /\ pc[c] = "idle" /\ obj[c] # NoObject
    /\ obj' = [obj EXCEPT ![c].name = name]
    /\ UNCHANGED <<docs, lastOid, pc, doubtful>>

SetBinaryData(c, data) ==
    /\ pc[c] = "idle" /\ obj[c] # NoObject
    /\ obj' = [obj EXCEPT ![c].data = data]
    /\ UNCHANGED <<docs, lastOid, pc, doubtful>>

----------------------------------------------------------------------------
(* create, destroy and update: the query, after which a call goes on to its *)
(* write or returns FALSE, and the write, after which it returns ok.        *)

Call(c) == pc[c] = "idle" /\ obj[c] # NoObject

GoOn(c, yes, next) ==
    /\ pc' = [pc EXCEPT ![c] = IF yes THEN next ELSE "idle"]
    /\ UNCHANGED <<docs, lastOid, obj>>

Return(c) == pc' = [pc EXCEPT ![c] = "idle"]

FaultyCreate(c) ==                            \* findName's answer not used
    Call(c) /\ GoOn(c, TRUE, "insert") /\ UNCHANGED doubtful

Create(c) ==
    /\ Call(c)
    /\ \E found \in Found(NameExists(obj[c].name)) :
          /\ GoOn(c, ~found, "insert")
          /\ doubtful' = IF NameExists(obj[c].name) /\ ~found
                         THEN doubtful \cup {obj[c].name} ELSE doubtful

Insert(c, ok) ==
    LET o == Wrapped(obj[c])
    IN  /\ pc[c] = "insert"
        /\ Wrap(c)
        /\ Write([oid \in DOMAIN docs \cup {o.id} |->
                     IF oid = o.id THEN Content(o) ELSE docs[oid]],
                 o.id \notin DOMAIN docs, ok)
        /\ Return(c)
        /\ UNCHANGED doubtful

Destroy(c) ==
    /\ Call(c)
    /\ \E found \in Found(NameExists(obj[c].name)) : GoOn(c, found, "remove")
    /\ UNCHANGED doubtful

\* The query of the removal is the whole document that wrap builds.
FaultyRemove(c, ok) ==                        \* _id alone
    /\ pc[c] = "remove"
    /\ Wrap(c)
    /\ Write(Restrict(docs, DOMAIN docs \ {obj[c].id}), TRUE, ok)
    /\ Return(c)
    /\ UNCHANGED doubtful

Remove(c, ok) ==
    LET o == Wrapped(obj[c])
    IN  /\ pc[c] = "remove"
        /\ Wrap(c)
        /\ Write(Restrict(docs, {oid \in DOMAIN docs :
                                    oid # o.id \/ docs[oid] # Content(o)}),
                 TRUE, ok)
        /\ Return(c)
        /\ UNCHANGED doubtful

Update(c) ==
    /\ Call(c)
    /\ \E found \in Found(obj[c].id \in DOMAIN docs) : GoOn(c, found, "set")
    /\ UNCHANGED doubtful

\* The document is looked up by the id before wrap, and $set carries the id
\* after it.  To match no document is no error.
Set(c, ok) ==
    LET o == Wrapped(obj[c])
        id == obj[c].id
    IN  /\ pc[c] = "set"
        /\ Wrap(c)
        /\ Write([oid \in DOMAIN docs |-> IF oid = id THEN Content(o) ELSE docs[oid]],
                 id \in DOMAIN docs => o.id = id, ok)
        /\ Return(c)
        /\ doubtful' = IF id \in DOMAIN docs /\ docs'[id].name # docs[id].name
                       THEN doubtful \cup {o.name} ELSE doubtful

Next ==
    \E c \in Clients :
        \/ Connect(c) \/ Exit(c)
        \/ \E name \in Names, data \in Data : Construct(c, name, data)
        \/ \E name \in Names : Read(c, name) \/ SetName(c, name)
        \/ \E data \in Data : SetBinaryData(c, data)
        \/ Create(c) \/ Destroy(c) \/ Update(c)
        \/ \E ok \in BOOLEAN : Insert(c, ok) \/ Remove(c, ok) \/ Set(c, ok)

Spec == Init /\ [][Next]_vars

----------------------------------------------------------------------------
(* Properties *)

\* The ids in the collection and of loaded objects were generated: no
\* uninitialized m_id ever reaches the server as the _id of a document.
TypeOK ==
    /\ lastOid \in 0..MaxOids
    /\ DOMAIN docs \subseteq 1..lastOid
    /\ \A oid \in DOMAIN docs : docs[oid] \in Document
    /\ obj \in [Clients -> Object]
    /\ \A c \in Clients :
          /\ obj[c].id <= lastOid
          /\ obj[c].update /\ obj[c] # NoObject => obj[c].id > 0
    /\ pc \in [Clients -> {"off", "idle", "insert", "remove", "set"}]
    /\ doubtful \subseteq Names

\* update and destroy change or remove only the document that the object was
\* loaded from.  An object that was never loaded has an id that may be any
\* document's, and findOID accepts it; only the new id of wrap saves that
\* document.
OnlyOwnDocument ==
    [][\A oid \in DOMAIN docs :
          oid \notin DOMAIN docs' \/ docs'[oid] # docs[oid] =>
            \E c \in Clients : /\ pc[c] \in {"remove", "set"}
                               /\ obj[c].update /\ obj[c].id = oid]_vars

\* No process stores a name twice, whatever replies are lost and wherever it
\* stops: a name has at most as many documents as there are processes, so at
\* most one when there is one process.  The exceptions are the names that update
\* gave to a document, which it does not check, and those for which the query of
\* create failed although a document was there.
Named(name) == {oid \in DOMAIN docs : docs[oid].name = name}

NamesBounded ==
    \A name \in Names \ doubtful : Cardinality(Named(name)) <= Cardinality(Clients)

\* destroy with an old copy of a document that has been changed since, or with
\* a copy that was itself changed, leaves the document alone.
StaleDestroyHarmless ==
    [][\A oid \in DOMAIN docs \ DOMAIN docs' :
          \E c \in Clients : obj[c].id = oid /\ Content(obj[c]) = docs[oid]]_vars

\* test_corelib_dbmng.cpp:43-45: the names of a collection are unique, because
\* create does not insert a name that is already there.
UniqueNames == \A name \in Names : Cardinality(Named(name)) <= 1

\* test_corelib_dbmng.cpp:112-114: for an object to be updated it is enough
\* that its id is in the collection.
IdSufficesForUpdate ==
    [][\A c \in Clients :
          obj[c].id \in DOMAIN docs => ~Set(c, FALSE)]_vars

\* test_corelib_dbmng.cpp:149-150 and 167-168: an object is not updated when
\* its name is already in the collection.
UpdateRefusesKnownName ==
    [][\A c \in Clients : NameExists(obj[c].name) => ~Set(c, TRUE)]_vars

=============================================================================
