------------------------ MODULE ScriptInstall_proofs ------------------------
(***************************************************************************)
(* Theorems about ScriptInstall, for any finite set of windows, any names, *)
(* versions and data, any number of ids and any faults.                    *)
(***************************************************************************)
EXTENDS ScriptInstall, DatabaseManager_proofs

----------------------------------------------------------------------------
(* The inductive invariant. *)

WindowTypes ==
    /\ win \in [Clients -> Window]
    /\ \A c \in Clients : /\ win[c].at # "idle" => win[c].name # NoName /\ win[c].told = "none"
                          /\ pc[c] = "off" => win[c] = NewWindow

\* A window is in a call exactly while it stores.
CallFits(c) ==
    /\ pc[c] \in {"insert", "set"} <=> win[c].at = "storing"
    /\ pc[c] # "remove"
    /\ win[c].at = "storing" => (win[c].found <=> pc[c] = "set")

\* A script that read has found is a document's and has its name, from the
\* question to the end, and what the user agreed to is to replace this document.
FoundFits(c) ==
    /\ win[c].at = "question" => win[c].found
    /\ win[c].at # "idle" /\ win[c].found =>
          /\ obj[c].name = win[c].name
          /\ obj[c].update
          /\ obj[c].id \in DOMAIN docs
          /\ docs[obj[c].id].name = win[c].name
          /\ win[c].at # "question" => win[c].agreed = {obj[c].id}

\* A step removes and renames no document.
NamesKept == \A oid \in DOMAIN docs : oid \in DOMAIN docs' /\ docs'[oid].name = docs[oid].name

\* What is to be stored is what was compiled.
ScriptFits(c) ==
    win[c].at \in {"store", "storing"} =>
        /\ obj[c] # NoObject
        /\ Content(obj[c]) = [name |-> win[c].name, data |-> win[c].data]
        /\ \E version \in Versions : win[c].data = Chunk(win[c].name, version)

WindowFits(c) == CallFits(c) /\ FoundFits(c) /\ ScriptFits(c)

WInv == WindowTypes /\ (\A c \in Clients : WindowFits(c)) /\ StoredIsCompiled

----------------------------------------------------------------------------
(* What a window does to the database. *)

LEMMA ChunkInData ==
    ASSUME WindowTypes, NEW c \in Clients, At(c, "compile"), NEW version \in Versions
    PROVE  Chunk(win[c].name, version) \in Data /\ win[c].name \in Names
<1>1. win[c] \in Window /\ win[c].name # NoName
  BY DEF WindowTypes, At
<1>2. win[c].name \in Names
  BY <1>1 DEF Window
<1> QED
  BY <1>1, <1>2, InstallAssumption

\* Every step of a window is a step of DatabaseManager, or none.
LEMMA StepImplements ==
    ASSUME WindowTypes, [InstallNext]_installVars
    PROVE  [Next]_vars
<1>1. CASE UNCHANGED installVars
  BY <1>1 DEF installVars
<1>2. ASSUME NEW c \in Clients,
             \/ Start(c) \/ Close(c)
             \/ \E name \in Names \ {NoName} : ChooseFile(c, name)
             \/ \E yes \in BOOLEAN : Answer(c, yes)
             \/ CompileFails(c) \/ Store(c) \/ Load(c)
             \/ \E ok \in BOOLEAN : Stored(c, ok)
      PROVE  [Next]_vars
  BY <1>2 DEF Next, Start, Close, ChooseFile, Answer, CompileFails, Store, Load, Stored
<1>3. ASSUME NEW c \in Clients, NEW version \in Versions, Compile(c, version)
      PROVE  [Next]_vars
  <2> DEFINE data == Chunk(win[c].name, version)
  <2>1. At(c, "compile") /\ Prepare(c, data)
    BY <1>3 DEF Compile
  <2>2. data \in Data /\ win[c].name \in Names
    BY <2>1, ChunkInData
  <2>3. SetBinaryData(c, data) \/ Construct(c, win[c].name, data)
    BY <2>1 DEF Prepare
  <2> HIDE DEF data
  <2> QED
    BY <2>2, <2>3 DEF Next
<1> QED
  BY <1>1, <1>2, <1>3 DEF InstallNext

----------------------------------------------------------------------------
(* The invariant. *)

\* No window removes a document, or changes what is named after what: a step
\* leaves the documents alone, or one of them gets a name and a compiled chunk.
LEMMA StoredStep ==
    ASSUME TypeOK, Busy, WindowTypes, NEW c \in Clients, WindowFits(c), StoredIsCompiled,
           NEW ok, Stored(c, ok)
    PROVE  /\ StoredIsCompiled' /\ NamesKept
           /\ pc' = [pc EXCEPT ![c] = "idle"]
           /\ obj' = [obj EXCEPT ![c] = obj'[c]]
<1> DEFINE o == Wrapped(obj[c])
<1>1. /\ pc[c] \in {"insert", "set"} /\ Wrap(c) /\ Return(c)
      /\ win[c].at = "storing"
  BY DEF Stored, Insert, Set
<1>2. /\ Content(o) = Content(obj[c]) /\ obj' = [obj EXCEPT ![c] = o]
  BY <1>1, WrapProperties
<1>3. \E version \in Versions : Content(o).data = Chunk(Content(o).name, version)
  <2>1. Content(obj[c]) = [name |-> win[c].name, data |-> win[c].data]
    BY <1>1 DEF WindowFits, ScriptFits
  <2>2. \E version \in Versions : win[c].data = Chunk(win[c].name, version)
    BY <1>1 DEF WindowFits, ScriptFits
  <2> QED
    BY <1>2, <2>1, <2>2
<1>4. \/ docs' = docs
      \/ /\ o.id \notin DOMAIN docs
         /\ docs' = [oid \in DOMAIN docs \cup {o.id} |->
                        IF oid = o.id THEN Content(o) ELSE docs[oid]]
      \/ /\ pc[c] = "set"
         /\ docs' = [oid \in DOMAIN docs |->
                        IF oid = obj[c].id THEN Content(o) ELSE docs[oid]]
  BY DEF Stored, Insert, Set, Write
<1>8. pc[c] = "set" => Content(o).name = docs[obj[c].id].name
  BY <1>1, <1>2 DEF WindowFits, CallFits, FoundFits, Content
<1> HIDE DEF o
<1>5. NamesKept
  BY <1>4, <1>8 DEF NamesKept
<1>6. StoredIsCompiled'
  BY <1>3, <1>4 DEF StoredIsCompiled
<1>7. obj' = [obj EXCEPT ![c] = obj'[c]]
  BY <1>2 DEF TypeOK
<1> QED
  BY <1>1, <1>5, <1>6, <1>7 DEF Return

\* What the other windows have keeps fitting.
LEMMA OthersFit ==
    ASSUME NEW d \in Clients, WindowFits(d), NamesKept,
           obj'[d] = obj[d], pc'[d] = pc[d], win'[d] = win[d]
    PROVE  WindowFits(d)'
  BY DEF WindowFits, CallFits, FoundFits, ScriptFits, NamesKept

\* A step of one window: its own part is all there is to show.
LEMMA OneWindow ==
    ASSUME TypeOK, WInv, NEW c \in Clients, NEW w \in Window,
           win' = [win EXCEPT ![c] = w],
           pc' = [pc EXCEPT ![c] = pc'[c]], obj' = [obj EXCEPT ![c] = obj'[c]],
           NamesKept, StoredIsCompiled',
           w.at # "idle" => w.name # NoName /\ w.told = "none",
           pc'[c] = "off" => w = NewWindow,
           WindowFits(c)'
    PROVE  WInv'
<1>1. \A d \in Clients : WindowFits(d)'
  <2> SUFFICES ASSUME NEW d \in Clients, d # c
               PROVE  WindowFits(d)'
    OBVIOUS
  <2>1. obj'[d] = obj[d] /\ pc'[d] = pc[d] /\ win'[d] = win[d]
    BY DEF TypeOK, WInv, WindowTypes
  <2> QED
    BY <2>1, OthersFit DEF WInv
<1>2. WindowTypes'
  BY DEF WindowTypes, WInv, TypeOK
<1> QED
  BY <1>1, <1>2 DEF WInv

LEMMA ChooseFileKeeps ==
    ASSUME TypeOK, WInv, NEW c \in Clients, NEW name \in Names \ {NoName}, ChooseFile(c, name)
    PROVE  WInv'
<1> DEFINE w == [win[c] EXCEPT !.at = IF obj'[c] # NoObject THEN "question" ELSE "compile",
                               !.name = name, !.found = (obj'[c] # NoObject), !.told = "none",
                               !.agreed = {}]
<1>1. /\ pc[c] = "idle" /\ pc' = pc /\ docs' = docs
      /\ win[c] \in Window
  BY DEF ChooseFile, At, Read, WInv, WindowTypes
<1>2. obj' = [obj EXCEPT ![c] = obj'[c]]
  <2>1. PICK o : obj' = [obj EXCEPT ![c] = o]
    BY DEF ChooseFile, Read
  <2> QED
    BY <2>1 DEF TypeOK
<1>3. obj'[c] # NoObject => /\ obj'[c].name = name /\ obj'[c].update
                            /\ obj'[c].id \in DOMAIN docs /\ docs[obj'[c].id].name = name
  <2>1. CASE obj' = [obj EXCEPT ![c] = NoObject]
    BY <2>1 DEF TypeOK
  <2>2. ASSUME NEW oid \in DOMAIN docs, docs[oid].name = name,
               obj' = [obj EXCEPT ![c] = [id |-> oid, name |-> docs[oid].name,
                                          data |-> docs[oid].data, update |-> TRUE]]
        PROVE  /\ obj'[c].name = name /\ obj'[c].update
               /\ obj'[c].id \in DOMAIN docs /\ docs[obj'[c].id].name = name
    BY <2>2 DEF TypeOK
  <2> QED
    BY <2>1, <2>2 DEF ChooseFile, Read
<1>4. win' = [win EXCEPT ![c] = w]
  BY DEF ChooseFile
<1>5. /\ w \in Window /\ w.at \in {"question", "compile"} /\ w.name = name
      /\ w.told = "none" /\ (w.found <=> obj'[c] # NoObject)
      /\ w.found <=> w.at = "question"
  <2>1. /\ DOMAIN win[c] = {"at", "name", "found", "data", "told", "agreed"}
        /\ win[c].data \in Data
    BY <1>1 DEF Window
  <2>2. /\ w.at \in {"question", "compile"} /\ w.name = name /\ w.told = "none"
        /\ w.data = win[c].data /\ w.agreed = {}
    BY <2>1
  <2>5. obj'[c] # NoObject <=> w.at = "question"
    BY <2>1
  <2>3. w.found <=> obj'[c] # NoObject
    BY <2>1, Zenon
  <2>4. w.found \in BOOLEAN
    BY <2>1, Zenon
  <2> QED
    BY <1>1, <2>2, <2>3, <2>4, <2>5 DEF Window, Places, Messages
<1>6. win'[c] = w
  BY <1>4 DEF WInv, WindowTypes
<1> HIDE DEF w
<1>7. WindowFits(c)'
  <2>1. CallFits(c)' /\ ScriptFits(c)'
    BY <1>1, <1>5, <1>6 DEF CallFits, ScriptFits
  <2>2. FoundFits(c)'
    BY <1>1, <1>3, <1>5, <1>6 DEF FoundFits
  <2> QED
    BY <2>1, <2>2 DEF WindowFits
<1>8. StoredIsCompiled' /\ NamesKept
  BY <1>1 DEF WInv, StoredIsCompiled, NamesKept
<1>9. pc' = [pc EXCEPT ![c] = pc'[c]] /\ pc'[c] # "off" /\ w.name # NoName
  BY <1>1, <1>5 DEF TypeOK
<1> QED
  BY <1>2, <1>4, <1>5, <1>7, <1>8, <1>9, OneWindow

LEMMA CompileKeeps ==
    ASSUME TypeOK, WInv, NEW c \in Clients, NEW version \in Versions, Compile(c, version)
    PROVE  WInv'
<1> DEFINE data == Chunk(win[c].name, version)
           w == [win[c] EXCEPT !.at = "store", !.data = data]
<1>1. /\ pc[c] = "idle" /\ win[c].at = "compile" /\ win[c] \in Window
      /\ win[c].name # NoName /\ win[c].told = "none" /\ data \in Data
      /\ FoundFits(c) /\ obj \in [Clients -> Object]
  BY ChunkInData DEF Compile, At, WInv, WindowTypes, WindowFits, TypeOK
<1>2. Prepare(c, data) /\ win' = [win EXCEPT ![c] = w]
  BY DEF Compile
<1> HIDE DEF data
<1>3. pc' = pc /\ docs' = docs
  BY <1>2 DEF Prepare, SetBinaryData, Construct
<1>4. /\ obj' = [obj EXCEPT ![c] = obj'[c]] /\ obj'[c] # NoObject
      /\ Content(obj'[c]) = [name |-> win[c].name, data |-> data]
      /\ win[c].found => /\ obj'[c].name = win[c].name
                         /\ obj'[c].update /\ obj'[c].id \in DOMAIN docs
                         /\ docs[obj'[c].id].name = win[c].name
                         /\ win[c].agreed = {obj'[c].id}
  <2>1. CASE win[c].found
    <3>1. /\ obj' = [obj EXCEPT ![c] = [obj[c] EXCEPT !.data = data]]
          /\ obj[c] \in Object
          /\ obj[c].name = win[c].name /\ obj[c].update /\ obj[c].id \in DOMAIN docs
          /\ docs[obj[c].id].name = win[c].name /\ win[c].agreed = {obj[c].id}
      BY <2>1, <1>1, <1>2 DEF Prepare, SetBinaryData, FoundFits
    <3>2. obj'[c] = [obj[c] EXCEPT !.data = data]
      BY <3>1, <1>1
    <3>3. /\ obj'[c].name = win[c].name /\ obj'[c].data = data
          /\ obj'[c].update /\ obj'[c].id = obj[c].id
      BY <3>1, <3>2 DEF Object
    <3>4. obj'[c] # NoObject
      BY <3>3, <1>1 DEF NoObject
    <3>5. obj' = [obj EXCEPT ![c] = obj'[c]]
      BY <3>1, <3>2
    <3> QED
      BY <3>1, <3>3, <3>4, <3>5 DEF Content
  <2>2. CASE ~win[c].found
    <3>1. PICK id : obj' = [obj EXCEPT ![c] = [id |-> id, name |-> win[c].name, data |-> data,
                                               update |-> FALSE]]
      BY <2>2, <1>2 DEF Prepare, Construct
    <3>2. obj'[c] = [id |-> id, name |-> win[c].name, data |-> data, update |-> FALSE]
      BY <3>1, <1>1
    <3>3. obj'[c] # NoObject /\ Content(obj'[c]) = [name |-> win[c].name, data |-> data]
      BY <3>2, <1>1 DEF NoObject, Content
    <3>4. obj' = [obj EXCEPT ![c] = obj'[c]]
      BY <3>1, <3>2
    <3> QED
      BY <3>3, <3>4, <2>2
  <2> QED
    BY <2>1, <2>2
<1>5. /\ w \in Window /\ w.at = "store" /\ w.name = win[c].name /\ w.data = data
      /\ w.found = win[c].found /\ w.told = "none" /\ w.agreed = win[c].agreed
  BY <1>1 DEF Window, Places
<1>6. win'[c] = w
  BY <1>2 DEF WInv, WindowTypes
<1> HIDE DEF w
<1>7. WindowFits(c)'
  <2>1. CallFits(c)'
    BY <1>1, <1>3, <1>5, <1>6 DEF CallFits
  <2>2. FoundFits(c)'
    BY <1>3, <1>4, <1>5, <1>6 DEF FoundFits
  <2>3. ScriptFits(c)'
    <3>1. data = Chunk(win'[c].name, version)
      BY <1>5, <1>6 DEF data
    <3> QED
      BY <3>1, <1>4, <1>5, <1>6 DEF ScriptFits, Content
  <2> QED
    BY <2>1, <2>2, <2>3 DEF WindowFits
<1>8. StoredIsCompiled' /\ NamesKept
  BY <1>3 DEF WInv, StoredIsCompiled, NamesKept
<1>9. pc' = [pc EXCEPT ![c] = pc'[c]] /\ pc'[c] # "off"
  BY <1>1, <1>3 DEF TypeOK
<1> QED
  BY <1>1, <1>2, <1>4, <1>5, <1>7, <1>8, <1>9, OneWindow

LEMMA StoreKeeps ==
    ASSUME TypeOK, WInv, NEW c \in Clients, Store(c)
    PROVE  WInv'
<1>1. /\ pc[c] = "idle" /\ win[c].at = "store" /\ win[c] \in Window
      /\ FoundFits(c) /\ ScriptFits(c) /\ win[c].name # NoName /\ win[c].told = "none"
  BY DEF Store, At, WInv, WindowTypes, WindowFits
<1>2. docs' = docs /\ obj' = obj
  BY DEF Store, Update, Create, GoOn
<1>3. PICK p \in {"idle", "insert", "set"} :
         pc' = [pc EXCEPT ![c] = p] /\ (p # "idle" => (win[c].found <=> p = "set"))
  BY DEF Store, Update, Create, GoOn
<1>4. pc'[c] = p
  BY <1>3 DEF TypeOK
<1>5. PICK w \in Window :
         /\ win' = [win EXCEPT ![c] = w] /\ w.at = (IF p = "idle" THEN "idle" ELSE "storing")
         /\ w.name = win[c].name /\ w.data = win[c].data /\ w.found = win[c].found
         /\ w.agreed = win[c].agreed
         /\ w.at # "idle" => w.told = "none"
  <2>1. CASE p = "idle"
    <3> DEFINE w == [win[c] EXCEPT !.at = "idle", !.told = "error"]
    <3>1. /\ w \in Window /\ w.at = "idle" /\ w.name = win[c].name
          /\ w.data = win[c].data /\ w.found = win[c].found
          /\ w.agreed = win[c].agreed
      BY <1>1 DEF Window, Places, Messages
    <3>2. win' = [win EXCEPT ![c] = w]
      BY <1>4, <2>1 DEF Store
    <3> QED
      BY <2>1, <3>1, <3>2
  <2>2. CASE p # "idle"
    <3> DEFINE w == [win[c] EXCEPT !.at = "storing"]
    <3>1. /\ w \in Window /\ w.at = "storing" /\ w.told = "none" /\ w.name = win[c].name
          /\ w.data = win[c].data /\ w.found = win[c].found
          /\ w.agreed = win[c].agreed
      BY <1>1 DEF Window, Places
    <3>2. win' = [win EXCEPT ![c] = w]
      BY <1>4, <2>2 DEF Store
    <3> QED
      BY <2>2, <3>1, <3>2
  <2> QED
    BY <2>1, <2>2
<1>6. win'[c] = w
  BY <1>5 DEF WInv, WindowTypes
<1>7. WindowFits(c)'
  <2>1. CallFits(c)'
    BY <1>3, <1>4, <1>5, <1>6 DEF CallFits
  <2>2. FoundFits(c)'
    BY <1>1, <1>2, <1>5, <1>6 DEF FoundFits
  <2>3. ScriptFits(c)'
    BY <1>1, <1>2, <1>5, <1>6 DEF ScriptFits, Content
  <2> QED
    BY <2>1, <2>2, <2>3 DEF WindowFits
<1>8. StoredIsCompiled' /\ NamesKept
  BY <1>2 DEF WInv, StoredIsCompiled, NamesKept
<1>9. pc' = [pc EXCEPT ![c] = pc'[c]] /\ obj' = [obj EXCEPT ![c] = obj'[c]]
  BY <1>2, <1>3, <1>4 DEF TypeOK
<1> QED
  BY <1>1, <1>4, <1>5, <1>7, <1>8, <1>9, OneWindow

LEMMA StoredKeeps ==
    ASSUME TypeOK, Busy, WInv, NEW c \in Clients, NEW ok, Stored(c, ok)
    PROVE  WInv'
<1> DEFINE w == [win[c] EXCEPT !.at = "idle", !.told = IF ok THEN "success" ELSE "error"]
<1>1. /\ StoredIsCompiled' /\ NamesKept
      /\ pc' = [pc EXCEPT ![c] = "idle"] /\ obj' = [obj EXCEPT ![c] = obj'[c]]
  BY StoredStep DEF WInv
<1>2. w \in Window /\ w.at = "idle"
  BY DEF WInv, WindowTypes, Window, Places, Messages
<1>3. win' = [win EXCEPT ![c] = w]
  BY DEF Stored
<1>4. win'[c] = w /\ pc'[c] = "idle"
  BY <1>1, <1>3 DEF TypeOK, WInv, WindowTypes
<1> HIDE DEF w
<1>5. WindowFits(c)'
  BY <1>2, <1>4 DEF WindowFits, CallFits, FoundFits, ScriptFits
<1>6. pc' = [pc EXCEPT ![c] = pc'[c]]
  BY <1>1, <1>4
<1> QED
  BY <1>1, <1>2, <1>3, <1>4, <1>5, <1>6, OneWindow

\* The steps that leave the database and the object alone, except for what
\* connecting and closing do.
LEMMA LocalKeeps ==
    ASSUME TypeOK, WInv, NEW c \in Clients,
           \/ Start(c) \/ Close(c) \/ CompileFails(c) \/ Load(c)
           \/ \E yes \in BOOLEAN : Answer(c, yes)
    PROVE  WInv'
<1>1. win[c] \in Window /\ WindowFits(c) /\ docs' = docs
  BY DEF WInv, WindowTypes, Start, Connect, Close, Exit, CompileFails, Load, Answer, vars
<1>2. StoredIsCompiled' /\ NamesKept
  BY <1>1 DEF WInv, StoredIsCompiled, NamesKept
<1>3. CASE Start(c)
  <2>1. /\ win[c] = NewWindow /\ win' = [win EXCEPT ![c] = win[c]]
        /\ pc' = [pc EXCEPT ![c] = "idle"] /\ obj' = obj
    BY <1>3 DEF Start, Connect, WInv, WindowTypes
  <2>2. /\ win'[c] = NewWindow /\ pc'[c] = "idle"
        /\ pc' = [pc EXCEPT ![c] = pc'[c]] /\ obj' = [obj EXCEPT ![c] = obj'[c]]
    BY <2>1 DEF TypeOK, WInv, WindowTypes
  <2>3. WindowFits(c)' /\ win[c].at = "idle"
    BY <2>1, <2>2 DEF NewWindow, WindowFits, CallFits, FoundFits, ScriptFits
  <2> QED
    BY <1>1, <1>2, <2>1, <2>2, <2>3, OneWindow
<1>4. CASE Close(c)
  <2>1. /\ win' = [win EXCEPT ![c] = NewWindow]
        /\ pc' = [pc EXCEPT ![c] = "off"] /\ obj' = [obj EXCEPT ![c] = NoObject]
    BY <1>4 DEF Close, Exit
  <2>2. NewWindow \in Window /\ NewWindow.at = "idle"
    BY DatabaseAssumption DEF NewWindow, Window, Places, Messages
  <2>3. /\ win'[c] = NewWindow /\ pc'[c] = "off"
        /\ pc' = [pc EXCEPT ![c] = pc'[c]] /\ obj' = [obj EXCEPT ![c] = obj'[c]]
    BY <2>1 DEF TypeOK, WInv, WindowTypes
  <2>4. WindowFits(c)'
    BY <2>2, <2>3 DEF WindowFits, CallFits, FoundFits, ScriptFits
  <2> QED
    BY <1>2, <2>1, <2>2, <2>3, <2>4, OneWindow
<1>5. CASE CompileFails(c) \/ Load(c) \/ \E yes \in BOOLEAN : Answer(c, yes)
  <2>1. pc[c] = "idle" /\ pc' = pc /\ obj' = obj
    BY <1>5 DEF CompileFails, Load, Answer, At, vars
  <2>2. PICK w \in Window :
           /\ win' = [win EXCEPT ![c] = w]
           /\ w.at # "idle" => /\ w.at = "compile" /\ win[c].at # "idle"
                               /\ w.name = win[c].name /\ w.found = win[c].found
                               /\ w.told = win[c].told
                               /\ w.found => w.agreed = {obj[c].id}
    <3>1. CASE CompileFails(c)
      <4>1. [win[c] EXCEPT !.at = "idle"] \in Window
        BY <1>1 DEF Window, Places
      <4> QED
        BY <3>1, <4>1, <1>1 DEF CompileFails, Window
    <3>2. CASE Load(c)
      <4>1. [win[c] EXCEPT !.data = Truncated] \in Window
        BY <1>1, InstallAssumption DEF Window
      <4> QED
        BY <3>2, <4>1, <1>1 DEF Load, At, Window
    <3>3. ASSUME NEW yes \in BOOLEAN, Answer(c, yes)
          PROVE  \E w \in Window :
                   /\ win' = [win EXCEPT ![c] = w]
                   /\ w.at # "idle" => /\ w.at = "compile" /\ win[c].at # "idle"
                                       /\ w.name = win[c].name /\ w.found = win[c].found
                                       /\ w.told = win[c].told
                                       /\ w.found => w.agreed = {obj[c].id}
      <4> DEFINE agreed == IF yes THEN {obj[c].id} ELSE {}
                 w == [win[c] EXCEPT !.at = IF yes THEN "compile" ELSE "idle",
                                     !.agreed = agreed]
      <4>2. win' = [win EXCEPT ![c] = w] /\ win[c].at = "question"
        BY <3>3 DEF Answer, At
      <4>3. agreed \in SUBSET (1..MaxOids)
        <5>1. win[c].found
          BY <1>1, <4>2 DEF WindowFits, FoundFits
        <5>2. obj[c].id \in 1..lastOid /\ lastOid \in 0..MaxOids /\ MaxOids \in Nat
          BY <1>1, <4>2, <5>1, DatabaseAssumption DEF WindowFits, FoundFits, TypeOK
        <5> QED
          BY <5>2
      <4>1. /\ w \in Window /\ w.at \in {"compile", "idle"} /\ w.name = win[c].name
            /\ w.found = win[c].found /\ w.told = win[c].told
            /\ w.at = "compile" => w.agreed = {obj[c].id}
        BY <1>1, <4>3 DEF Window, Places
      <4> QED
        BY <4>1, <4>2
    <3> QED
      BY <1>5, <3>1, <3>2, <3>3
  <2>3. win'[c] = w /\ (w.at # "idle" => w.name # NoName /\ w.told = "none")
    BY <2>2 DEF WInv, WindowTypes
  <2>4. WindowFits(c)'
    <3>1. CallFits(c)' /\ ScriptFits(c)'
      BY <2>1, <2>2, <2>3 DEF CallFits, ScriptFits
    <3>2. FoundFits(c)'
      BY <1>1, <2>1, <2>2, <2>3 DEF WindowFits, FoundFits
    <3> QED
      BY <3>1, <3>2 DEF WindowFits
  <2>5. pc' = [pc EXCEPT ![c] = pc'[c]] /\ obj' = [obj EXCEPT ![c] = obj'[c]]
    BY <2>1 DEF TypeOK
  <2> QED
    BY <1>2, <2>1, <2>2, <2>3, <2>4, <2>5, OneWindow
<1> QED
  BY <1>3, <1>4, <1>5

LEMMA WInvKept ==
    ASSUME TypeOK, Busy, WInv, [InstallNext]_installVars
    PROVE  WInv'
<1>1. CASE UNCHANGED installVars
  BY <1>1 DEF installVars, vars, WInv, WindowTypes, WindowFits, CallFits, FoundFits,
              ScriptFits, StoredIsCompiled
<1>2. CASE InstallNext
  BY <1>2, ChooseFileKeeps, CompileKeeps, StoreKeeps, StoredKeeps, LocalKeeps DEF InstallNext
<1> QED
  BY <1>1, <1>2

LEMMA WInvInit == InstallInit => Init /\ WInv
<1> SUFFICES ASSUME InstallInit
             PROVE  Init /\ WInv
  OBVIOUS
<1>1. Init /\ DOMAIN docs = {} /\ win = [c \in Clients |-> NewWindow]
  BY DEF InstallInit, Init
<1>2. NewWindow \in Window /\ NewWindow.at = "idle"
  BY DatabaseAssumption DEF NewWindow, Window, Places, Messages
<1> QED
  BY <1>1, <1>2 DEF Init, WInv, WindowTypes, WindowFits, CallFits, FoundFits, ScriptFits,
                    StoredIsCompiled

----------------------------------------------------------------------------
(* The theorems. *)

LEMMA InstallInvariance == InstallSpec => [](TypeOK /\ Busy /\ WInv)
<1>1. InstallInit => TypeOK /\ Busy /\ WInv
  BY WInvInit, InitOK DEF IInv
<1>2. TypeOK /\ Busy /\ WInv /\ [InstallNext]_installVars => (TypeOK /\ Busy /\ WInv)'
  <2> SUFFICES ASSUME TypeOK, Busy, WInv, [InstallNext]_installVars
               PROVE  (TypeOK /\ Busy /\ WInv)'
    OBVIOUS
  <2>1. [Next]_vars
    BY StepImplements DEF WInv
  <2> QED
    BY <2>1, TypesKept, WInvKept
<1> QED
  BY <1>1, <1>2, PTL DEF InstallSpec

\* The windows' actions are DatabaseManager's, so what is proved of it holds of
\* the windows.
LEMMA InstallImplements == InstallSpec => Spec
<1>1. WInv /\ [InstallNext]_installVars => [Next]_vars
  BY StepImplements DEF WInv
<1>2. InstallInit => Init
  BY DEF InstallInit
<1> QED
  BY <1>1, <1>2, InstallInvariance, PTL DEF InstallSpec, Spec

\* No window renames, so only a failed query makes a name doubtful.
LEMMA DoubtKept ==
    ASSUME "find" \notin Faults, TypeOK, Busy, WInv, doubtful = {},
           [InstallNext]_installVars
    PROVE  doubtful' = {}
<1>1. ASSUME NEW c \in Clients, NEW ok, Stored(c, ok)
      PROVE  doubtful' = {}
  <2>1. CASE Insert(c, ok)
    BY <2>1 DEF Insert
  <2>2. CASE Set(c, ok)
    <3>1. NamesKept
      BY <1>1, StoredStep DEF WInv
    <3> QED
      BY <2>2, <3>1 DEF Set, NamesKept
  <2> QED
    BY <1>1, <2>1, <2>2 DEF Stored
<1>2. ASSUME NEW c \in Clients, Store(c)
      PROVE  doubtful' = {}
  BY <1>2 DEF Store, Update, Create, Found
<1>3. ASSUME NEW c \in Clients,
             \/ Start(c) \/ Close(c) \/ CompileFails(c) \/ Load(c)
             \/ \E name \in Names \ {NoName} : ChooseFile(c, name)
             \/ \E yes \in BOOLEAN : Answer(c, yes)
             \/ \E version \in Versions : Compile(c, version)
      PROVE  doubtful' = {}
  BY <1>3 DEF Start, Connect, Close, Exit, CompileFails, Load, ChooseFile, Read, Answer,
              Compile, Prepare, SetBinaryData, Construct, vars
<1>4. CASE UNCHANGED installVars
  BY <1>4 DEF installVars, vars
<1> QED
  BY <1>1, <1>2, <1>3, <1>4 DEF InstallNext

\* Without exceptions: each window adds at most one document of a name.
OncePerWindow == \A name \in Names : Cardinality(Named(name)) <= Cardinality(Clients)

\* installScripts: when no query fails, a script is stored at most once per
\* window, with one window at most once, whatever writes fail, replies are lost,
\* compilations fail and windows close.  (One window stores a script twice when
\* both the query of read and that of create fail.)
THEOREM StoredOncePerWindow ==
    ASSUME "find" \notin Faults
    PROVE  InstallSpec => []OncePerWindow
<1> DEFINE NoDoubt == doubtful = {}
<1>1. InstallInit => NoDoubt
  BY DEF InstallInit, Init
<1>2. TypeOK /\ Busy /\ WInv /\ NoDoubt /\ [InstallNext]_installVars => NoDoubt'
  BY DoubtKept
<1>3. NamesBounded /\ NoDoubt => OncePerWindow
  BY DEF NamesBounded, OncePerWindow
<1> QED
  BY <1>1, <1>2, <1>3, InstallInvariance, InstallImplements, NamesAreBounded, PTL
  DEF InstallSpec

\* The types of the windows and of the database below them.
THEOREM InstallTypeCorrect == InstallSpec => []InstallTypeOK
<1>1. TypeOK /\ WInv => InstallTypeOK
  BY DEF WInv, WindowTypes, InstallTypeOK
<1> QED
  BY <1>1, InstallInvariance, PTL

\* installScripts with compileScript and doBuffer: every document holds a chunk
\* that was compiled from the file it is named after.
THEOREM OnlyCompiledStored == InstallSpec => []StoredIsCompiled
<1>1. WInv => StoredIsCompiled
  BY DEF WInv
<1> QED
  BY <1>1, InstallInvariance, PTL

\* One write of a window whose call returns true.
LEMMA StoredIsThere ==
    ASSUME TypeOK, Busy, WInv, NEW c \in Clients, Stored(c, TRUE)
    PROVE  \E oid \in DOMAIN docs' :
              docs'[oid] = [name |-> win[c].name, data |-> win[c].data]
<1> DEFINE o == Wrapped(obj[c])
<1>1. /\ pc[c] \in {"insert", "set"} /\ Wrap(c) /\ win[c].at = "storing"
      /\ FoundFits(c) /\ ScriptFits(c) /\ CallFits(c)
  BY DEF Stored, Insert, Set, WInv, WindowFits
<1>2. Content(o) = [name |-> win[c].name, data |-> win[c].data]
  BY <1>1, WrapProperties DEF ScriptFits
<1>3. CASE Insert(c, TRUE)
  <2>1. docs' = [oid \in DOMAIN docs \cup {o.id} |->
                   IF oid = o.id THEN Content(o) ELSE docs[oid]]
    BY <1>3 DEF Insert, Write
  <2> HIDE DEF o
  <2> QED
    BY <1>2, <2>1
<1>4. CASE Set(c, TRUE)
  <2>1. obj[c].id \in DOMAIN docs
    BY <1>1, <1>4 DEF Set, CallFits, FoundFits
  <2>2. docs' = [oid \in DOMAIN docs |->
                   IF oid = obj[c].id THEN Content(o) ELSE docs[oid]]
    BY <1>4 DEF Set, Write
  <2> HIDE DEF o
  <2> QED
    BY <1>2, <2>1, <2>2
<1> QED
  BY <1>3, <1>4 DEF Stored

\* installScripts: the message of success is true.
THEOREM SuccessMessageTrue == InstallSpec => SuccessIsTrue
<1> DEFINE Kept(c) == \E oid \in DOMAIN docs' :
                        docs'[oid] = [name |-> win[c].name, data |-> win[c].data]
           Told(c) == win[c].at = "storing" /\ win'[c].told = "success"
<1>1. ASSUME TypeOK, Busy, WInv, [InstallNext]_installVars, NEW c \in Clients, Told(c)
      PROVE  Kept(c)
  <2>1. /\ win[c] \in Window /\ win \in [Clients -> Window] /\ win[c].told = "none"
        /\ win[c].at = "storing" /\ pc[c] \in {"insert", "set"} /\ win' # win
    BY <1>1 DEF WInv, WindowTypes, WindowFits, CallFits
  <2>2. PICK d \in Clients :
           \/ Start(d) \/ Close(d)
           \/ \E name \in Names \ {NoName} : ChooseFile(d, name)
           \/ \E yes \in BOOLEAN : Answer(d, yes)
           \/ CompileFails(d) \/ Store(d) \/ Load(d)
           \/ \E version \in Versions : Compile(d, version)
           \/ \E ok \in BOOLEAN : Stored(d, ok)
    BY <1>1, <2>1 DEF InstallNext, installVars
  <2>3. d # c => win'[c] = win[c]
    <3>1. CASE \E name \in Names \ {NoName} : ChooseFile(d, name)
      BY <2>1, <3>1 DEF ChooseFile
    <3>2. CASE Store(d) \/ \E version \in Versions : Compile(d, version)
      BY <2>1, <3>2 DEF Store, Compile
    <3>3. CASE \/ Start(d) \/ Close(d) \/ CompileFails(d) \/ Load(d)
               \/ \E yes \in BOOLEAN : Answer(d, yes)
               \/ \E ok \in BOOLEAN : Stored(d, ok)
      BY <2>1, <3>3 DEF Start, Close, CompileFails, Load, Answer, Stored
    <3> QED
      BY <2>2, <3>1, <3>2, <3>3
  <2>4. d = c
    BY <1>1, <2>1, <2>3
  <2>5. CASE Close(c)
    BY <1>1, <2>1, <2>5 DEF Close, NewWindow
  <2>6. CASE ~Close(c)
    <3>1. PICK ok \in BOOLEAN : Stored(c, ok)
      BY <2>1, <2>2, <2>4, <2>6 DEF Start, ChooseFile, Answer, CompileFails, Store, Load,
                                    Compile, At
    <3>2. win'[c].told = IF ok THEN "success" ELSE "error"
      BY <2>1, <3>1 DEF Stored, Window
    <3>3. ok = TRUE
      BY <1>1, <3>2
    <3> QED
      BY <1>1, <3>1, <3>3, StoredIsThere
  <2> QED
    BY <2>5, <2>6
<1>2. TypeOK /\ Busy /\ WInv /\ [InstallNext]_installVars =>
        \A c \in Clients : Told(c) => Kept(c)
  BY <1>1
<1> QED
  BY <1>2, InstallInvariance, PTL DEF InstallSpec, SuccessIsTrue

\* The documents change only when a window stores.
LEMMA OnlyStoredWrites ==
    ASSUME [InstallNext]_installVars, docs' # docs
    PROVE  \E c \in Clients, ok \in BOOLEAN : Stored(c, ok)
<1>1. ASSUME NEW c \in Clients,
             \/ Start(c) \/ Close(c) \/ CompileFails(c) \/ Load(c) \/ Store(c)
             \/ \E yes \in BOOLEAN : Answer(c, yes)
      PROVE  FALSE
  BY <1>1 DEF Start, Connect, Close, Exit, CompileFails, Load, Store, Update, Create, GoOn,
              Answer, vars
<1>2. ASSUME NEW c \in Clients, NEW name, ChooseFile(c, name)
      PROVE  FALSE
  BY <1>2 DEF ChooseFile, Read
<1>3. ASSUME NEW c \in Clients, NEW version, Compile(c, version)
      PROVE  FALSE
  BY <1>3 DEF Compile, Prepare, SetBinaryData, Construct
<1> QED
  BY <1>1, <1>2, <1>3 DEF InstallNext, installVars, vars

\* installScripts: a stored script stays and keeps its name, and only a user who
\* was asked about it replaces it.
THEOREM ConsentGiven == InstallSpec => ReplacedByConsent
<1> DEFINE Agreed(oid) == \E c \in Clients : win[c].at = "storing" /\ oid \in win[c].agreed
           Kept(oid) == /\ oid \in DOMAIN docs' /\ docs'[oid].name = docs[oid].name
                        /\ docs'[oid] # docs[oid] => Agreed(oid)
<1>1. ASSUME TypeOK, Busy, WInv, [InstallNext]_installVars, NEW oid \in DOMAIN docs
      PROVE  Kept(oid)
  <2>1. CASE docs' = docs
    BY <2>1
  <2>2. CASE docs' # docs
    <3>1. PICK c \in Clients, ok \in BOOLEAN : Stored(c, ok)
      BY <1>1, <2>2, OnlyStoredWrites
    <3>2. NamesKept
      BY <1>1, <3>1, StoredStep DEF WInv
    <3>3. ASSUME docs'[oid] # docs[oid]
          PROVE  Agreed(oid)
      <4>1. pc[c] \in {"remove", "set"} /\ obj[c].id = oid
        BY <1>1, <3>1, <3>3, ChangedDocument DEF Stored
      <4>2. win[c].at = "storing" /\ win[c].found /\ FoundFits(c)
        BY <1>1, <3>1, <4>1 DEF Stored, WInv, WindowFits, CallFits
      <4>3. win[c].agreed = {oid}
        BY <4>1, <4>2 DEF FoundFits
      <4> QED
        BY <4>2, <4>3
    <3> QED
      BY <3>2, <3>3 DEF NamesKept
  <2> QED
    BY <2>1, <2>2
<1>2. TypeOK /\ Busy /\ WInv /\ [InstallNext]_installVars =>
        \A oid \in DOMAIN docs : Kept(oid)
  BY <1>1
<1> QED
  BY <1>2, InstallInvariance, PTL DEF InstallSpec, ReplacedByConsent

=============================================================================
