--------------------------- MODULE ScriptInstall ---------------------------
(***************************************************************************)
(* The installation and loading of scripts (cte/Ui/mainwindow.cpp) on top  *)
(* of DatabaseManager: a window reads the script of the chosen file's name *)
(* from the database, asks whether to replace it, compiles the file, runs  *)
(* it and stores the chunk.  Several windows, each a process of its own,   *)
(* share the collection; the others work while the user answers or a call  *)
(* is under way.  The chunk of a file is its name and the version that it  *)
(* held when it was compiled: files may be edited at any time.             *)
(***************************************************************************)
EXTENDS DatabaseManager

CONSTANTS
    Versions,     \* the contents of files that compile
    Truncated     \* the first bytes of a chunk

Chunk(name, version) == <<name, version>>

ASSUME InstallAssumption ==
    /\ Truncated \in Data
    /\ \A name \in Names \ {NoName}, version \in Versions : Chunk(name, version) \in Data

VARIABLES
    win       \* per process, its window: where installScripts is, the chosen
              \* name, whether read found a script, m_data of the LuaProcessor,
              \* the last message about storing and, as history, the document
              \* that the user has agreed to replace

installVars == <<win, vars>>

Places == {"idle", "question", "compile", "store", "storing"}
Messages == {"none", "error", "success"}

Window == [at : Places, name : Names, found : BOOLEAN, data : Data, told : Messages,
           agreed : SUBSET (1..MaxOids)]
NewWindow == [at |-> "idle", name |-> NoName, found |-> FALSE, data |-> NoData,
              told |-> "none", agreed |-> {}]

At(c, place) == pc[c] = "idle" /\ win[c].at = place

----------------------------------------------------------------------------
InstallInit ==
    /\ Init
    /\ win = [c \in Clients |-> NewWindow]

Start(c) == Connect(c) /\ UNCHANGED win

Close(c) == Exit(c) /\ win' = [win EXCEPT ![c] = NewWindow]

\* installScripts up to the question.
ChooseFile(c, name) ==
    /\ At(c, "idle")
    /\ Read(c, name)
    /\ LET found == obj'[c] # NoObject
       IN  win' = [win EXCEPT ![c].at = IF found THEN "question" ELSE "compile",
                              ![c].name = name, ![c].found = found, ![c].told = "none",
                              ![c].agreed = {}]

FaultyAnswer(c, yes) ==                         \* goes on after a No
    /\ At(c, "question")
    /\ win' = [win EXCEPT ![c].at = "compile",
                          ![c].agreed = IF yes THEN {obj[c].id} ELSE {}]
    /\ UNCHANGED vars

\* The answer: a script that is deleted stays in obj, where nothing uses it.
Answer(c, yes) ==
    /\ At(c, "question")
    /\ win' = [win EXCEPT ![c].at = IF yes THEN "compile" ELSE "idle",
                          ![c].agreed = IF yes THEN {obj[c].id} ELSE {}]
    /\ UNCHANGED vars

FaultyPrepare(c, data) ==                       \* setBinaryData left out
    IF win[c].found THEN UNCHANGED vars ELSE Construct(c, win[c].name, data)

\* The script object that is to be stored, the one that read returned or a new
\* one, gets what m_data holds.
Prepare(c, data) ==
    IF win[c].found THEN SetBinaryData(c, data) ELSE Construct(c, win[c].name, data)

FaultyCompileFails(c) ==                        \* compileScript's result not used
    /\ At(c, "compile")
    /\ Prepare(c, win[c].data)
    /\ win' = [win EXCEPT ![c].at = "store"]

\* The file is missing or does not compile.
CompileFails(c) ==
    /\ At(c, "compile")
    /\ win' = [win EXCEPT ![c].at = "idle"]
    /\ UNCHANGED vars

\* compileScript, doBuffer, which runs the chunk, and the script object.
Compile(c, version) ==
    LET data == Chunk(win[c].name, version)
    IN  /\ At(c, "compile")
        /\ Prepare(c, data)
        /\ win' = [win EXCEPT ![c].at = "store", ![c].data = data]

\* update or create, the query: the call may return false at once.
Store(c) ==
    /\ At(c, "store")
    /\ IF win[c].found THEN Update(c) ELSE Create(c)
    /\ win' = IF pc'[c] = "idle"
              THEN [win EXCEPT ![c].at = "idle", ![c].told = "error"]
              ELSE [win EXCEPT ![c].at = "storing"]

\* The write, and the message about it.
Stored(c, ok) ==
    /\ win[c].at = "storing"
    /\ Insert(c, ok) \/ Set(c, ok)
    /\ win' = [win EXCEPT ![c].at = "idle", ![c].told = IF ok THEN "success" ELSE "error"]

\* loadScript and loadAllScripts, when there is a script to run: doBuffer leaves
\* in m_data the bytes before the first zero.
Load(c) ==
    /\ At(c, "idle")
    /\ \E oid \in DOMAIN docs : Readable(docs[oid])
    /\ win' = [win EXCEPT ![c].data = Truncated]
    /\ UNCHANGED vars

InstallNext ==
    \E c \in Clients :
        \/ Start(c) \/ Close(c)
        \/ \E name \in Names \ {NoName} : ChooseFile(c, name)
        \/ \E yes \in BOOLEAN : Answer(c, yes)
        \/ CompileFails(c) \/ Store(c) \/ Load(c)
        \/ \E version \in Versions : Compile(c, version)
        \/ \E ok \in BOOLEAN : Stored(c, ok)

InstallSpec == InstallInit /\ [][InstallNext]_installVars

----------------------------------------------------------------------------
(* Properties *)

InstallTypeOK ==
    /\ TypeOK
    /\ win \in [Clients -> Window]
    /\ \A c \in Clients : /\ win[c].at # "idle" => win[c].name # NoName
                          /\ pc[c] = "off" => win[c] = NewWindow

\* Every document holds a whole chunk of the file that it is named after: not
\* what another installation or a loaded script has left in m_data, whatever
\* the order of loading and installing, editing, failing and stopping.
StoredIsCompiled ==
    \A oid \in DOMAIN docs :
        \E version \in Versions : docs[oid].data = Chunk(docs[oid].name, version)

\* "Sucesso" is shown only when a document of the chosen name holds the chunk
\* that this window compiled and ran, although the document was looked up
\* before the user was asked and other windows have worked since.
SuccessIsTrue ==
    [][\A c \in Clients :
          win[c].at = "storing" /\ win'[c].told = "success" =>
              \E oid \in DOMAIN docs' :
                  docs'[oid] = [name |-> win[c].name, data |-> win[c].data]]_installVars

\* A stored script is never removed or renamed, and it is replaced only by a
\* window whose user was asked about this very document and said yes, whatever
\* was stored under its name between the reading, the answer and the writing.
ReplacedByConsent ==
    [][\A oid \in DOMAIN docs :
          /\ oid \in DOMAIN docs' /\ docs'[oid].name = docs[oid].name
          /\ docs'[oid] # docs[oid] =>
                \E c \in Clients : win[c].at = "storing" /\ oid \in win[c].agreed]_installVars

=============================================================================
