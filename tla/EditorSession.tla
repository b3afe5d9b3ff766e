--------------------------- MODULE EditorSession ---------------------------
(***************************************************************************)
(* One window from its constructor to the end of its destructor            *)
(* (cte/Ui/mainwindow.cpp), and who owns the editors and the proxy.  The   *)
(* window makes one EditorProxy, which keeps a pointer to the editor that  *)
(* was opened last.  Scripts reach it through Lua objects, as many as they *)
(* like: each holds the same pointer, and the finalizer of each deletes    *)
(* what it points to (core/LuaWrapper/luna.h).  Lua calls a finalizer when *)
(* it collects an object and, for those that are left, in lua_close.       *)
(*                                                                         *)
(* Scripts run in the thread of the user interface: no tab is opened or    *)
(* closed while one runs.  The use of what is deleted is undefined: the    *)
(* session is over then and the model says nothing of what follows.        *)
(***************************************************************************)
EXTENDS Naturals

CONSTANTS
    MaxEditors,    \* bound: how many editors are ever opened
    MaxObjects     \* bound: how many objects scripts make

ASSUME SessionAssumption == MaxEditors \in Nat \ {0} /\ MaxObjects \in Nat

VARIABLES
    phase,     \* what runs: the event loop, a script, the destructor, or nothing
    fault,     \* the undefined operation that ended the session
    tabs,      \* the editors that are open, numbered as they were opened
    opened,    \* how many editors have been opened
    proxy,     \* m_proxy's object: whether it is deleted, and its m_editor
    made,      \* how many objects scripts have made; they are 1..made
    held,      \* the objects that scripts can still reach
    finobj,    \* Lua's list of the objects whose finalizer has yet to be called...
    tobefnz    \* ...and of those of them that it has found dead

vars == <<phase, fault, tabs, opened, proxy, made, held, finobj, tobefnz>>

lua == <<made, held, finobj, tobefnz>>

Phases == {"events", "script", "closing", "ended", "undefined"}
Faults == {"none", "register", "editor", "call", "delete", "results", "null"}

Objects == 1..made

\* The objects whose finalizer has been called.
Finalized == Objects \ (finobj \cup tobefnz)

Undefined(operation) ==
    /\ phase' = "undefined"
    /\ fault' = operation
    /\ UNCHANGED <<tabs, opened, proxy, lua>>

----------------------------------------------------------------------------
(* The window *)

FaultyInit ==                                   \* the first editor not registered
    /\ phase = "events"
    /\ fault = "none"
    /\ tabs = {1}
    /\ opened = 1
    /\ proxy = [deleted |-> FALSE, editor |-> 0]
    /\ made = 0
    /\ held = {} /\ finobj = {} /\ tobefnz = {}

\* setupMainWindow makes the proxy and setupEditor the first editor.
Init ==
    /\ phase = "events"
    /\ fault = "none"
    /\ tabs = {1}
    /\ opened = 1
    /\ proxy = [deleted |-> FALSE, editor |-> 1]
    /\ made = 0
    /\ held = {} /\ finobj = {} /\ tobefnz = {}

FaultyOpenNewEditor ==                          \* registerEditor left out
    /\ phase = "events" /\ tabs # {} /\ opened < MaxEditors
    /\ opened' = opened + 1
    /\ tabs' = tabs \cup {opened + 1}
    /\ UNCHANGED <<phase, fault, proxy, lua>>

\* Ctrl and a click in an editor.
OpenNewEditor ==
    /\ phase = "events" /\ tabs # {} /\ opened < MaxEditors
    /\ IF proxy.deleted
       THEN Undefined("register")
       ELSE /\ opened' = opened + 1
            /\ tabs' = tabs \cup {opened + 1}
            /\ proxy' = [proxy EXCEPT !.editor = opened + 1]
            /\ UNCHANGED <<phase, fault, lua>>

\* Qt deletes the editor of a tab that is closed; the proxy is not told.
CloseTab(editor) ==
    /\ phase = "events"
    /\ editor \in tabs
    /\ tabs' = tabs \ {editor}
    /\ UNCHANGED <<phase, fault, opened, proxy, lua>>

\* m_editor of the window is null from the constructor on.
GoToLine == phase = "events" /\ Undefined("null")

\* installScripts, loadScript or loadAllScripts has something to compile or run,
\* and control comes back from Lua, with an error or without.
StartScript == phase = "events" /\ phase' = "script" /\ UNCHANGED <<fault, tabs, opened, proxy, lua>>

EndScript == phase = "script" /\ phase' = "events" /\ UNCHANGED <<fault, tabs, opened, proxy, lua>>

----------------------------------------------------------------------------
(* What a script does *)

\* editor(): another object for the same proxy, with a finalizer.
NewObject ==
    /\ phase = "script" /\ made < MaxObjects
    /\ made' = made + 1
    /\ held' = held \cup {made'}
    /\ finobj' = finobj \cup {made'}
    /\ UNCHANGED <<phase, fault, tabs, opened, proxy, tobefnz>>

\* title, name or jumpline of an object.  The first two say that they return as
\* many values as the text has bytes: overrun stands for a text with more of
\* them than Lua's stack has values, in a script that uses what is returned.
Call(o, overrun) ==
    /\ phase = "script" /\ o \in held
    /\ IF proxy.deleted THEN Undefined("call")
       ELSE IF proxy.editor \notin tabs THEN Undefined("editor")
       ELSE IF overrun THEN Undefined("results")
       ELSE UNCHANGED vars

\* The last reference to an object goes: a variable is assigned, or a function
\* or the script that has it as a local returns.
Drop(o) ==
    /\ phase = "script" /\ o \in held
    /\ held' = held \ {o}
    /\ UNCHANGED <<phase, fault, tabs, opened, proxy, made, finobj, tobefnz>>

----------------------------------------------------------------------------
(* Finalizers *)

FaultySeparate ==                               \* objects in use as well
    /\ phase = "script" /\ finobj # {}
    /\ tobefnz' = tobefnz \cup finobj
    /\ finobj' = {}
    /\ UNCHANGED <<phase, fault, tabs, opened, proxy, made, held>>

\* A cycle of the collector, whose steps Lua takes while it allocates: of the
\* dead objects it may leave those that died since it began.
Separate ==
    /\ phase = "script"
    /\ \E dead \in SUBSET (finobj \ held) :
          /\ dead # {}
          /\ tobefnz' = tobefnz \cup dead
          /\ finobj' = finobj \ dead
    /\ UNCHANGED <<phase, fault, tabs, opened, proxy, made, held>>

FaultyFinalize(o) ==                            \* an object left in the list
    /\ phase \in {"script", "closing"} /\ o \in tobefnz
    /\ IF proxy.deleted
       THEN UNCHANGED vars
       ELSE /\ tobefnz' = tobefnz \ {o}
            /\ proxy' = [proxy EXCEPT !.deleted = TRUE]
            /\ UNCHANGED <<phase, fault, tabs, opened, made, held, finobj>>

\* GCTM: the object leaves the list and gc_obj deletes its proxy.
Finalize(o) ==
    /\ phase \in {"script", "closing"} /\ o \in tobefnz
    /\ IF proxy.deleted
       THEN Undefined("delete")
       ELSE /\ tobefnz' = tobefnz \ {o}
            /\ proxy' = [proxy EXCEPT !.deleted = TRUE]
            /\ UNCHANGED <<phase, fault, tabs, opened, made, held, finobj>>

FaultyClose ==                                  \* the line that is commented out
    /\ phase = "events"
    /\ IF proxy.deleted
       THEN Undefined("delete")
       ELSE /\ phase' = "closing"
            /\ proxy' = [proxy EXCEPT !.deleted = TRUE]
            /\ tobefnz' = tobefnz \cup finobj
            /\ finobj' = {} /\ held' = {}
            /\ UNCHANGED <<fault, tabs, opened, made>>

\* The destructor deletes the LuaProcessor, and lua_close separates all objects.
Close ==
    /\ phase = "events"
    /\ phase' = "closing"
    /\ tobefnz' = tobefnz \cup finobj
    /\ finobj' = {} /\ held' = {}
    /\ UNCHANGED <<fault, tabs, opened, proxy, made>>

\* No finalizer is left: the memory of Lua is freed, then the members of the
\* window, the tabs among them.
Closed ==
    /\ phase = "closing" /\ tobefnz = {}
    /\ phase' = "ended"
    /\ tabs' = {}
    /\ UNCHANGED <<fault, opened, proxy, lua>>

----------------------------------------------------------------------------
Next ==
    \/ OpenNewEditor \/ GoToLine \/ StartScript \/ EndScript \/ NewObject \/ Separate
    \/ Close \/ Closed
    \/ \E editor \in tabs : CloseTab(editor)
    \/ \E o \in held : Drop(o) \/ \E overrun \in BOOLEAN : Call(o, overrun)
    \/ \E o \in tobefnz : Finalize(o)

\* The destructor waits for nobody.  Users, scripts and the collector need not
\* go on.
Closing == phase = "closing" /\ (Closed \/ \E o \in tobefnz : Finalize(o))

Spec == Init /\ [][Next]_vars /\ WF_vars(Closing)

----------------------------------------------------------------------------
(* Properties *)

TypeOK ==
    /\ phase \in Phases
    /\ fault \in Faults
    /\ opened \in 1..MaxEditors
    /\ tabs \subseteq 1..opened
    /\ proxy \in [deleted : BOOLEAN, editor : 1..MaxEditors]
    /\ made \in 0..MaxObjects
    /\ held \subseteq Objects /\ finobj \subseteq Objects /\ tobefnz \subseteq Objects
    /\ phase = "undefined" <=> fault # "none"

\* What it takes to reach the proxy after its deletion, to delete it again, and
\* to reach a deleted editor: a second object, an object let go, the closing of
\* the tab that was opened last.  Scripts that share one object and keep it, in
\* a window whose last tab stays open, meet none of them, although the objects
\* of all scripts share one proxy that the collector deletes when it likes.  (The
\* two faults that are not here need no sequence of steps.)
FaultsExplained ==
    /\ fault \in {"call", "delete"} => made >= 2
    /\ fault = "register" => Objects \ held # {}
    /\ fault = "editor" => opened \notin tabs

\* A window that closes without a fault has deleted its proxy once, by the one
\* object made, or never: without an object the proxy outlives the window.
EndsClean == phase = "ended" => made = IF proxy.deleted THEN 1 ELSE 0

\* A window that is closing comes to an end: to the normal one if scripts made
\* one object at most, to the second deletion of the proxy if they made more.
CloseEnds ==
    (phase = "closing") ~> (phase = IF made < 2 THEN "ended" ELSE "undefined")

=============================================================================
