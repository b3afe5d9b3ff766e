------------------------ MODULE EditorSession_proofs ------------------------
(***************************************************************************)
(* Theorems about EditorSession, for any number of editors and of objects. *)
(***************************************************************************)
EXTENDS EditorSession, TLAPS

----------------------------------------------------------------------------
(* The inductive invariant. *)

\* An object is in one list at most, and the finalizer of one object at most has
\* been called: that call has deleted the proxy.
Ownership ==
    /\ finobj \cap tobefnz = {}
    /\ ~proxy.deleted => Finalized = {}
    /\ proxy.deleted => \E o \in Objects : Finalized = {o}

\* What scripts reach has yet to be found dead.
Reachable == phase \in {"events", "script"} => held \subseteq finobj

Registered == proxy.editor = opened

Separated ==
    /\ phase \in {"closing", "ended"} => finobj = {}
    /\ phase = "ended" => tobefnz = {}

IInv == TypeOK /\ Ownership /\ Reachable /\ Registered /\ Separated /\ FaultsExplained

----------------------------------------------------------------------------
(* The initial state, and operations that may be undefined. *)

LEMMA InitInv == Init => IInv
BY SessionAssumption
   DEF Init, IInv, TypeOK, Ownership, Reachable, Registered, Separated, FaultsExplained,
       Phases, Faults, Objects, Finalized

\* An undefined operation changes nothing but phase and fault: what it leaves to
\* show is that its fault is explained.
LEMMA UndefinedInv ==
    ASSUME IInv, NEW operation \in Faults \ {"none"}, Undefined(operation),
           operation \in {"call", "delete"} => made >= 2,
           operation = "register" => Objects \ held # {},
           operation = "editor" => opened \notin tabs
    PROVE  IInv'
<1> USE DEF IInv, Undefined, lua
<1>1. TypeOK'
  BY DEF TypeOK, Phases, Faults, Objects
<1>2. Ownership'
  BY DEF Ownership, Objects, Finalized
<1>3. (Reachable /\ Registered /\ Separated)'
  BY DEF Reachable, Registered, Separated
<1>4. FaultsExplained'
  BY DEF FaultsExplained, Objects
<1> QED
  BY <1>1, <1>2, <1>3, <1>4

\* An object whose finalizer has been called and one whose finalizer has not are
\* two.
LEMMA TwoObjects ==
    ASSUME TypeOK, Ownership, proxy.deleted, NEW o \in finobj \cup tobefnz
    PROVE  made >= 2
<1>1. PICK f \in Objects : Finalized = {f}
  BY DEF Ownership
<1>2. f \notin finobj \cup tobefnz
  BY <1>1 DEF Finalized
<1>3. o \in Objects /\ o # f
  BY <1>2 DEF TypeOK
<1> QED
  BY <1>3 DEF TypeOK, Objects

----------------------------------------------------------------------------
(* One step per action. *)

LEMMA WindowInv ==
    ASSUME IInv, OpenNewEditor \/ GoToLine \/ StartScript \/ EndScript
                 \/ \E editor \in tabs : CloseTab(editor)
    PROVE  IInv'
<1> USE DEF IInv
<1>1. ASSUME OpenNewEditor, proxy.deleted
      PROVE  IInv'
  <2>1. Undefined("register") /\ phase = "events"
    BY <1>1 DEF OpenNewEditor
  <2>2. PICK f \in Objects : Finalized = {f}
    BY <1>1 DEF Ownership
  <2>3. f \notin held
    BY <2>1, <2>2 DEF Finalized, Reachable
  <2> QED
    BY <2>1, <2>3, UndefinedInv DEF Faults
<1>2. ASSUME OpenNewEditor, ~proxy.deleted
      PROVE  IInv'
  <2>1. TypeOK'
    BY <1>2, SessionAssumption DEF OpenNewEditor, lua, TypeOK, Phases, Faults, Objects
  <2>2. Ownership' /\ Registered'
    BY <1>2 DEF OpenNewEditor, lua, TypeOK, Ownership, Registered, Objects, Finalized
  <2>3. Reachable' /\ Separated' /\ FaultsExplained'
    BY <1>2 DEF OpenNewEditor, lua, TypeOK, Reachable, Separated, FaultsExplained, Objects
  <2> QED
    BY <2>1, <2>2, <2>3
<1>3. ASSUME GoToLine
      PROVE  IInv'
  BY <1>3, UndefinedInv DEF GoToLine, Faults
<1>4. ASSUME StartScript \/ EndScript
      PROVE  IInv'
  <2>1. TypeOK' /\ Ownership'
    BY <1>4 DEF StartScript, EndScript, lua, TypeOK, Phases, Faults, Ownership, Objects, Finalized
  <2>2. Reachable' /\ Registered' /\ Separated' /\ FaultsExplained'
    BY <1>4 DEF StartScript, EndScript, lua, Reachable, Registered, Separated, FaultsExplained, Objects
  <2> QED
    BY <2>1, <2>2
<1>5. ASSUME NEW editor \in tabs, CloseTab(editor)
      PROVE  IInv'
  <2>1. TypeOK' /\ Ownership'
    BY <1>5 DEF CloseTab, lua, TypeOK, Phases, Faults, Ownership, Objects, Finalized
  <2>2. Reachable' /\ Registered' /\ Separated' /\ FaultsExplained'
    BY <1>5 DEF CloseTab, lua, Reachable, Registered, Separated, FaultsExplained, Objects
  <2> QED
    BY <2>1, <2>2
<1> QED
  BY <1>1, <1>2, <1>3, <1>4, <1>5

LEMMA ScriptInv ==
    ASSUME IInv, NewObject \/ \E o \in held : Drop(o) \/ \E overrun \in BOOLEAN : Call(o, overrun)
    PROVE  IInv'
<1> USE DEF IInv
<1>1. ASSUME NewObject
      PROVE  IInv'
  <2>1. TypeOK' /\ Reachable' /\ Registered' /\ Separated'
    BY <1>1, SessionAssumption
       DEF NewObject, TypeOK, Phases, Faults, Objects, Reachable, Registered, Separated
  <2>2. Finalized' = Finalized /\ finobj' \cap tobefnz' = {}
    BY <1>1 DEF NewObject, TypeOK, Ownership, Objects, Finalized
  <2>3. Ownership'
    BY <1>1, <2>2 DEF NewObject, TypeOK, Ownership, Objects
  <2>4. FaultsExplained'
    BY <1>1 DEF NewObject, TypeOK, FaultsExplained, Objects
  <2> QED
    BY <2>1, <2>3, <2>4
<1>2. ASSUME NEW o \in held, Drop(o)
      PROVE  IInv'
  <2>1. TypeOK' /\ Ownership'
    BY <1>2 DEF Drop, TypeOK, Phases, Faults, Ownership, Objects, Finalized
  <2>2. Reachable' /\ Registered' /\ Separated' /\ FaultsExplained'
    BY <1>2 DEF Drop, Reachable, Registered, Separated, FaultsExplained, Objects
  <2> QED
    BY <2>1, <2>2
<1>3. ASSUME NEW o \in held, NEW overrun \in BOOLEAN, Call(o, overrun)
      PROVE  IInv'
  <2>1. phase = "script" /\ o \in finobj
    BY <1>3 DEF Call, Reachable
  <2>2. CASE proxy.deleted
    BY <1>3, <2>1, <2>2, TwoObjects, UndefinedInv DEF Call, Faults
  <2>3. CASE ~proxy.deleted /\ proxy.editor \notin tabs
    BY <1>3, <2>3, UndefinedInv DEF Call, Faults, Registered
  <2>4. CASE ~proxy.deleted /\ proxy.editor \in tabs /\ overrun
    BY <1>3, <2>4, UndefinedInv DEF Call, Faults
  <2>5. CASE ~proxy.deleted /\ proxy.editor \in tabs /\ ~overrun
    BY <1>3, <2>5
       DEF Call, vars, TypeOK, Ownership, Reachable, Registered, Separated, FaultsExplained,
           Objects, Finalized
  <2> QED
    BY <2>2, <2>3, <2>4, <2>5
<1> QED
  BY <1>1, <1>2, <1>3

LEMMA FinalizerInv ==
    ASSUME IInv, Separate \/ Close \/ Closed \/ \E o \in tobefnz : Finalize(o)
    PROVE  IInv'
<1> USE DEF IInv
<1>1. ASSUME Separate
      PROVE  IInv'
  <2>1. TypeOK' /\ Registered' /\ Separated' /\ FaultsExplained'
    BY <1>1 DEF Separate, TypeOK, Phases, Faults, Objects, Registered, Separated, FaultsExplained
  <2>2. Finalized' = Finalized /\ finobj' \cap tobefnz' = {} /\ held' \subseteq finobj'
    BY <1>1 DEF Separate, Ownership, Reachable, Objects, Finalized
  <2>3. Ownership' /\ Reachable'
    BY <1>1, <2>2 DEF Separate, Ownership, Reachable, Objects
  <2> QED
    BY <2>1, <2>3
<1>2. ASSUME Close
      PROVE  IInv'
  <2>1. TypeOK' /\ Reachable' /\ Registered' /\ Separated'
    BY <1>2 DEF Close, TypeOK, Phases, Faults, Objects, Reachable, Registered, Separated
  <2>2. Finalized' = Finalized
    BY <1>2 DEF Close, Objects, Finalized
  <2>3. Ownership'
    BY <1>2, <2>2 DEF Close, Ownership, Objects
  <2>4. FaultsExplained'
    BY <1>2 DEF Close, TypeOK, FaultsExplained
  <2> QED
    BY <2>1, <2>3, <2>4
<1>3. ASSUME Closed
      PROVE  IInv'
  <2>1. TypeOK' /\ Ownership'
    BY <1>3 DEF Closed, lua, TypeOK, Phases, Faults, Ownership, Objects, Finalized
  <2>2. Reachable' /\ Registered' /\ Separated'
    BY <1>3 DEF Closed, lua, Reachable, Registered, Separated
  <2>3. FaultsExplained'
    BY <1>3 DEF Closed, lua, TypeOK, FaultsExplained
  <2> QED
    BY <2>1, <2>2, <2>3
<1>4. ASSUME NEW o \in tobefnz, Finalize(o), proxy.deleted
      PROVE  IInv'
  <2>1. made >= 2 /\ Undefined("delete")
    BY <1>4, TwoObjects DEF Finalize
  <2> QED
    BY <2>1, UndefinedInv DEF Faults
<1>5. ASSUME NEW o \in tobefnz, Finalize(o), ~proxy.deleted
      PROVE  IInv'
  <2>1. TypeOK' /\ Reachable' /\ Registered' /\ Separated' /\ FaultsExplained'
    BY <1>5 DEF Finalize, TypeOK, Phases, Faults, Objects, Reachable, Registered, Separated,
                FaultsExplained
  <2>2. Finalized' = {o} /\ o \in Objects'
    BY <1>5 DEF Finalize, TypeOK, Ownership, Objects, Finalized
  <2>3. Ownership'
    BY <1>5, <2>2 DEF Finalize, TypeOK, Ownership
  <2> QED
    BY <2>1, <2>3
<1> QED
  BY <1>1, <1>2, <1>3, <1>4, <1>5

LEMMA StepInv == IInv /\ [Next]_vars => IInv'
<1> SUFFICES ASSUME IInv, [Next]_vars
             PROVE  IInv'
  OBVIOUS
<1>1. CASE UNCHANGED vars
  BY <1>1 DEF vars, IInv, TypeOK, Ownership, Reachable, Registered, Separated, FaultsExplained,
              Objects, Finalized
<1>2. CASE Next
  BY <1>2, WindowInv, ScriptInv, FinalizerInv DEF Next
<1> QED
  BY <1>1, <1>2

LEMMA Invariance == Spec => []IInv
BY InitInv, StepInv, PTL DEF Spec

----------------------------------------------------------------------------
(* The theorems. *)

\* Every variable of the session has its type.
THEOREM TypeCorrect == Spec => []TypeOK
<1>1. IInv => TypeOK
  BY DEF IInv
<1> QED
  BY <1>1, Invariance, PTL

\* The proxy is used after its deletion, or deleted twice, only when scripts have
\* made two objects or let one go; a deleted editor is used only when the tab
\* opened last is closed.
THEOREM FaultsAreExplained == Spec => []FaultsExplained
<1>1. IInv => FaultsExplained
  BY DEF IInv
<1> QED
  BY <1>1, Invariance, PTL

\* A window that comes to its normal end has made one object and deleted the
\* proxy with it, or none and left the proxy.
THEOREM CleanEnd == Spec => []EndsClean
<1>1. IInv => EndsClean
  <2> SUFFICES ASSUME IInv, phase = "ended"
               PROVE  made = IF proxy.deleted THEN 1 ELSE 0
    BY DEF EndsClean
  <2>1. Finalized = Objects
    BY DEF IInv, Separated, Finalized
  <2>2. CASE proxy.deleted
    <3>1. PICK o \in Objects : Objects = {o}
      BY <2>1, <2>2 DEF IInv, Ownership
    <3> QED
      BY <2>2, <3>1 DEF IInv, TypeOK, Objects
  <2>3. CASE ~proxy.deleted
    BY <2>1, <2>3 DEF IInv, Ownership, TypeOK, Objects
  <2> QED
    BY <2>2, <2>3
<1> QED
  BY <1>1, Invariance, PTL

=============================================================================
