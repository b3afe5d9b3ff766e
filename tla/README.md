# Specifications of metaeditor

metaeditor is a text editor for structured text. Lua scripts, which are kept in
a MongoDB collection, write titles, names and texts into the editor; the user
fills in what lies between them and must not be able to change a title. This
directory holds TLA+ models of the parts of it that carry its own logic, the
runs of TLC that check them on small instances, and proofs for TLAPS of what
holds for every instance.

All line numbers refer to the sources in `src/`. Comments in the code are
English, comments in the tests Portuguese; both are quoted as they stand.

## Inventory

| component | state | operations | interacts with |
|---|---|---|---|
| `LineManager` (`cte/Data/dataman.*`) | map from line numbers to vectors of typed fields, each with a range of columns and its bytes | `eventFilter` (a key), `addTitle`, `addName`, `removeCharacter`, `isEditable`, `type` | called by `PlainEditor` |
| `PlainEditor` (`cte/plaineditor.*`) | Qt document, cursor and selection, a `LineManager` | `eventFilter`, the `IEditor` calls (`addTitle`, `addName`, `writeText`, `jumpLine`), `moveToLine` | called by Qt (keys), by scripts through `EditorProxy`, by `MainWindow` |
| `DatabaseManager`, `Object`, `Script` (`core/DAO`, `cte/Objects/script.*`) | the connection; per object its id, name, data and `m_update` | `create`, `destroy`, `update`, `read`, `findAll`; `wrap`, `unwrap` | the server; called by `MainWindow` |
| `BSONUtils` (`core/DAO/Utils`) | none | typed reads of a document's fields | called by `unwrap` |
| `LuaProcessor` (`core/LuaWrapper/luaprocessor.*`) | the Lua state and its stack, the last compiled script `m_data` | `compileScript`, `doBuffer`, `callFunction` | Lua; called by `MainWindow` |
| `LuaCompiler` (`core/LuaWrapper/luacompiler.*`) | writer, status | `compile` and the dump of each part of a prototype | called by `LuaProcessor` |
| `Luna`, `EditorProxy` (`luna.h`, `core/Proxies`) | the proxy's current editor, the Lua objects that point to the proxy | `title`, `name`, `write`, `jumpline`, `lines`, `registerEditor`, the finalizer | Lua, `IEditor`; the proxy is made by `MainWindow` and deleted by finalizers |
| `MainWindow` (`cte/Ui/mainwindow.*`) | editors in tabs, proxy, Lua processor, `m_editor` | open an editor, install, load and load all scripts, go to a line, forward keys | everything above |
| `ScriptDialog`, `LineNumberWidget`, `LogFile`, `User`, `SoftwareBase`, `main`, build files, vendored libraries | - | - | views, output, stubs, configuration |

What is hard in this code, and what has to hold:

- **Two copies of the text.** The document and the structure are changed by
  separate calls and never compared. A key must be stored where the editor
  shows it, a backspace must remove what a key added, a title must not change.
- **Unsigned columns and two units.** Columns wrap below 0; a range is counted
  in code points when a text is added and in bytes when it is typed. A range
  must never be longer than its text, or a key is dropped by an exception
  handler that returns success.
- **Several processes on one collection.** A call is a query and then a write;
  other processes run in between, replies get lost, processes stop. Names
  should stay unique and a document must not be changed through an object that
  does not come from it, although ids may be uninitialized memory.
- **Lifetime.** Editors, the one proxy and the Lua objects that point to it
  are deleted by different owners: Qt when a tab is closed, the finalizer of any
  Lua object when the collector or `lua_close` calls it. Nothing may be used or
  deleted after its deletion, and a window that closes must come to an end.
- **One Lua state.** Its stack and the buffer of the last compiled script live
  as long as the program, through failing compilations. A failure must take its
  message off the stack and nothing else, and what is run must be a whole script.

`PROJECT.json` lists each such hazard at its line, with the properties that
cover it.

## Modules

| module | what it is |
|---|---|
| `DataMan` | the data types of `dataman.h` and what each method computes, as operators on a structure: shared by the next modules |
| `LineManager` | class `LineManager` alone: one variable, the structure, and one action for each method that changes it |
| `StructuredText` | abstract specification: numbered lines of typed pieces of text, without columns |
| `FlattenSeq_proofs` | lemmas about sequences of sequences put together (`FlattenSeq` of the community modules), and about maps from elements to sequences |
| `DataMan_proofs` | lemmas about the operators of `DataMan`: arithmetic, strings, what each method does to types and titles |
| `LineManager_proofs` | theorems about `LineManager`: types, ranges, no key is lost; the order of fields, a backspace undoes a key; `LineManager` implements `StructuredText` |
| `PlainEditor` | the editor: document, cursor, selection, visibility, structure; one action for each key class and each call |
| `PlainEditor_proofs` | theorems about `PlainEditor`, resting on `DataMan_proofs` and `FlattenSeq_proofs` |
| `DatabaseManager` | processes, their objects, and the collection; one action for each round trip |
| `DatabaseManager_proofs` | theorems about `DatabaseManager` |
| `LuaCompiler` | pure operators: the dump of a compiled function, and Lua's reader of such dumps |
| `LuaProcessor` | the Lua stack and the buffer of the last script; what the compiler dumps and the reader makes of it are constants |
| `LuaProcessor_proofs` | theorems about `LuaProcessor`, resting on `FlattenSeq_proofs` |
| `ScriptInstall` | extends `DatabaseManager`: windows that install and load scripts |
| `ScriptInstall_proofs` | theorems about `ScriptInstall`, resting on those about `DatabaseManager` |
| `EditorSession` | one window: tabs, the proxy, the Lua objects of scripts and their finalizers, up to the end of the destructor |
| `EditorSession_proofs` | theorems about `EditorSession` |
| `MCLineManager`, `MCPlainEditor`, `MCDatabaseManager`, `MCLuaProcessor`, `MCScriptInstall`, `MCEditorSession` | the small instances; `MCLuaProcessor` puts the operators of `LuaCompiler` in the place of the constants of `LuaProcessor` |

An operator whose name starts with `Faulty` is the definition it precedes with
a plausible mistake in it. Nothing uses these; put in place of the real
definition, each makes the property it is paired with in `PROJECT.json` fail.

### DataMan, LineManager

`lines` is `m_lines`: a function from the numbers of the existing lines to the
sequence of fields of that line, in the order of creation. A field is the
record of `m_position`, `m_type`, `m_start`, `m_end` and `m_info`. Columns are
counted modulo `UIntMod`, which stands for 2^32. A text is a sequence of bytes,
and a byte matters only in whether `Utf8StringSize` counts it.

`TypeAt`, `AddField` and `RemoveChar` are the whole methods, exceptions
included: `std::string::insert` and `erase` throw beyond the end (`Throws`),
`eventFilter` then drops the key and still returns true, `removeCharacter`
swallows the exception. `addTitle` and `addName` create the line even when a
field already holds the column and nothing is added.

`LayoutPreserved` and `BackspaceUndoesKey` start from a line that is `Ordered`
and `InsideRange`: a field that was shifted below column 0 stands at the top of
the unsigned range, where one more shift would wrap it back.
`line_manager_columns` shows how a field gets there.

`StructuredText` is what is left without columns: a step appends a piece (the
first one of a line comes with the line), or inserts or removes one byte of one
piece, and a key changes no title.

### PlainEditor

`doc` is the Qt document, a sequence of lines of characters; each character
records whether `addTitle` inserted it, which the code does not, so that the
properties can say what a title is. The document, the cursor and the selection
are Qt's and are modelled from the calls of `plaineditor.cpp`: a selection is
replaced by an insertion, and removed by backspace and delete.

`KeysFiltered` says whether `PlainEditor::eventFilter` is called. It is written
to be, but the call in `MainWindow::eventFilter` (mainwindow.cpp:88-93) is
commented out. The run `plain_editor` checks the editor as it is meant to be
used, `plain_editor_as_wired` as the window uses it. F1, F2, F3 and `writeText`
exist in builds with `__LOG_TEST__` only.

A text of a script is the sequence of its lines. `insertText` makes a line of
the document of each, while the structure gets one field with the newlines in
it (`TextBytes`).

Each action is a key class of `eventFilter` with what Qt then does to the
document, or one call of `IEditor`. A key goes to the structure with the
column and line read before the document changes, as in the code.

`Describes` is what it means that a line of the structure describes one of the
document, `Agree` that all do. `CarefulStep` lists the steps that keep it so,
with the conditions the code needs and does not check. `TitleText` is the text
of the document's titles in their order. Positions of Qt are ints, so a document
holds fewer characters than an unsigned counts (`MaxChars < UIntMod`), and the
UTF-8 of a character is one byte that is no continuation byte with the
continuation bytes it needs (`Encoded`).

### DatabaseManager

`docs` is the collection, a function from `_id` to name and data. An object is
`m_id`, `m_name`, `m_binaryData`, `m_update`. `create`, `destroy` and `update`
are two actions each: the query (`Create`, `Destroy`, `Update`), which goes on
or returns false, and the write (`Insert`, `Remove`, `Set`), which calls `wrap`
and returns `ok`. `m_id` of a constructed object is any earlier id or none,
since the constructors do not set it.

The server is external and assumed to answer a query from the documents it
holds, to apply a write atomically and before the next request of the same
process, to keep `_id` unique and to refuse to change it (but to accept a
`$set` of the same `_id`). `Faults` says what else may happen: a query fails
(`find`), a write fails (`write`), a write is applied and its reply lost
(`reply`). The driver reports all three as a false result. Ids are generated by
counting; `bson_oid_init` is assumed never to repeat one.

`main` connects before anything else and ends when that fails, so a process
that is not `off` is connected, and `tryReconnection` is not reached.

`doubtful` is a history variable: the names that `update` gave to a document,
which it does not check, and those for which `create`'s query failed although a
document was there.

### LuaCompiler, LuaProcessor

`LuaProcessor` needs to know of a function only the blocks that its dump hands
to the writer (`Blocks`) and of a chunk only what Lua's reader makes of it
(`ReadBack`); `Meaning` is the function that the dump of a function stands for,
which lacks the source's name of nested functions and the like. They are
constants, with what holds of every dump in `ProcessorAssumption`.
`MCLuaProcessor` gives them the operators of `LuaCompiler`: what the run checks
is the two together, what is proved holds of any dump and any reader.

A compiled function is the record of the fields of Lua's `Proto` that the dump
visits. A chunk is a sequence of units; the kind of a unit stands for how many
bytes the code writes (`char`, `int`, `size`, ...), so writing an int where the
reader expects a char is an error, as it is with real bytes. `DumpChar` keeps
`(char)y` signed, a constant has the tag that Lua gives it (a long string has a
variant tag), and `DumpFunction` follows the calls of `dumpFunction` in their
order. `Undump` is `luaU_undump` of the vendored Lua 5.2.3, the reference that
the dump has to agree with.

`LuaProcessor` has the stack, `m_data`, the call under way and its compilation.
A call is one step for each function of the Lua API that it calls and one for
each `if( error ) lua_pop(...)` (`PopMessage`), so an extra pop or a missing one
is a different behaviour. The stack is a number of values `below` and the list of
those that the call has pushed: a pop that goes further lowers `below`.
`compileScript` is `LoadFile` or `LoadFileFails`, one `DumpBlock` for each call
of the writer, and `CompileReturns`. The writer fails at any block and may have
written a part of it (`WriterFails`): `LuaCompiler` takes any writer, but the one
of `luaprocessor.cpp` never fails, so of a compilation by the program only
`luaL_loadfile` fails. `callFunction` starts in the same way and goes on with
`LoadData` whether the script was compiled or not: after `LoadFileFails` it runs
the script before, which `m_data` still holds, and after a failed dump it hands
Lua a part of a chunk. Its caller has pushed `args` arguments; `GetGlobal` pushes
the function above them, so `CallGlobal`, which takes one value more than the
arguments, calls another value than the function, a failure or not. The stack
before the arguments is what `StackKept` compares with (`base`). `source` is a
history variable: what `m_data` was last made of. `DoBufferOf` leaves in `m_data`
the bytes before the first zero, the chunk that runs is the whole one.

### ScriptInstall

Each process of `DatabaseManager` has a window, a record in `win` of where
`installScripts` is, the chosen name, whether `read` found a script, `m_data`,
the last message and, as history, which document the user has agreed to replace
(`agreed`). The dialog for the question, the compilation and the
two round trips of `update` or `create` are steps of their own, so other
windows work in between; the script object in `obj` is from before the
question. The actions are conjunctions of those of `DatabaseManager` with the
change of the window: `ChooseFile` reads, `Prepare` is `setBinaryData` or the
constructor, `Store` is the query and `Stored` the write. That a window uses the
database as `DatabaseManager` allows therefore holds by the way it is written;
the proofs use it, no run checks it. What is checked is what depends on the order
of the window's own steps and on the other windows in between.

Files have no state: the user may edit one at any time, so `Compile` takes any
version of it. A chunk is the pair of the file's name and the version. `Load`
stands for `loadScript` and `loadAllScripts`, which change of all this only
`m_data`. A window that is closed, or a process that stops, may do so in the
middle of an installation. Scripts that a user refuses to replace are deleted
in the code; in the model the object stays in `obj` until the next read, and
nothing uses it.

### EditorSession

The window makes one `EditorProxy`, which points to the editor that was opened
last (`registerEditor`); `editor()` in a script makes a Lua object that holds a
pointer to that proxy, and the finalizer of every such object deletes it
(luna.h:81). `finobj` and `tobefnz` are the lists that Lua keeps of objects
with finalizers: `Separate` is a cycle of the collector, which may run whenever
a script allocates, `Finalize` one call of `GCTM`. `held` is what the scripts
still reach. The destructor does not delete the proxy (the lines are commented
out, mainwindow.cpp:60-61) but closes Lua, which finalizes all that is left.

`Close` is the beginning of the destructor and may come whenever the event loop
runs. The use of a deleted object, a second deletion, a call through the null
`m_editor` of `goToLine` and a wrong number of results are undefined: `phase`
is then `undefined`, `fault` says which it was, and nothing follows.
`FaultsExplained` says what a user and scripts must have done to get there, and
thereby what they may do safely; `EndsClean` who has deleted the proxy when the
window ends as it should; `CloseEnds` which of the two ends a window comes to.

What the calls write into the editor is in `PlainEditor`, where the calls of a
script are `AddTitle`, `AddName`, `WriteText` and `JumpLine` of any tab. Not
modelled: scripts that leave the program with `os.exit`, call the finalizer
themselves through `getmetatable` or `debug`, or bring an object back in a finalizer of theirs.

## Runs

| run | instance | shows |
|---|---|---|
| `line_manager` | 1 line, columns 0-4, one- and two-byte characters, at most 3 fields and 3 bytes, unsigned of 4 bits | `FieldsOK`, `AcceptedKeyIsStored`, `BackspaceUndoesKey`, `LayoutPreserved`, `ImplementsStructuredText` |
| `line_manager_columns` | the same | `StartsBeforeEnd` fails: fields shift below column 0 |
| `plain_editor` | 2 lines, 2 characters, 2 fields, 2 bytes, texts empty, of one character, and of one and a newline, selections of 1 character, filter on | `TitlesImmutable`, `AgreementKept`, `TitleTextKept` |
| `plain_editor_as_wired` | the same, filter off | `TitleTextKept` fails: a key writes on a title's line |
| `plain_editor_protection` | as `plain_editor` | `TitleTextProtected` fails: document and structure drift apart, then a key erases a title |
| `database` | 2 processes, 3 ids, the empty name and data and another of each, all faults | `NamesBounded`, `OnlyOwnDocument`, `StaleDestroyHarmless` |
| `database_race` | the same without faults | `UniqueNames` fails: two processes create one name |
| `database_created` | the same without faults | `IdSufficesForUpdate` fails: an object just created cannot be updated |
| `database_rename` | the same without faults | `UpdateRefusesKnownName` fails: `update` does not look at names |
| `lua_processor` | 9 main functions, bytes of 5 bits, strings longer than 1 are long, at most 2 arguments and 1 result, a stack to which calls add up to a height of 2, a writer that fails | `CompiledChunkReadsBack`, `OnlyWholeChunksRun`, `StackKept` |
| `script_install` | 2 windows, 2 script files, 2 versions, 2 ids, all faults | `StoredIsCompiled`, `SuccessIsTrue`, `ReplacedByConsent` |
| `editor_session` | 3 editors, 3 objects | `FaultsExplained`, `EndsClean`, `CloseEnds` |

Each of the passing runs also checks a type invariant. The failing runs each
contradict a statement of a header or a test; `PROJECT.json` quotes it.

**Bounds.** Lines of a structure do not interact, so one line is enough for
`line_manager`; three fields give a field left of, right of and between others,
three bytes a two-byte character beside another, and 4 bits of unsigned are far
from what three bytes and five columns reach going up while columns do wrap
going down. Two lines and two characters are what splitting, joining and a
selection need. Two processes are what a race needs, and three ids what a third
document of one name needs, which is the first that `NamesBounded` forbids.
The main functions of `lua_processor` have constants of each type, an empty, a
short, a long string and one with a zero byte, debug information and its
absence, and nested functions two deep, which is the first depth at which a
nested function is followed by another. With 5 bits of a byte the stack size 20
is negative as a char. Two arguments are what it takes for `lua_pcall` to call
one argument with another and the function, and the calls start with up to two
values below, which one pop too many would take. Two windows are what it takes
to work behind the back of an installation, and two ids what a race of theirs
inserts. The proofs hold without these bounds.

Three editors are the registered one and two that are not, of which tabs close
in any order; three objects are one whose finalizer has deleted the proxy, one
that waits for its own and one that a script still holds.

**Fairness, deadlock.** Users, scripts, servers and the collector need not go
on, so no fairness is stated about them. Only `EditorSession` states fairness,
of the steps of the destructor (`Closing`): `lua_close` is a loop over the
objects whose finalizer is yet to be called, it waits for nothing, and the
members are destroyed after it. It is what `CloseEnds` needs. Deadlock is
checked in every run except `editor_session`, where the session ends for good.

## Proofs

`DataMan_proofs` has the lemmas about the operators that the theorems about the
structure and about the editor share: arithmetic modulo `UIntMod`, what
inserting and erasing do to a sequence, the search, and what each method does
to the types and to the titles of any well-typed structure.

`LineManager_proofs` proves for every alphabet, width of unsigned and bound:

- `TypeCorrect`: `[]TypeOK`, and `FieldsCorrect`: `[]FieldsOK`. Neither is
  inductive alone, so the invariant is their conjunction `IInv`: that a range
  is not longer than its text needs the arithmetic of typed columns, and that
  `atRange` implies a legal position of `insert` needs the range. The lemmas
  follow the operators: what the shift loops keep (`ShiftFits`), which fields
  they shift (`ChangeAndShift`), then one lemma for each method (`TypedLineOK`,
  `ErasedLineOK`, `AddFieldOK`).
- `NoKeyLost`: `[]AcceptedKeyIsStored`. From `FieldsOK`, a column that
  `atRange` accepts lies at most at the end of the text, so `insert` does not
  throw.

It goes on with lines whose fields are in order:

- `LayoutIsPreserved`: `LayoutPreserved`, from the lemmas `TypedKeepsOrder`,
  `ErasedKeepsOrder` and `AppendedKeepsOrder` about one line. Inside the range
  the shifts do not wrap, a key widens its field by the column by which the
  later ones move, and a field that loses a column has one to lose
  (`ErasedFieldHasColumns`), so ends stay below the starts that follow.
- `KeyUndone`: `[]BackspaceUndoesKey`. `EraseUndoesInsert` is the fact about
  sequences. The order of the fields is what makes the search after the key
  find the field that took it; then the two loops cancel each other. That the
  whole structure is the same again needs one more invariant, that it has
  nothing but its lines (`LinesAreMap`).
- `RightwardUse`: for `RightwardSpec`, the use that the methods expect (a field
  is added only to the right of those of its line, and columns stay inside the
  range), all lines stay ordered and `StartsBeforeEnd` holds. It is the property
  that the run of the columns refutes in general: the theorem names the use that
  is missing there. `NewLinesToo` carries `LayoutIsPreserved` over to the lines
  that a step adds.

and ends with `Implements`: `LineManager` implements `StructuredText` under the
mapping `Text`. A method maps to a step or a stutter
by one lemma each (`KeyImplements`, `AddFieldImplements`, `RemoveImplements`),
from `FieldsOK`: it is because `insert` does not throw, and because the loops
leave the texts alone, that a call is one step of the abstract text.

The assumptions are `DataManAssumption` and `ConstantsOK`: texts are shorter
than the range of unsigned, columns are unsigned.

`PlainEditor_proofs` proves for any alphabet, encodings, texts and bounds, and
whether the filter is called or not:

- `TypeCorrect`: `[]TypeOK`. The invariant `EditorOK` is that cursor and
  selection are positions of the document and that the structure is well typed.
  Every change of the document is a `Splice` of what lies before a position and
  what follows another, so `SpliceProperties` says once what positions, lines
  and characters the result has.
- `TitlesAreImmutable`: the action property `TitlesImmutable`. `removeCharacter`
  does not look at the type of a field; the lemmas of `DataMan_proofs` need
  `IsEditable` for the same column and line, and the proof finds it in the guard
  of every action that erases or types.

With the hypothesis `KeysFiltered`, that the event filter is called as it is
written to be (without it the keys change the document alone, and the run
`plain_editor_as_wired` shows what becomes of the titles):

- `TitleTextIsKept`: the action property `TitleTextKept`. `TextSplit` says that
  the text of a document is what lies before a position (`TextBefore`) and what
  follows it (`TextAfter`), `SpliceText` what a replacement makes of the two,
  and `TitlesAround` that a cell that is no title's may go or come without a
  change of the titles. That the cell is no title's is `EditableLine`: the line
  is described by one field that covers it, so the search finds that field at
  every column of the line, and `isEditable` says it is no title. The columns are
  those of the document because a field that ends at the length of its line
  keeps the line shorter than the range of unsigned (`AgreedLine`,
  `CursorColumn`).
- `AgreementIsKept`: the action property `AgreementKept`. Characters and bytes
  are counted alike in an ASCII line (`LineBytesParts`), so the byte that the
  method inserts or erases is the one of the character that the document gets or
  loses (`TypedAgrees`, `ErasedAgrees`, by `InsertBetween` and `EraseBetween` of
  `DataMan_proofs`); a described line has one field, so the loops have nothing
  to shift (`OneField`). A text that a title or name brings may be of any
  characters, since `Utf8StringSize` then counts them (`SizeIsLength`, by a
  shortest counterexample; `AddedAgrees`). `LineChanged` and `LineAdded` say
  that nothing else is disturbed; that is where `SpliceInLine` and `SplitAtEnd`
  turn a `Splice` into the change of one line or a new last line.
- `CarefulEditing`: for `CarefulSpec`, in which everything that changes the
  document or the structure is a careful step, `[]Agree` and
  `TitleTextProtected`. The latter is what the headers promise and what the run
  `plain_editor_protection` refutes in general: `CarefulStep` is a sufficient
  condition for the promise.

The assumption is `PlainEditorAssumption`: what the encodings give, and that
texts and the document fit into the range of unsigned.

`FlattenSeq_proofs` has what these proofs and those of `LuaProcessor` need to
know of `FlattenSeq`, which the community modules define by a recursive function:
that it exists (`FlattensExists`), and what it makes of an empty, a longer and
a composed sequence (`FlattenEmpty`, `FlattenLonger`, `FlattenConcat`).

`LuaProcessor_proofs` proves for any functions, units, dumps, readers and bounds:

- `TypeCorrect`: `[]TypeOK`.
- `StackIsKept`: `[]StackKept`. Its invariant `StackOK` says for each place in a
  call what is on the stack: one message, on top, exactly where a failure is yet
  to be popped, a value where `lua_pcall` is to take one, and the arguments above
  what was there before them until `lua_pcall` takes them.
- `ChunkOK`, an invariant by `DataCorrect`, is behind the next two: while a dump
  succeeds, `m_data` and the blocks still to write are the chunk of the function
  being compiled; after a failure `m_data` is less than that chunk. A failing
  writer may have written a part of a block, the blocks that follow it write
  nothing, and what is run later does not touch `m_data` or replaces it.
- `SuccessReadsBack`: `[]CompiledChunkReadsBack`, with the hypothesis
  `DumpsReadBack`, and `WholeChunksRun`: `[]OnlyWholeChunksRun`, with the
  hypothesis `PartsAreRejected` too. The hypotheses are what the dump and the
  reader owe each other without any protocol: a whole chunk reads back as the
  function it was made of, and the reader accepts no beginning of one. For
  `LuaCompiler` and the reader of Lua 5.2.3 the run `lua_processor` checks what
  follows from them, compiling every function of the instance with a writer that
  fails at every unit of every dump.

The assumption is `ProcessorAssumption`.

`DatabaseManager_proofs` proves for any finite set of processes, any names,
data, number of ids and faults:

- `TypeCorrect`: `[]TypeOK`, which says that no uninitialized id reaches the
  collection. It needs `Busy`: a process in the second half of a call has an
  object.
- `NamesAreBounded`: `[]NamesBounded`. The bound on documents is not inductive:
  an insertion may add one at any time. `CallsBounded` adds the processes that
  are about to insert the name. A process joins them only when there is no
  document of the name, when their number alone is at most that of all
  processes; an insertion turns one of them into a document; everything else
  only lowers the sum or makes the name doubtful. With one process this is
  uniqueness of the names that are not doubtful, whatever replies are lost and wherever the process stops.
- `OwnDocumentOnly` and `StaleDestroyLeaves`: the action properties
  `OnlyOwnDocument` and `StaleDestroyHarmless`, from the lemma
  `ChangedDocument` about the three writes. For `update` it is the id that the
  server refuses to change which protects the document of a chance id.
- `OneProcessUnique`: for `SoleUser`, in which no object is stored under another
  name than its document has, one process whose queries do not fail keeps
  `UniqueNames`, whatever other replies are lost and wherever it stops: the
  invariant is that no name becomes doubtful, and `CallsBounded` does the rest.

The only assumption is `DatabaseAssumption`.

`ScriptInstall_proofs` proves for any windows, names, versions and faults:

- `StoredOncePerWindow`: when no query fails, a name has at most as many
  documents as there are windows, without exceptions. The windows' steps are
  steps of `DatabaseManager` (`InstallImplements`), so `NamesBounded` holds; that
  no name is doubtful is because `create` is told the truth and because a window
  stores under the name of the document that it read (`FoundFits`). When queries
  fail it does not hold: one window stores a script twice if the query of `read`
  fails and then that of `create`.
- `OnlyCompiledStored`: `[]StoredIsCompiled`. Inductive only together with what
  each window is about to store (`WInv`): while it stores, its object carries
  the chosen name and the chunk in `m_data` (`ScriptFits`); when it found a
  script, the object and its document, which nobody removes or renames, are of
  the chosen name, and the document is the one agreed to (`FoundFits`); the place in `installScripts` agrees with the
  call under way (`CallFits`). `OneWindow` states once that a step of one window
  leaves the parts of the others alone; each action then has one lemma.
- `SuccessMessageTrue`: the action property `SuccessIsTrue`, from `StoredStep`:
  a write that reports success has put the object of this window into the
  collection, by `set` into the document that was looked up before the
  question.
- `ConsentGiven`: the action property `ReplacedByConsent`, from `StoredStep` and
  `ChangedDocument`: an insertion has a new id, and what `set` changes is the
  document of the object, which is the one agreed to.
- `InstallTypeCorrect`: `[]InstallTypeOK`.

The assumptions are those of `DatabaseManager` and `InstallAssumption`.

`EditorSession_proofs` proves for any number of editors and objects:

- `FaultsAreExplained`: `[]FaultsExplained`, and `TypeCorrect`. Inductive only
  together with `Ownership`: an object is in one list at most, and the proxy is
  deleted exactly when one object has had its finalizer called. So a deleted
  proxy and an object that is still in a list are two objects (`TwoObjects`),
  which explains the faults `call` and `delete`. `Reachable`, that the collector
  has not found dead what a script holds, explains `register`; `Registered`, that
  the proxy points to the last editor opened, explains `editor`.
- `CleanEnd`: `[]EndsClean`, from `Ownership` when both lists are empty.

The assumption is `SessionAssumption`.

Only model-checked: `CloseEnds`, which is liveness under fairness, and the round
trip of `LuaCompiler` and Lua's reader on the functions of the instance, which
for all functions is an induction over RECURSIVE operators. The violation runs
are counterexamples and have nothing to prove. Every other property of a
passing run is a theorem.

## What is not modelled

- `LineManager`: the dumps, `lineCount` and `type`, which change nothing.
- `PlainEditor`: line number area, highlighting, mouse; undo; `jumpLine` and
  `moveToLine` while the selection spans lines (the block they look up does not
  exist then); lines that are wrapped on the screen, where Qt's column and line
  numbers count differently.
- `BSONUtils::getField` returns a pointer into its own frame; the model takes
  the value to be read as it was written.
- `LuaCompiler`: the bytes of numbers and of the header, and chunks of another
  machine; `LuaProcessor`: errors of memory, `registerFunction` and what the
  scripts do to the Lua state except for the stack.
- `ScriptInstall`: that a replaced script may hold a change of another user, made
  after the question was asked, is possible and no property: the last writer
  wins.
- `MainWindow`: the status bar, which needs an `m_editor` that is never
  assigned, and the layout. `ScriptDialog`: a list view that changes nothing.
- `EditorSession`: the calls `lines` and `write` of test builds, whose way to the
  editor is that of `title`; several windows, which share nothing of it.
- `User`, `SoftwareBase`: stubs that nothing uses. Logging, dialogs, painting,
  configuration.
- Vendored code: gtest, Lua and the MongoDB driver are nearly all of the lines
  of the repository; its own program, with its tests, is less than four
  thousand. Of Lua the reader of compiled chunks and the lists of finalizers are
  modelled, because `LuaCompiler` and `Luna` depend on them; the driver is
  modelled by how the program uses it.

## Plan

Done: all components with a state of their own, and theorems for all properties
of the passing runs except `CloseEnds`. What could be added:

1. `DumpsReadBack` for `LuaCompiler`: it needs the dump and the reader as
   recursive functions on the depth of a function, and an invariant that relates
   what is read to what is left to read.
2. A larger `CarefulStep`: `writeText` at the end of a described line is not
   careful, since the structure does not get its text.
