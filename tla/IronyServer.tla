---------------------------- MODULE IronyServer ----------------------------
(***************************************************************************)
(* irony-server: the loop of main over commands, the state of class Irony  *)
(* (the active translation unit, the results of the last completion, the   *)
(* unsaved texts), the translation units TUManager keeps by file with the  *)
(* options they were made with, and the compilation database CompDBCache   *)
(* keeps by modification time.                                             *)
(*                                                                         *)
(* libclang's objects are handles into a heap, so that a pointer may dangle *)
(* or an object be lost. A translation unit is described by its file, its  *)
(* options and the texts it saw. Around the server, files are saved and    *)
(* compile_commands.json is written while the clock goes on.               *)
(***************************************************************************)
EXTENDS Integers, Sequences

CONSTANTS
  File,        \* paths of sources, with the temporary one
  TempPath,    \* the path the command parser has for the file "-"
  Flags,       \* lists of compile options
  NoFlags,     \* the empty list
  Text,        \* contents of a source file
  None,        \* no text, no completion results, no exit status
  Null,        \* the null pointer
  Free,        \* what an unused cell of the heap holds
  TuId,        \* cells of the heap
  Dir,         \* build directories, as sequences of characters
  JsonFile,    \* the paths of compile_commands.json
  Command,     \* the commands lines may hold, Invalid among them
  Opening,     \* the ways main may be called
  MaxVersion,  \* bound on the versions of compile_commands.json
  MaxClock     \* bound on the seconds that pass

VARIABLES
  phase,       \* "starting", "ready", "loading" a database, "exited"
  status,      \* the exit status
  input,       \* .interactive: lines of stdin; otherwise .argv, when .firstCall, and exit
  tempFile,    \* the temporary file exists
  disk,        \* disk[f]: what is in the file f
  filenameToContent,  \* the unsaved text of each file, or None
  cxUnsavedFiles,     \* the texts the pointers given to libclang point to
  tuManager,   \* .units, .flags: its two maps; .live: the heap
  activeTu,    \* the unit diagnostics and get-type use
  file,        \* file_, its file
  results,     \* activeCompletionResults_
  openResults, \* completion results not disposed of
  json,        \* json[p]: .version and .mtime of compile_commands.json, 0 when it is not
               \* there; .written, when it was last; .again, whether twice in that second
  clock,       \* the time in seconds
  compDb,      \* .db: the database loaded, as the place and version it was read from;
               \* .filename, .mtime: what it is cached by
  lookup       \* the file name and time that fromDirectory has, while "loading"

sources == <<disk, filenameToContent, cxUnsavedFiles, tuManager, activeTu, file, results, openResults>>
databases == <<json, clock, compDb, lookup>>
process == <<phase, status, input, tempFile>>
vars == <<process, sources, databases>>

ServerAction == {"candidates", "complete", "completion_diagnostics", "diagnostics", "exit",
                 "get_compile_options", "get_type", "help", "parse", "reset_unsaved",
                 "set_debug", "set_unsaved", "invalid"}
Exit == [action |-> "exit"]

(* A path with one slash between directory and name.                        *)
JsonDbFilename(dir) ==
  (IF dir # <<>> /\ dir[Len(dir)] # "/" THEN Append(dir, "/") ELSE dir) \o <<"compile_commands.json">>

ASSUME ServerAssumption ==
  /\ TempPath \in File
  /\ NoFlags \in Flags
  /\ None \notin Text
  /\ Null \notin TuId /\ None # Null
  /\ Free \notin [file : File, flags : Flags, text : [File -> Text]]
  /\ None \notin [file : File, flags : Flags, text : [File -> Text]]
  /\ None \notin [place : JsonFile, version : 0..MaxVersion]
  /\ \A c \in Command :
       /\ c.action \in ServerAction
       /\ c.action \in {"parse", "complete", "set_unsaved", "reset_unsaved"} => c.file \in File
       /\ c.action \in {"parse", "complete"} => c.flags \in Flags
       /\ c.action = "get_compile_options" => c.dir \in Dir
  /\ \A o \in Opening : /\ o.outcome \in {"run", "information", "error"}
                        /\ o.interactive \in BOOLEAN
                        /\ o.command \in Command
  /\ Exit \in Command
  /\ <<>> \notin JsonFile
  /\ \A d \in Dir : JsonDbFilename(d) \in JsonFile
  /\ MaxVersion \in Nat /\ MaxClock \in Nat \ {0}

TranslationUnit == [file : File, flags : Flags, text : [File -> Text]]

----------------------------------------------------------------------------
(* TUManager.                                                               *)

Tus(units, flags, live) == [units |-> units, flags |-> flags, live |-> live]

(* Mutated: the unit with other options is forgotten and not disposed of.   *)
TuRefLeaks(m, f, flags) ==
  IF m.flags[f] = flags THEN m ELSE Tus([m.units EXCEPT ![f] = Null], [m.flags EXCEPT ![f] = flags], m.live)

(* Mutated: the unit stays when the options change.                         *)
TuRefKeepsUnit(m, f, flags) == Tus(m.units, [m.flags EXCEPT ![f] = flags], m.live)

(* The unit of a file, disposed of first when its options have changed.     *)
TuRef(m, f, flags) ==
  IF m.flags[f] = flags THEN m
  ELSE Tus([m.units EXCEPT ![f] = Null], [m.flags EXCEPT ![f] = flags],
           IF m.units[f] = Null THEN m.live ELSE [m.live EXCEPT ![m.units[f]] = Free])

(* The texts libclang sees.                                                 *)
Effective == [f \in File |-> IF cxUnsavedFiles[f] # None THEN cxUnsavedFiles[f] ELSE disk[f]]
MadeOf(f, flags) == [file |-> f, flags |-> flags, text |-> Effective]

(* clang_parseTranslationUnit may fail.                                     *)
ClangParse(m, f, flags) ==
  {m} \cup {Tus([m.units EXCEPT ![f] = i], m.flags, [m.live EXCEPT ![i] = MadeOf(f, flags)]) :
             i \in {j \in TuId : m.live[j] = Free}}

(* So may clang_reparseTranslationUnit, and the unit cannot be used then.   *)
ClangReparse(m, f) ==
  LET tu == m.units[f]
  IN  {Tus(m.units, m.flags, [m.live EXCEPT ![tu] = MadeOf(@.file, @.flags)]),
       Tus([m.units EXCEPT ![f] = Null], m.flags, [m.live EXCEPT ![tu] = Free])}

TuManagerParse(m, f, flags) ==
  LET ref == TuRef(m, f, flags)
      created == IF ref.units[f] = Null THEN ClangParse(ref, f, flags) ELSE {ref}
  IN  UNION {IF tm.units[f] = Null THEN {tm} ELSE ClangReparse(tm, f) : tm \in created}

GetOrCreateTu(m, f, flags) ==
  LET ref == TuRef(m, f, flags)
  IN  IF ref.units[f] # Null THEN {ref} ELSE TuManagerParse(ref, f, flags)

----------------------------------------------------------------------------
(* The commands of class Irony.                                             *)

(* Mutated: only the completion results are reset.                          *)
ResetCacheResultsOnly ==
  /\ activeTu' = activeTu
  /\ results' = None
  /\ openResults' = IF results = None THEN openResults ELSE openResults - 1

ResetCache ==
  /\ activeTu' = Null
  /\ results' = None
  /\ openResults' = IF results = None THEN openResults ELSE openResults - 1

Parse(f, flags) ==
  /\ \E tm \in TuManagerParse(tuManager, f, flags) :
       /\ tuManager' = tm
       /\ activeTu' = tm.units[f]
  /\ file' = f
  /\ results' = None
  /\ openResults' = IF results = None THEN openResults ELSE openResults - 1
  /\ UNCHANGED <<disk, filenameToContent, cxUnsavedFiles>>

(* clang_codeCompleteAt reads the texts again, and may fail.                *)
CodeCompleteAt(m, f) ==
  IF m.units[f] = Null THEN {None} ELSE {None, MadeOf(f, m.live[m.units[f]].flags)}

Complete(f, flags) ==
  /\ activeTu' = Null
  /\ \E tm \in GetOrCreateTu(tuManager, f, flags) :
       /\ tuManager' = tm
       /\ results' \in CodeCompleteAt(tm, f)
  /\ openResults' = openResults - (IF results = None THEN 0 ELSE 1)
                                + (IF results' = None THEN 0 ELSE 1)
  /\ UNCHANGED <<disk, filenameToContent, cxUnsavedFiles, file>>

ComputeCxUnsaved == cxUnsavedFiles' = filenameToContent'

(* What the file with an unsaved text holds, None when it cannot be read,   *)
(* which takes the earlier text away.                                       *)
ReadFileContent == Text \cup {None}

SetUnsaved(f, content) ==
  /\ ResetCache
  /\ filenameToContent' = [filenameToContent EXCEPT ![f] = content]
  /\ ComputeCxUnsaved
  /\ UNCHANGED <<disk, tuManager, file>>

ResetUnsaved(f) ==
  /\ ResetCache
  /\ filenameToContent' = [filenameToContent EXCEPT ![f] = None]
  /\ ComputeCxUnsaved
  /\ UNCHANGED <<disk, tuManager, file>>
----------------------------------------------------------------------------
(* CompDBCache. Between the time of the file and its load, others write.    *)

NoDb == [db |-> None, filename |-> <<>>, mtime |-> 0]
NoLookup == [filename |-> <<>>, mtime |-> 0]

(* Mutated: a file that is not there has time -1.                           *)
ModificationTimeMinusOne(p) == IF json[p].mtime = 0 THEN -1 ELSE json[p].mtime

ModificationTime(p) == json[p].mtime
Cached(p, mtime) == p = compDb.filename /\ mtime # 0 /\ mtime = compDb.mtime
(* Mutated: the database goes, what it is cached by stays.                  *)
ClearKeepsKey == [compDb EXCEPT !.db = None]

Clear == IF compDb.db # None THEN NoDb ELSE compDb

(* The library may find a database or not, whatever compile_commands.json   *)
(* holds, and without it too. Only one that has a time is remembered.       *)
FromDirectory(p, mtime) ==
  LET loaded == [place |-> p, version |-> json[p].version]
  IN  {[Clear EXCEPT !.db = None],
       IF mtime # 0 THEN [db |-> loaded, filename |-> p, mtime |-> mtime]
       ELSE [Clear EXCEPT !.db = loaded]}

----------------------------------------------------------------------------
(* The loop of main: take a command, execute it.                            *)

NextCommand ==
  IF input.interactive THEN Command
  ELSE {IF input.firstCall THEN input.argv ELSE Exit}

(* A command on the file "-" needs the temporary file.                      *)
UsesTempFile(c) == "file" \in DOMAIN c /\ c.file = TempPath

Take(c) ==
  /\ phase = "ready"
  /\ c \in NextCommand
  /\ input' = [input EXCEPT !.firstCall = FALSE]

Execute(c) ==
  /\ Take(c)
  /\ tempFile' = (tempFile \/ UsesTempFile(c))

ExecuteParse ==
  /\ \E c \in Command : Execute(c) /\ c.action = "parse" /\ Parse(c.file, c.flags)
  /\ UNCHANGED <<phase, status, databases>>

ExecuteComplete ==
  /\ \E c \in Command : Execute(c) /\ c.action = "complete" /\ Complete(c.file, c.flags)
  /\ UNCHANGED <<phase, status, databases>>

ExecuteSetUnsaved ==
  /\ \E c \in Command, content \in ReadFileContent :
       Execute(c) /\ c.action = "set_unsaved" /\ SetUnsaved(c.file, content)
  /\ UNCHANGED <<phase, status, databases>>

ExecuteResetUnsaved ==
  /\ \E c \in Command : Execute(c) /\ c.action = "reset_unsaved" /\ ResetUnsaved(c.file)
  /\ UNCHANGED <<phase, status, databases>>

(* What these print is in IronyReplies; they only read.                     *)
ExecuteQuery ==
  /\ \E c \in Command :
       /\ Execute(c)
       /\ c.action \in {"candidates", "completion_diagnostics", "diagnostics", "get_type", "help", "set_debug"}
  /\ UNCHANGED <<phase, status, sources, databases>>

GetCompileOptions ==
  /\ \E c \in Command :
       /\ Execute(c)
       /\ c.action = "get_compile_options"
       /\ LET p == JsonDbFilename(c.dir)
          IN  lookup' = [filename |-> p, mtime |-> ModificationTime(p)]
  /\ phase' = "loading"
  /\ UNCHANGED <<status, sources, json, clock, compDb>>

(* The answer is made from the database that is there now.                  *)
LoadDatabase ==
  /\ phase = "loading"
  /\ IF Cached(lookup.filename, lookup.mtime) THEN UNCHANGED compDb
     ELSE compDb' \in FromDirectory(lookup.filename, lookup.mtime)
  /\ lookup' = NoLookup
  /\ phase' = "ready"
  /\ UNCHANGED <<status, input, tempFile, sources, json, clock>>

(* Every way out removes the temporary file but one, and there it is not    *)
(* made yet.                                                                *)
Stop(code) ==
  /\ phase' = "exited"
  /\ status' = code
  /\ UNCHANGED <<sources, databases>>

ExecuteExit ==
  /\ \E c \in Command : Take(c) /\ c.action = "exit"
  /\ tempFile' = FALSE
  /\ Stop(0)

RefuseCommand ==
  /\ \E c \in Command : Take(c) /\ c.action = "invalid"
  /\ tempFile' = FALSE
  /\ Stop(1)

NoTempFile ==
  /\ \E c \in Command : Take(c) /\ UsesTempFile(c)
  /\ ~tempFile
  /\ UNCHANGED tempFile
  /\ Stop(1)

Start ==
  /\ phase = "starting"
  /\ \E o \in Opening :
       /\ input' = [interactive |-> o.interactive, firstCall |-> TRUE, argv |-> o.command]
       /\ phase' = IF o.outcome = "run" THEN "ready" ELSE "exited"
       /\ status' = CASE o.outcome = "run" -> status
                      [] o.outcome = "information" -> 0
                      [] o.outcome = "error" -> 1
  /\ UNCHANGED <<tempFile, sources, databases>>

----------------------------------------------------------------------------
(* What others do meanwhile, while the server runs.                         *)

SaveFile ==
  /\ phase = "ready"
  /\ \E f \in File, text \in Text : disk' = [disk EXCEPT ![f] = text]
  /\ UNCHANGED <<process, filenameToContent, cxUnsavedFiles, tuManager, activeTu, file, results,
                 openResults, databases>>

WriteDatabase ==
  /\ phase \in {"ready", "loading"}
  /\ \E p \in JsonFile :
       /\ json[p].version < MaxVersion
       /\ json' = [json EXCEPT ![p] = [version |-> @.version + 1, mtime |-> clock,
                                       again |-> @.written = clock, written |-> clock]]
  /\ UNCHANGED <<process, sources, clock, compDb, lookup>>

RemoveDatabase ==
  /\ phase \in {"ready", "loading"}
  /\ \E p \in JsonFile : json' = [json EXCEPT ![p].mtime = 0]
  /\ UNCHANGED <<process, sources, clock, compDb, lookup>>

Tick ==
  /\ phase \in {"ready", "loading"}
  /\ clock < MaxClock
  /\ clock' = clock + 1
  /\ UNCHANGED <<process, sources, json, compDb, lookup>>

----------------------------------------------------------------------------
Init ==
  /\ phase = "starting" /\ status = None
  /\ input = [interactive |-> FALSE, firstCall |-> TRUE, argv |-> Exit]
  /\ tempFile = FALSE
  /\ disk \in [File -> Text]
  /\ filenameToContent = [f \in File |-> None]
  /\ cxUnsavedFiles = [f \in File |-> None]
  /\ tuManager = [units |-> [f \in File |-> Null], flags |-> [f \in File |-> NoFlags],
                  live |-> [i \in TuId |-> Free]]
  /\ activeTu = Null
  /\ file = None
  /\ results = None
  /\ openResults = 0
  /\ json = [p \in JsonFile |-> [version |-> 0, mtime |-> 0, again |-> FALSE, written |-> 0]]
  /\ clock = 1
  /\ compDb = NoDb
  /\ lookup = NoLookup

Commands ==
  \/ ExecuteParse \/ ExecuteComplete \/ ExecuteSetUnsaved \/ ExecuteResetUnsaved
  \/ ExecuteQuery \/ GetCompileOptions \/ LoadDatabase
  \/ ExecuteExit \/ RefuseCommand \/ NoTempFile

Environment == SaveFile \/ WriteDatabase \/ RemoveDatabase \/ Tick

Next == Start \/ Commands \/ Environment

Spec == Init /\ [][Next]_vars

----------------------------------------------------------------------------
(* Properties.                                                              *)

Time == 0..MaxClock
JsonState == [version : 0..MaxVersion, mtime : Time, again : BOOLEAN, written : Time]
Db == [place : JsonFile, version : 0..MaxVersion]

ProcessType ==
  /\ phase \in {"starting", "ready", "loading", "exited"}
  /\ status \in {None, 0, 1}
  /\ input \in [interactive : BOOLEAN, firstCall : BOOLEAN, argv : Command]
  /\ tempFile \in BOOLEAN

SourcesType ==
  /\ disk \in [File -> Text]
  /\ filenameToContent \in [File -> Text \cup {None}]
  /\ cxUnsavedFiles \in [File -> Text \cup {None}]
  /\ tuManager \in [units : [File -> TuId \cup {Null}], flags : [File -> Flags],
                    live : [TuId -> TranslationUnit \cup {Free}]]
  /\ activeTu \in TuId \cup {Null}
  /\ file \in File \cup {None}
  /\ results \in TranslationUnit \cup {None}
  /\ openResults \in Int

DatabasesType ==
  /\ json \in [JsonFile -> JsonState]
  /\ clock \in Time
  /\ compDb \in [db : Db \cup {None}, filename : JsonFile \cup {<<>>}, mtime : Time]
  /\ lookup \in [filename : JsonFile \cup {<<>>}, mtime : Time]

(* The types of the members of Irony, TUManager and CompDBCache.            *)
TypeOK == ProcessType /\ SourcesType /\ DatabasesType

(* No object of libclang dangles or leaks: the cells in use are those of    *)
(* the units TUManager holds, one for each file, the active unit is one of  *)
(* them and is that of file_, which get-type asks about, completion results *)
(* are disposed of exactly once, and the pointers to unsaved texts are to   *)
(* those of filenameToContent_ (resetCache, tuRef, parse, computeCxUnsaved).*)
UnitsOwned ==
  /\ \A f \in File : tuManager.units[f] # Null => tuManager.live[tuManager.units[f]] # Free
  /\ \A i \in TuId : tuManager.live[i] # Free => \E f \in File : tuManager.units[f] = i
  /\ \A f, g \in File : tuManager.units[f] = tuManager.units[g] /\ f # g => tuManager.units[f] = Null
ActiveOwned == activeTu # Null => file \in File /\ tuManager.units[file] = activeTu
ResultsOwned == openResults = (IF results = None THEN 0 ELSE 1)
HandlesOwned == UnitsOwned /\ ActiveOwned /\ ResultsOwned /\ cxUnsavedFiles = filenameToContent

(* What diagnostics, types and candidates are taken from saw the unsaved    *)
(* texts as they are now, and was made with the options the unit is cached  *)
(* with: no text is set, and no unit made anew, under an answer.            *)
Sees(view) == \A f \in File : filenameToContent[f] # None => view.text[f] = filenameToContent[f]
AnswersCurrent ==
  /\ activeTu # Null => /\ Sees(tuManager.live[activeTu])
                        /\ tuManager.live[activeTu].flags = tuManager.flags[file]
  /\ results # None => Sees(results) /\ results.flags = tuManager.flags[results.file]

(* A database that fromDirectory would take from its cache is there, was    *)
(* read from the place asked for, and is the last version of the file, but  *)
(* for a file that was written twice in one second.                         *)
DbCurrent ==
  \A p \in JsonFile :
    Cached(p, ModificationTime(p)) =>
      /\ compDb.db # None
      /\ compDb.db.place = p
      /\ compDb.db.version = json[p].version \/ json[p].again

(* The server is the interface of Irony.h without its caches.               *)
Api == INSTANCE IronyApi WITH
  unsaved <- filenameToContent,
  parsed <- IF activeTu = Null THEN None ELSE tuManager.live[activeTu],
  completed <- results
ImplementsApi == Api!Spec
=============================================================================
