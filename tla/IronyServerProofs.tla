------------------------- MODULE IronyServerProofs -------------------------
(***************************************************************************)
(* Proofs about IronyServer, for any files, options, texts, directories    *)
(* and commands: types, the ownership of libclang's objects, answers that  *)
(* see the unsaved texts, the compilation database, and that the server    *)
(* implements IronyApi.                                                    *)
(***************************************************************************)
EXTENDS IronyServer, TLAPS

(* What TUManager keeps true of its maps and of the heap, between any two   *)
(* of its steps.                                                            *)
TuManagerType(m) ==
  m \in [units : [File -> TuId \cup {Null}], flags : [File -> Flags],
         live : [TuId -> TranslationUnit \cup {Free}]]
Held(m) == \A f \in File : m.units[f] # Null =>
             /\ m.live[m.units[f]] # Free
             /\ m.live[m.units[f]].file = f
             /\ m.live[m.units[f]].flags = m.flags[f]
NotLost(m) == \A i \in TuId : m.live[i] # Free => \E f \in File : m.units[f] = i
Apart(m) == \A f, g \in File : m.units[f] = m.units[g] /\ f # g => m.units[f] = Null
Managed(m) == TuManagerType(m) /\ Held(m) /\ NotLost(m) /\ Apart(m)

SourcesInv ==
  /\ SourcesType
  /\ Managed(tuManager)
  /\ ActiveOwned
  /\ ResultsOwned
  /\ cxUnsavedFiles = filenameToContent
  /\ AnswersCurrent

(* What CompDBCache and the clock keep true: what is cached, or looked up,  *)
(* has a time no later than the file was last written.                      *)
Keyed ==
  /\ compDb.db = None => compDb = NoDb
  /\ compDb.filename # <<>> =>
       LET j == json[compDb.filename]
       IN  /\ compDb.db # None
           /\ compDb.db.place = compDb.filename
           /\ compDb.db.version <= j.version
           /\ compDb.mtime <= j.written
           /\ compDb.db.version < j.version /\ compDb.mtime = j.written => j.again
WrittenBefore ==
  \A p \in JsonFile : json[p].written <= clock /\ json[p].mtime \in {0, json[p].written}
LookedUp == lookup.filename # <<>> => lookup.mtime <= json[lookup.filename].written

DatabasesInv == DatabasesType /\ Keyed /\ WrittenBefore /\ LookedUp
Loading == phase = "loading" => lookup.filename # <<>>

(* The inductive invariant.                                                 *)
IInv == ProcessType /\ SourcesInv /\ DatabasesInv /\ Loading

----------------------------------------------------------------------------
(* TUManager.                                                               *)

LEMMA EffectiveType ==
  ASSUME SourcesType
  PROVE  Effective \in [File -> Text]
  BY DEF SourcesType, Effective

LEMMA MadeOfType ==
  ASSUME SourcesType, NEW f \in File, NEW flags \in Flags
  PROVE  /\ MadeOf(f, flags) \in TranslationUnit
         /\ MadeOf(f, flags) # Free /\ MadeOf(f, flags) # None
         /\ MadeOf(f, flags).file = f /\ MadeOf(f, flags).flags = flags
         /\ MadeOf(f, flags).text = Effective
<1>1. MadeOf(f, flags) \in TranslationUnit
  BY EffectiveType DEF MadeOf, TranslationUnit
<1>2. Free \notin TranslationUnit /\ None \notin TranslationUnit
  BY ServerAssumption DEF ServerAssumption, TranslationUnit
<1>3. QED
  BY <1>1, <1>2 DEF MadeOf

(* tuRef leaves the unit of f with the options asked for, or none.          *)
LEMMA TuRefManaged ==
  ASSUME NEW m, Managed(m), NEW f \in File, NEW flags \in Flags
  PROVE  Managed(TuRef(m, f, flags)) /\ TuRef(m, f, flags).flags[f] = flags
<1> DEFINE r == TuRef(m, f, flags)
           live == IF m.units[f] = Null THEN m.live ELSE [m.live EXCEPT ![m.units[f]] = Free]
<1> USE DEF Managed, TuManagerType
<1>1. CASE m.flags[f] = flags
  BY <1>1 DEF TuRef
<1>2. CASE m.flags[f] # flags
  <2>1. /\ r.units = [m.units EXCEPT ![f] = Null]
        /\ r.flags = [m.flags EXCEPT ![f] = flags]
        /\ r.live = live
        /\ r = [units |-> [m.units EXCEPT ![f] = Null], flags |-> [m.flags EXCEPT ![f] = flags],
                live |-> live]
    BY <1>2 DEF TuRef, Tus
  <2> HIDE DEF r
  <2>2. live \in [TuId -> TranslationUnit \cup {Free}]
    OBVIOUS
  <2>3. \A i \in TuId : live[i] = IF i = m.units[f] THEN Free ELSE m.live[i]
    BY ServerAssumption DEF ServerAssumption
  <2> HIDE DEF live
  <2>4. TuManagerType(r)
    BY <2>1, <2>2 DEF TuManagerType
  <2>5. Held(r)
    BY <2>1, <2>3 DEF Held, Apart
  <2>6. NotLost(r)
    <3> SUFFICES ASSUME NEW i \in TuId, live[i] # Free
                 PROVE  \E g \in File : r.units[g] = i
      BY <2>1 DEF NotLost
    <3>1. PICK g \in File : m.units[g] = i
      BY <2>3 DEF NotLost
    <3>2. g # f
      BY <3>1, <2>3
    <3>3. QED
      BY <3>1, <3>2, <2>1
  <2>7. Apart(r)
    BY <2>1 DEF Apart
  <2>8. r.flags[f] = flags
    BY <2>1
  <2>9. QED
    BY <2>4, <2>5, <2>6, <2>7, <2>8 DEF r
<1>3. QED
  BY <1>1, <1>2

(* A new unit goes into a free cell.                                        *)
LEMMA ClangParseManaged ==
  ASSUME SourcesType, NEW m, Managed(m), NEW f \in File, NEW flags \in Flags,
         m.units[f] = Null, m.flags[f] = flags,
         NEW tm \in ClangParse(m, f, flags)
  PROVE  Managed(tm) /\ tm.flags = m.flags
<1> USE DEF Managed, TuManagerType
<1>1. CASE tm = m
  BY <1>1
<1>2. CASE tm # m
  <2>1. PICK i \in TuId : /\ m.live[i] = Free
                          /\ tm = Tus([m.units EXCEPT ![f] = i], m.flags,
                                      [m.live EXCEPT ![i] = MadeOf(f, flags)])
    BY <1>2 DEF ClangParse
  <2>2. /\ tm.units = [m.units EXCEPT ![f] = i]
        /\ tm.flags = m.flags
        /\ tm.live = [m.live EXCEPT ![i] = MadeOf(f, flags)]
    BY <2>1 DEF Tus
  <2>3. i # Null /\ \A g \in File : m.units[g] # i
    BY <2>1, ServerAssumption DEF ServerAssumption, Held
  <2>4. TuManagerType(tm)
    BY <2>1, <2>2, MadeOfType DEF Tus
  <2>5. Held(tm)
    BY <2>2, <2>3, MadeOfType DEF Held
  <2>6. NotLost(tm)
    <3> SUFFICES ASSUME NEW k \in TuId, tm.live[k] # Free
                 PROVE  \E g \in File : tm.units[g] = k
      BY DEF NotLost
    <3>1. CASE k = i
      BY <3>1, <2>2
    <3>2. CASE k # i
      <4>1. m.live[k] # Free
        BY <3>2, <2>2
      <4>2. PICK g \in File : m.units[g] = k
        BY <4>1 DEF NotLost
      <4>3. g # f
        BY <4>2, ServerAssumption DEF ServerAssumption
      <4>4. QED
        BY <4>2, <4>3, <2>2
    <3>3. QED
      BY <3>1, <3>2
  <2>7. Apart(tm)
    BY <2>2, <2>3 DEF Apart
  <2>8. QED
    BY <2>2, <2>4, <2>5, <2>6, <2>7
<1>3. QED
  BY <1>1, <1>2

(* A unit that could be parsed again saw the texts of now.                  *)
LEMMA ClangReparseManaged ==
  ASSUME SourcesType, NEW m, Managed(m), NEW f \in File, m.units[f] # Null,
         NEW tm \in ClangReparse(m, f)
  PROVE  /\ Managed(tm)
         /\ tm.flags = m.flags
         /\ tm.units[f] # Null => tm.live[tm.units[f]] = MadeOf(f, m.flags[f])
<1> DEFINE tu == m.units[f]
<1> USE DEF Managed, TuManagerType
<1>1. tu \in TuId /\ m.live[tu].file = f /\ m.live[tu].flags = m.flags[f]
  BY DEF Held
<1>2. CASE tm = Tus(m.units, m.flags, [m.live EXCEPT ![tu] = MadeOf(@.file, @.flags)])
  <2>1. /\ tm.units = m.units
        /\ tm.flags = m.flags
        /\ tm.live = [m.live EXCEPT ![tu] = MadeOf(f, m.flags[f])]
    BY <1>1, <1>2 DEF Tus
  <2>2. TuManagerType(tm)
    BY <1>2, <2>1, MadeOfType DEF Tus
  <2>3. Held(tm)
    BY <1>1, <2>1, MadeOfType DEF Held, Apart
  <2>4. NotLost(tm) /\ Apart(tm)
    BY <1>1, <2>1 DEF NotLost, Apart
  <2>5. QED
    BY <1>1, <2>1, <2>2, <2>3, <2>4
<1>3. CASE tm = Tus([m.units EXCEPT ![f] = Null], m.flags, [m.live EXCEPT ![tu] = Free])
  <2>1. /\ tm.units = [m.units EXCEPT ![f] = Null]
        /\ tm.flags = m.flags
        /\ tm.live = [m.live EXCEPT ![tu] = Free]
    BY <1>3 DEF Tus
  <2>2. TuManagerType(tm)
    BY <1>1, <1>3, <2>1 DEF Tus
  <2>3. Held(tm)
    BY <1>1, <2>1 DEF Held, Apart
  <2>4. NotLost(tm)
    <3> SUFFICES ASSUME NEW i \in TuId, tm.live[i] # Free
                 PROVE  \E g \in File : tm.units[g] = i
      BY DEF NotLost
    <3>1. i # tu /\ m.live[i] # Free
      BY <2>1, <1>1
    <3>2. PICK g \in File : m.units[g] = i
      BY <3>1 DEF NotLost
    <3>3. QED
      BY <3>1, <3>2, <2>1
  <2>5. Apart(tm) /\ tm.units[f] = Null
    BY <2>1 DEF Apart
  <2>6. QED
    BY <2>1, <2>2, <2>3, <2>4, <2>5
<1>4. QED
  BY <1>2, <1>3 DEF ClangReparse

LEMMA TuManagerParseManaged ==
  ASSUME SourcesType, NEW m, Managed(m), NEW f \in File, NEW flags \in Flags,
         NEW tm \in TuManagerParse(m, f, flags)
  PROVE  /\ Managed(tm)
         /\ tm.flags[f] = flags
         /\ tm.units[f] # Null => tm.live[tm.units[f]] = MadeOf(f, flags)
<1> DEFINE ref == TuRef(m, f, flags)
           created == IF ref.units[f] = Null THEN ClangParse(ref, f, flags) ELSE {ref}
<1>1. Managed(ref) /\ ref.flags[f] = flags
  BY TuRefManaged
<1>2. PICK n \in created : tm \in (IF n.units[f] = Null THEN {n} ELSE ClangReparse(n, f))
  BY DEF TuManagerParse
<1> HIDE DEF ref
<1>3. Managed(n) /\ n.flags = ref.flags
  BY <1>1, <1>2, ClangParseManaged
<1> HIDE DEF created
<1>4. CASE n.units[f] = Null
  BY <1>1, <1>2, <1>3, <1>4
<1>5. CASE n.units[f] # Null
  BY <1>1, <1>2, <1>3, <1>5, ClangReparseManaged
<1>6. QED
  BY <1>4, <1>5

LEMMA GetOrCreateTuManaged ==
  ASSUME SourcesType, NEW m, Managed(m), NEW f \in File, NEW flags \in Flags,
         NEW tm \in GetOrCreateTu(m, f, flags)
  PROVE  Managed(tm) /\ tm.flags[f] = flags
  BY TuRefManaged, TuManagerParseManaged DEF GetOrCreateTu

----------------------------------------------------------------------------
(* The commands of class Irony keep SourcesInv, and are steps of IronyApi.  *)

LEMMA EffectiveIsApi ==
  ASSUME SourcesInv
  PROVE  \A f \in File, flags \in Flags : MadeOf(f, flags) = Api!ViewOf(f, flags)
  BY DEF SourcesInv, MadeOf, Effective, Api!ViewOf, Api!Effective

LEMMA EffectiveSees ==
  ASSUME SourcesInv, NEW view, view.text = Effective
  PROVE  Sees(view)
  BY DEF SourcesInv, SourcesType, Sees, Effective

LEMMA ParseStep ==
  ASSUME SourcesInv, NEW f \in File, NEW flags \in Flags, Parse(f, flags)
  PROVE  SourcesInv' /\ Api!Parse(f, flags)
<1> DEFINE tm == tuManager'
<1>1. /\ tm \in TuManagerParse(tuManager, f, flags)
      /\ activeTu' = tm.units[f]
      /\ file' = f
      /\ results' = None
      /\ openResults' = IF results = None THEN openResults ELSE openResults - 1
      /\ UNCHANGED <<disk, filenameToContent, cxUnsavedFiles>>
  BY DEF Parse
<1> HIDE DEF tm
<1>2. SourcesType /\ Managed(tuManager)
  BY DEF SourcesInv
<1>3. /\ Managed(tm)
      /\ tm.flags[f] = flags
      /\ tm.units[f] # Null => tm.live[tm.units[f]] = MadeOf(f, flags)
  BY <1>1, <1>2, TuManagerParseManaged
<1>4. /\ TuManagerType(tm)
      /\ activeTu' \in TuId \cup {Null}
  BY <1>1, <1>3 DEF Managed, TuManagerType
<1>5. SourcesType'
  BY <1>1, <1>2, <1>4 DEF SourcesType, TuManagerType, tm
<1>6. Managed(tuManager)'
  BY <1>3 DEF tm, Managed, TuManagerType, Held, NotLost, Apart, TranslationUnit
<1>7. ActiveOwned' /\ ResultsOwned'
  BY <1>1, <1>2 DEF ActiveOwned, ResultsOwned, SourcesInv, SourcesType, tm
<1>8. (cxUnsavedFiles = filenameToContent)'
  BY <1>1 DEF SourcesInv
<1>9. Sees(MadeOf(f, flags))
  BY <1>2, MadeOfType, EffectiveSees
<1>10. AnswersCurrent'
  BY <1>1, <1>2, <1>3, <1>9, MadeOfType DEF AnswersCurrent, Sees, tm
<1>11. Api!Parse(f, flags)
  BY <1>1, <1>3, EffectiveIsApi DEF Api!Parse, tm
<1>12. QED
  BY <1>5, <1>6, <1>7, <1>8, <1>10, <1>11 DEF SourcesInv

LEMMA CompleteStep ==
  ASSUME SourcesInv, NEW f \in File, NEW flags \in Flags, Complete(f, flags)
  PROVE  SourcesInv' /\ Api!Complete(f, flags)
<1> DEFINE tm == tuManager'
<1>1. /\ tm \in GetOrCreateTu(tuManager, f, flags)
      /\ results' \in CodeCompleteAt(tm, f)
      /\ activeTu' = Null
      /\ openResults' = openResults - (IF results = None THEN 0 ELSE 1)
                                    + (IF results' = None THEN 0 ELSE 1)
      /\ UNCHANGED <<disk, filenameToContent, cxUnsavedFiles, file>>
  BY DEF Complete
<1> HIDE DEF tm
<1>2. SourcesType /\ Managed(tuManager)
  BY DEF SourcesInv
<1>3. Managed(tm) /\ tm.flags[f] = flags
  BY <1>1, <1>2, GetOrCreateTuManaged
<1>4. results' \in {None, MadeOf(f, flags)}
  BY <1>1, <1>3 DEF CodeCompleteAt, Managed, Held
<1>5. SourcesType'
  <2>1. results' \in TranslationUnit \cup {None}
    BY <1>2, <1>4, MadeOfType
  <2>2. TuManagerType(tm)
    BY <1>3 DEF Managed
  <2>3. openResults' \in Int
    BY <1>1, <1>2 DEF SourcesType
  <2>4. QED
    BY <1>1, <1>2, <2>1, <2>2, <2>3 DEF SourcesType, TuManagerType, tm
<1>6. Managed(tuManager)'
  BY <1>3 DEF tm, Managed, TuManagerType, Held, NotLost, Apart, TranslationUnit
<1>7. ActiveOwned' /\ ResultsOwned'
  BY <1>1 DEF ActiveOwned, ResultsOwned, SourcesInv
<1>8. (cxUnsavedFiles = filenameToContent)'
  BY <1>1 DEF SourcesInv
<1>9. Sees(MadeOf(f, flags))
  BY <1>2, MadeOfType, EffectiveSees
<1>10. AnswersCurrent'
  BY <1>1, <1>2, <1>3, <1>4, <1>9, MadeOfType DEF AnswersCurrent, Sees, tm
<1>11. Api!Complete(f, flags)
  BY <1>1, <1>4, EffectiveIsApi DEF Api!Complete
<1>12. QED
  BY <1>5, <1>6, <1>7, <1>8, <1>10, <1>11 DEF SourcesInv

(* With both forgotten, no answer can be stale.                             *)
LEMMA TextStep ==
  ASSUME SourcesInv, NEW f \in File, NEW content \in Text \cup {None},
         SetUnsaved(f, content) \/ (content = None /\ ResetUnsaved(f))
  PROVE  SourcesInv' /\ Api!SetText(f, content)
<1>1. /\ activeTu' = Null
      /\ results' = None
      /\ openResults' = IF results = None THEN openResults ELSE openResults - 1
      /\ filenameToContent' = [filenameToContent EXCEPT ![f] = content]
      /\ cxUnsavedFiles' = filenameToContent'
      /\ UNCHANGED <<disk, tuManager, file>>
  BY DEF SetUnsaved, ResetUnsaved, ResetCache, ComputeCxUnsaved
<1>2. SourcesType'
  BY <1>1 DEF SourcesInv, SourcesType
<1>3. Managed(tuManager)'
  BY <1>1 DEF SourcesInv, Managed, TuManagerType, Held, NotLost, Apart, TranslationUnit
<1>4. ActiveOwned' /\ ResultsOwned' /\ AnswersCurrent'
  BY <1>1 DEF SourcesInv, SourcesType, ActiveOwned, ResultsOwned, AnswersCurrent
<1>5. Api!SetText(f, content)
  BY <1>1 DEF Api!SetText
<1>6. QED
  BY <1>1, <1>2, <1>3, <1>4, <1>5 DEF SourcesInv

LEMMA SourcesSame ==
  ASSUME SourcesInv, UNCHANGED sources
  PROVE  SourcesInv' /\ UNCHANGED Api!vars
<1>1. SourcesType' /\ Managed(tuManager)'
  BY DEF sources, SourcesInv, SourcesType, Managed, TuManagerType, Held, NotLost, Apart, TranslationUnit
<1>2. ActiveOwned' /\ ResultsOwned' /\ AnswersCurrent' /\ (cxUnsavedFiles = filenameToContent)'
  BY DEF sources, SourcesInv, ActiveOwned, ResultsOwned, AnswersCurrent, Sees
<1>3. UNCHANGED Api!vars
  BY DEF sources, Api!vars
<1>4. QED
  BY <1>1, <1>2, <1>3 DEF SourcesInv

LEMMA SaveFileStep ==
  ASSUME SourcesInv, SaveFile
  PROVE  SourcesInv' /\ \E f \in File, text \in Text : Api!Save(f, text)
<1>1. PICK f \in File, text \in Text :
        /\ disk' = [disk EXCEPT ![f] = text]
        /\ UNCHANGED <<filenameToContent, cxUnsavedFiles, tuManager, activeTu, file, results, openResults>>
  BY DEF SaveFile
<1>2. SourcesType' /\ Managed(tuManager)'
  BY <1>1 DEF SourcesInv, SourcesType, Managed, TuManagerType, Held, NotLost, Apart, TranslationUnit
<1>3. ActiveOwned' /\ ResultsOwned' /\ AnswersCurrent' /\ (cxUnsavedFiles = filenameToContent)'
  BY <1>1 DEF SourcesInv, ActiveOwned, ResultsOwned, AnswersCurrent, Sees
<1>4. Api!Save(f, text)
  BY <1>1 DEF Api!Save
<1>5. QED
  BY <1>2, <1>3, <1>4 DEF SourcesInv

----------------------------------------------------------------------------
(* The compilation database.                                                *)

LEMMA DatabasesSame ==
  ASSUME DatabasesInv, UNCHANGED databases
  PROVE  DatabasesInv'
  BY DEF DatabasesInv, DatabasesType, Keyed, WrittenBefore, LookedUp, databases

(* What is looked up is no newer than the file.                             *)
LEMMA LookupStep ==
  ASSUME DatabasesInv, GetCompileOptions
  PROVE  DatabasesInv' /\ lookup'.filename # <<>>
<1>1. PICK c \in Command : /\ c.action = "get_compile_options"
                           /\ lookup' = [filename |-> JsonDbFilename(c.dir),
                                         mtime |-> ModificationTime(JsonDbFilename(c.dir))]
  BY DEF GetCompileOptions
<1> DEFINE p == JsonDbFilename(c.dir)
<1>2. p \in JsonFile /\ p # <<>>
  BY <1>1, ServerAssumption DEF ServerAssumption
<1> HIDE DEF p
<1>3. UNCHANGED <<json, clock, compDb>>
  BY DEF GetCompileOptions
<1>4. json[p] \in JsonState
  BY <1>2 DEF DatabasesInv, DatabasesType
<1>5. json[p].mtime \in Time /\ json[p].mtime <= json[p].written
  BY <1>2, <1>4 DEF DatabasesInv, WrittenBefore, JsonState, Time
<1>6. lookup' = [filename |-> p, mtime |-> json[p].mtime]
  BY <1>1 DEF p, ModificationTime
<1>7. DatabasesType'
  BY <1>2, <1>3, <1>5, <1>6 DEF DatabasesInv, DatabasesType
<1>8. Keyed' /\ WrittenBefore'
  BY <1>3 DEF DatabasesInv, Keyed, WrittenBefore
<1>9. LookedUp'
  BY <1>3, <1>5, <1>6 DEF LookedUp
<1>10. QED
  BY <1>2, <1>6, <1>7, <1>8, <1>9 DEF DatabasesInv

LEMMA LoadStep ==
  ASSUME DatabasesInv, lookup.filename # <<>>, LoadDatabase
  PROVE  DatabasesInv'
<1> DEFINE p == lookup.filename
           m == lookup.mtime
           loaded == [place |-> p, version |-> json[p].version]
<1>1. p \in JsonFile /\ p # <<>> /\ m \in Time /\ json[p] \in JsonState
  BY DEF DatabasesInv, DatabasesType
<1>2. m <= json[p].written
  BY DEF DatabasesInv, LookedUp
<1>3. loaded \in Db /\ loaded # None
  BY <1>1, ServerAssumption DEF ServerAssumption, Db, JsonState
<1>4. UNCHANGED <<json, clock>> /\ lookup' = NoLookup
  BY DEF LoadDatabase
<1>5. WrittenBefore' /\ LookedUp'
  BY <1>4 DEF DatabasesInv, WrittenBefore, LookedUp, NoLookup
<1>6. 0 \in Time
  BY ServerAssumption DEF ServerAssumption, Time
<1>7. json' \in [JsonFile -> JsonState] /\ clock' \in Time
      /\ lookup' \in [filename : JsonFile \cup {<<>>}, mtime : Time]
  BY <1>4, <1>6 DEF DatabasesInv, DatabasesType, NoLookup
<1>8. CASE compDb' = compDb
  BY <1>4, <1>5, <1>7, <1>8 DEF DatabasesInv, DatabasesType, Keyed
<1>9. CASE compDb' \in FromDirectory(p, m)
  <2>1. NoDb \in [db : Db \cup {None}, filename : JsonFile \cup {<<>>}, mtime : Time]
    BY <1>6 DEF NoDb
  <2>2. Clear = NoDb
    BY DEF Clear, DatabasesInv, Keyed
  <2>3. CASE compDb' = [Clear EXCEPT !.db = None]
    <3>1. compDb' = NoDb
      BY <2>2, <2>3 DEF NoDb
    <3>2. QED
      BY <1>5, <1>7, <2>1, <3>1 DEF DatabasesInv, DatabasesType, Keyed, NoDb
  <2>4. CASE m # 0 /\ compDb' = [db |-> loaded, filename |-> p, mtime |-> m]
    <3>1. json[p].version <= json[p].version
      BY <1>1 DEF JsonState
    <3>2. Keyed'
      BY <1>1, <1>2, <1>3, <1>4, <2>4, <3>1 DEF Keyed, JsonState, Time
    <3>3. DatabasesType'
      BY <1>1, <1>3, <1>7, <2>4 DEF DatabasesType
    <3>4. QED
      BY <1>5, <3>2, <3>3 DEF DatabasesInv
  <2>5. CASE compDb' = [Clear EXCEPT !.db = loaded]
    <3>1. compDb' = [db |-> loaded, filename |-> <<>>, mtime |-> 0]
      BY <2>2, <2>5 DEF NoDb
    <3>2. Keyed'
      BY <1>3, <3>1 DEF Keyed
    <3>3. DatabasesType'
      BY <1>3, <1>6, <1>7, <3>1 DEF DatabasesType
    <3>4. QED
      BY <1>5, <3>2, <3>3 DEF DatabasesInv
  <2>6. QED
    BY <1>9, <2>3, <2>4, <2>5 DEF FromDirectory
<1>10. QED
  BY <1>8, <1>9 DEF LoadDatabase

(* A version that is newer than one cached with the same time was written   *)
(* in a second that already saw a write.                                    *)
LEMMA WriteStep ==
  ASSUME DatabasesInv, WriteDatabase
  PROVE  DatabasesInv'
<1>1. PICK p \in JsonFile :
        /\ json[p].version < MaxVersion
        /\ json' = [json EXCEPT ![p] = [version |-> json[p].version + 1, mtime |-> clock,
                                        again |-> json[p].written = clock, written |-> clock]]
  BY DEF WriteDatabase
<1>2. UNCHANGED <<clock, compDb, lookup>>
  BY DEF WriteDatabase
<1>3. /\ json[p] \in JsonState /\ clock \in Time /\ MaxVersion \in Nat /\ MaxClock \in Nat
      /\ \A q \in JsonFile : json[q] \in JsonState
  BY ServerAssumption DEF ServerAssumption, DatabasesInv, DatabasesType
<1>4. [version |-> json[p].version + 1, mtime |-> clock,
       again |-> json[p].written = clock, written |-> clock] \in JsonState
  <2>1. json[p].version + 1 \in 0..MaxVersion
    BY <1>1, <1>3 DEF JsonState
  <2>2. (json[p].written = clock) \in BOOLEAN
    OBVIOUS
  <2>3. QED
    BY <1>3, <2>1, <2>2 DEF JsonState
<1>5. /\ json'[p].version = json[p].version + 1
      /\ json'[p].mtime = clock /\ json'[p].written = clock
      /\ json'[p].again <=> json[p].written = clock
      /\ \A q \in JsonFile : q # p => json'[q] = json[q]
  BY <1>1 DEF DatabasesInv, DatabasesType
<1>6. DatabasesType'
  BY <1>1, <1>2, <1>4 DEF DatabasesInv, DatabasesType
<1>7. json[p].written <= clock
  BY DEF DatabasesInv, WrittenBefore
<1>8. WrittenBefore'
  BY <1>2, <1>3, <1>5 DEF DatabasesInv, WrittenBefore, Time
<1>9. LookedUp'
  <2>1. CASE lookup.filename = <<>>
    BY <1>2, <2>1 DEF LookedUp
  <2>2. CASE lookup.filename # <<>> /\ lookup.filename # p
    <3>1. lookup.filename \in JsonFile
      BY <2>2 DEF DatabasesInv, DatabasesType
    <3>2. lookup.mtime <= json[lookup.filename].written
      BY <2>2 DEF DatabasesInv, LookedUp
    <3>3. json'[lookup.filename] = json[lookup.filename]
      BY <1>5, <2>2, <3>1
    <3>4. QED
      BY <1>2, <3>2, <3>3 DEF LookedUp
  <2>3. CASE lookup.filename # <<>> /\ lookup.filename = p
    <3>1. lookup.mtime \in Int /\ json[p].written \in Int /\ clock \in Int
      BY <1>3 DEF DatabasesInv, DatabasesType, JsonState, Time
    <3>2. lookup.mtime <= json[p].written
      BY <2>3 DEF DatabasesInv, LookedUp
    <3>3. lookup.mtime <= json'[p].written
      BY <1>5, <1>7, <3>1, <3>2
    <3>4. QED
      BY <1>2, <2>3, <3>3 DEF LookedUp
  <2>4. QED
    BY <2>1, <2>2, <2>3
<1>10. Keyed'
  <2>1. CASE compDb.filename = <<>>
    BY <1>2, <2>1 DEF DatabasesInv, Keyed
  <2>2. CASE compDb.filename # <<>> /\ compDb.filename # p
    BY <1>2, <1>5, <2>2 DEF DatabasesInv, DatabasesType, Keyed
  <2>3. CASE compDb.filename # <<>> /\ compDb.filename = p
    <3>1. /\ compDb.db # None /\ compDb.db.place = p
          /\ compDb.db.version <= json[p].version
          /\ compDb.mtime <= json[p].written
      BY <2>3 DEF DatabasesInv, Keyed
    <3>2. compDb.db \in Db /\ compDb.mtime \in Time
      BY <3>1 DEF DatabasesInv, DatabasesType
    <3>3. /\ compDb.db.version \in Int /\ compDb.mtime \in Int /\ clock \in Int
          /\ json[p].version \in Int /\ json[p].written \in Int
      BY <1>3, <3>2 DEF Db, JsonState, Time
    <3>4. compDb.db.version <= json'[p].version /\ compDb.mtime <= json'[p].written
      BY <1>5, <1>7, <3>1, <3>3
    <3>5. compDb.mtime = json'[p].written => json'[p].again
      BY <1>5, <1>7, <3>1, <3>3
    <3>6. compDb.db = None => compDb = NoDb
      BY <3>1
    <3>7. QED
      BY <1>2, <2>3, <3>1, <3>4, <3>5, <3>6 DEF Keyed
  <2>4. QED
    BY <2>1, <2>2, <2>3
<1>11. QED
  BY <1>6, <1>8, <1>9, <1>10 DEF DatabasesInv

LEMMA RemoveStep ==
  ASSUME DatabasesInv, RemoveDatabase
  PROVE  DatabasesInv'
<1>1. PICK p \in JsonFile : json' = [json EXCEPT ![p].mtime = 0]
  BY DEF RemoveDatabase
<1>2. UNCHANGED <<clock, compDb, lookup>>
  BY DEF RemoveDatabase
<1>3. \A q \in JsonFile : json[q] \in JsonState
  BY DEF DatabasesInv, DatabasesType
<1>4. 0 \in Time
  BY ServerAssumption DEF ServerAssumption, Time
<1>5. \A q \in JsonFile :
        /\ json'[q] \in JsonState
        /\ json'[q].version = json[q].version /\ json'[q].written = json[q].written
        /\ json'[q].again = json[q].again
        /\ json'[q].mtime \in {0, json[q].mtime}
  BY <1>1, <1>3, <1>4 DEF DatabasesInv, DatabasesType, JsonState
<1>6. DatabasesType'
  BY <1>1, <1>2, <1>5 DEF DatabasesInv, DatabasesType
<1>7. Keyed' /\ LookedUp'
  BY <1>2, <1>5 DEF DatabasesInv, DatabasesType, Keyed, LookedUp
<1>8. WrittenBefore'
  BY <1>2, <1>5 DEF DatabasesInv, WrittenBefore
<1>9. QED
  BY <1>6, <1>7, <1>8 DEF DatabasesInv

LEMMA TickStep ==
  ASSUME DatabasesInv, Tick
  PROVE  DatabasesInv'
<1>1. clock' = clock + 1 /\ clock < MaxClock /\ UNCHANGED <<json, compDb, lookup>>
  BY DEF Tick
<1>2. clock \in Time /\ MaxClock \in Nat
  BY ServerAssumption DEF ServerAssumption, DatabasesInv, DatabasesType
<1>3. DatabasesType'
  BY <1>1, <1>2 DEF DatabasesInv, DatabasesType, Time
<1>4. Keyed' /\ LookedUp'
  BY <1>1 DEF DatabasesInv, Keyed, LookedUp
<1>5. WrittenBefore'
  BY <1>1, <1>2 DEF DatabasesInv, DatabasesType, WrittenBefore, JsonState, Time
<1>6. QED
  BY <1>3, <1>4, <1>5 DEF DatabasesInv

----------------------------------------------------------------------------
(* The loop of main.                                                        *)

LEMMA TakeStep ==
  ASSUME ProcessType, NEW c \in Command, Take(c)
  PROVE  input' \in [interactive : BOOLEAN, firstCall : BOOLEAN, argv : Command]
  BY DEF ProcessType, Take

(* Commands that end ready take their line and make the temporary file.     *)
LEMMA ExecuteStep ==
  ASSUME ProcessType, NEW c \in Command, Execute(c), UNCHANGED <<phase, status>>
  PROVE  ProcessType' /\ Loading'
<1>1. phase = "ready" /\ Take(c) /\ tempFile' = (tempFile \/ UsesTempFile(c))
  BY DEF Execute, Take
<1>2. tempFile' \in BOOLEAN
  BY <1>1 DEF ProcessType, UsesTempFile
<1>3. ProcessType'
  BY <1>1, <1>2, TakeStep DEF ProcessType
<1>4. QED
  BY <1>1, <1>3 DEF Loading

LEMMA StopStep ==
  ASSUME ProcessType, NEW c \in Command, Take(c), tempFile' \in BOOLEAN,
         NEW code \in {0, 1}, Stop(code)
  PROVE  ProcessType' /\ Loading'
  BY TakeStep DEF ProcessType, Stop, Loading

(* The sources keep their invariant with every step, which is one of        *)
(* IronyApi or changes nothing there.                                       *)
LEMMA SourcesStep ==
  ASSUME SourcesInv, [Next]_vars
  PROVE  SourcesInv' /\ [Api!Next]_(Api!vars)
<1>1. CASE ExecuteParse
  <2>1. PICK c \in Command : c.action = "parse" /\ Parse(c.file, c.flags)
    BY <1>1 DEF ExecuteParse
  <2>2. c.file \in File /\ c.flags \in Flags
    BY <2>1, ServerAssumption DEF ServerAssumption
  <2>3. QED
    BY <2>1, <2>2, ParseStep DEF Api!Next
<1>2. CASE ExecuteComplete
  <2>1. PICK c \in Command : c.action = "complete" /\ Complete(c.file, c.flags)
    BY <1>2 DEF ExecuteComplete
  <2>2. c.file \in File /\ c.flags \in Flags
    BY <2>1, ServerAssumption DEF ServerAssumption
  <2>3. QED
    BY <2>1, <2>2, CompleteStep DEF Api!Next
<1>3. CASE ExecuteSetUnsaved
  <2>1. PICK c \in Command, content \in Text \cup {None} :
          c.action = "set_unsaved" /\ SetUnsaved(c.file, content)
    BY <1>3 DEF ExecuteSetUnsaved, ReadFileContent
  <2>2. c.file \in File
    BY <2>1, ServerAssumption DEF ServerAssumption
  <2>3. QED
    BY <2>1, <2>2, TextStep DEF Api!Next
<1>4. CASE ExecuteResetUnsaved
  <2>1. PICK c \in Command : c.action = "reset_unsaved" /\ ResetUnsaved(c.file)
    BY <1>4 DEF ExecuteResetUnsaved
  <2>2. c.file \in File
    BY <2>1, ServerAssumption DEF ServerAssumption
  <2>3. QED
    BY <2>1, <2>2, TextStep DEF Api!Next
<1>5. CASE SaveFile
  BY <1>5, SaveFileStep DEF Api!Next
<1>6. CASE UNCHANGED sources
  BY <1>6, SourcesSame
<1>7. Start \/ ExecuteQuery \/ GetCompileOptions \/ LoadDatabase \/ ExecuteExit \/ RefuseCommand
      \/ NoTempFile \/ WriteDatabase \/ RemoveDatabase \/ Tick \/ UNCHANGED vars => UNCHANGED sources
  BY DEF Start, ExecuteQuery, GetCompileOptions, LoadDatabase, ExecuteExit, RefuseCommand, NoTempFile,
         Stop, WriteDatabase, RemoveDatabase, Tick, vars
<1>8. QED
  BY <1>1, <1>2, <1>3, <1>4, <1>5, <1>6, <1>7 DEF Next, Commands, Environment

LEMMA DatabasesStep ==
  ASSUME DatabasesInv, Loading, [Next]_vars
  PROVE  DatabasesInv'
<1>1. CASE UNCHANGED databases
  BY <1>1, DatabasesSame
<1>2. CASE GetCompileOptions
  BY <1>2, LookupStep
<1>3. CASE LoadDatabase
  BY <1>3, LoadStep DEF LoadDatabase, Loading
<1>4. CASE WriteDatabase \/ RemoveDatabase \/ Tick
  BY <1>4, WriteStep, RemoveStep, TickStep
<1>5. Start \/ ExecuteParse \/ ExecuteComplete \/ ExecuteSetUnsaved \/ ExecuteResetUnsaved \/ ExecuteQuery
      \/ ExecuteExit \/ RefuseCommand \/ NoTempFile \/ SaveFile \/ UNCHANGED vars => UNCHANGED databases
  BY DEF Start, ExecuteParse, ExecuteComplete, ExecuteSetUnsaved, ExecuteResetUnsaved, ExecuteQuery,
         ExecuteExit, RefuseCommand, NoTempFile, Stop, SaveFile, vars
<1>6. QED
  BY <1>1, <1>2, <1>3, <1>4, <1>5 DEF Next, Commands, Environment

LEMMA ProcessStep ==
  ASSUME ProcessType, DatabasesInv, Loading, [Next]_vars
  PROVE  ProcessType' /\ Loading'
<1>1. CASE ExecuteParse \/ ExecuteComplete \/ ExecuteSetUnsaved \/ ExecuteResetUnsaved \/ ExecuteQuery
  <2>1. PICK c \in Command : Execute(c)
    BY <1>1 DEF ExecuteParse, ExecuteComplete, ExecuteSetUnsaved, ExecuteResetUnsaved, ExecuteQuery
  <2>2. UNCHANGED <<phase, status>>
    BY <1>1 DEF ExecuteParse, ExecuteComplete, ExecuteSetUnsaved, ExecuteResetUnsaved, ExecuteQuery
  <2>3. QED
    BY <2>1, <2>2, ExecuteStep
<1>2. CASE GetCompileOptions
  <2>1. PICK c \in Command : Execute(c)
    BY <1>2 DEF GetCompileOptions
  <2>2. input' \in [interactive : BOOLEAN, firstCall : BOOLEAN, argv : Command]
    BY <2>1, TakeStep DEF Execute
  <2>3. tempFile' \in BOOLEAN
    BY <2>1 DEF Execute, ProcessType, UsesTempFile
  <2>4. phase' = "loading" /\ UNCHANGED status
    BY <1>2 DEF GetCompileOptions
  <2>5. QED
    BY <1>2, <2>2, <2>3, <2>4, LookupStep DEF ProcessType, Loading
<1>3. CASE LoadDatabase
  BY <1>3 DEF LoadDatabase, ProcessType, Loading
<1>4. CASE ExecuteExit
  <2>1. PICK c \in Command : Take(c) /\ tempFile' = FALSE /\ Stop(0)
    BY <1>4 DEF ExecuteExit
  <2>2. QED
    BY <2>1, StopStep
<1>5. CASE RefuseCommand \/ NoTempFile
  <2>1. PICK c \in Command : Take(c) /\ tempFile' \in BOOLEAN /\ Stop(1)
    BY <1>5 DEF RefuseCommand, NoTempFile, ProcessType
  <2>2. QED
    BY <2>1, StopStep
<1>6. CASE Start
  <2>1. PICK o \in Opening :
          /\ input' = [interactive |-> o.interactive, firstCall |-> TRUE, argv |-> o.command]
          /\ phase' = IF o.outcome = "run" THEN "ready" ELSE "exited"
          /\ status' = CASE o.outcome = "run" -> status
                         [] o.outcome = "information" -> 0
                         [] o.outcome = "error" -> 1
          /\ UNCHANGED tempFile
    BY <1>6 DEF Start
  <2>2. o.outcome \in {"run", "information", "error"} /\ o.interactive \in BOOLEAN /\ o.command \in Command
    BY ServerAssumption DEF ServerAssumption
  <2>3. status' \in {None, 0, 1}
    BY <2>1, <2>2 DEF ProcessType
  <2>4. QED
    BY <2>1, <2>2, <2>3 DEF ProcessType, Loading
<1>7. CASE Environment
  <2>1. UNCHANGED <<process, lookup>>
    BY <1>7 DEF Environment, SaveFile, WriteDatabase, RemoveDatabase, Tick, databases
  <2>2. QED
    BY <2>1 DEF process, ProcessType, Loading
<1>8. CASE UNCHANGED vars
  BY <1>8 DEF vars, process, databases, ProcessType, Loading
<1>9. QED
  BY <1>1, <1>2, <1>3, <1>4, <1>5, <1>6, <1>7, <1>8 DEF Next, Commands

----------------------------------------------------------------------------
LEMMA InitInv ==
  ASSUME Init
  PROVE  IInv /\ Api!Init
<1>1. ProcessType
  BY ServerAssumption DEF ServerAssumption, Init, ProcessType, Exit
<1>2. Managed(tuManager)
  BY ServerAssumption DEF ServerAssumption, Init, Managed, TuManagerType, Held, NotLost, Apart
<1>3. SourcesType
  BY <1>2 DEF Init, SourcesType, Managed, TuManagerType
<1>4. ActiveOwned /\ ResultsOwned /\ cxUnsavedFiles = filenameToContent /\ AnswersCurrent
  BY DEF Init, ActiveOwned, ResultsOwned, AnswersCurrent
<1>5. SourcesInv
  BY <1>2, <1>3, <1>4 DEF SourcesInv
<1>6. DatabasesType
  <2>1. {0, 1} \subseteq Time /\ 0 \in 0..MaxVersion
    BY ServerAssumption DEF ServerAssumption, Time
  <2>2. QED
    BY <2>1 DEF Init, DatabasesType, JsonState, NoDb, NoLookup
<1>7. Keyed /\ WrittenBefore /\ LookedUp
  BY DEF Init, Keyed, WrittenBefore, LookedUp, NoDb, NoLookup
<1>8. Loading
  BY DEF Init, Loading
<1>9. Api!Init
  BY DEF Init, Api!Init
<1>10. QED
  BY <1>1, <1>5, <1>6, <1>7, <1>8, <1>9 DEF IInv, DatabasesInv

LEMMA StepInv ==
  ASSUME IInv, [Next]_vars
  PROVE  IInv' /\ [Api!Next]_(Api!vars)
  BY SourcesStep, DatabasesStep, ProcessStep DEF IInv

(* The inductive invariant holds in every reachable state.                  *)
THEOREM Invariance == Spec => []IInv
<1>1. Init => IInv
  BY InitInv
<1>2. IInv /\ [Next]_vars => IInv'
  BY StepInv
<1>3. QED
  BY <1>1, <1>2, PTL DEF Spec

(* The members of Irony, TUManager and CompDBCache keep their types.        *)
THEOREM TypeCorrect == Spec => []TypeOK
<1>1. IInv => TypeOK
  BY DEF IInv, SourcesInv, DatabasesInv, TypeOK
<1>2. QED
  BY <1>1, Invariance, PTL

(* No translation unit and no completion results dangle or leak, and the    *)
(* pointers to unsaved texts are those of the map (TUManager.cpp, resetCache *)
(* and computeCxUnsaved of Irony.cpp).                                      *)
THEOREM HandlesSafe == Spec => []HandlesOwned
<1>1. Managed(tuManager) => UnitsOwned
  BY DEF Managed, Held, NotLost, Apart, UnitsOwned
<1>2. IInv => HandlesOwned
  BY <1>1 DEF IInv, SourcesInv, HandlesOwned
<1>3. QED
  BY <1>2, Invariance, PTL

(* Diagnostics, types and candidates are taken from what saw the unsaved    *)
(* texts of now (resetCache in parse, complete, setUnsaved, resetUnsaved).  *)
THEOREM AnswersAreCurrent == Spec => []AnswersCurrent
<1>1. IInv => AnswersCurrent
  BY DEF IInv, SourcesInv
<1>2. QED
  BY <1>1, Invariance, PTL

(* A database fromDirectory takes from its cache is the one on disk, but    *)
(* for a file written twice in one second (CompDBCache.cpp).                *)
THEOREM DatabaseCurrent == Spec => []DbCurrent
<1>1. DatabasesInv => DbCurrent
  <2> SUFFICES ASSUME DatabasesInv, NEW p \in JsonFile, Cached(p, ModificationTime(p))
               PROVE  /\ compDb.db # None
                      /\ compDb.db.place = p
                      /\ compDb.db.version = json[p].version \/ json[p].again
    BY DEF DbCurrent
  <2>1. p = compDb.filename /\ p # <<>> /\ json[p].mtime # 0 /\ json[p].mtime = compDb.mtime
    BY ServerAssumption DEF ServerAssumption, Cached, ModificationTime
  <2>2. /\ compDb.db # None /\ compDb.db.place = p
        /\ compDb.db.version <= json[p].version
        /\ compDb.db.version < json[p].version /\ compDb.mtime = json[p].written => json[p].again
    BY <2>1 DEF DatabasesInv, Keyed
  <2>3. compDb.mtime = json[p].written
    BY <2>1 DEF DatabasesInv, WrittenBefore
  <2>4. compDb.db \in Db /\ json[p] \in JsonState
    BY <2>2 DEF DatabasesInv, DatabasesType
  <2>5. compDb.db.version \in Int /\ json[p].version \in Int
    BY <2>4 DEF Db, JsonState
  <2>6. QED
    BY <2>2, <2>3, <2>5
<1>2. IInv => DbCurrent
  BY <1>1 DEF IInv
<1>3. QED
  BY <1>2, Invariance, PTL

(* The server, with its caches of units and results, implements the         *)
(* interface of Irony.h.                                                    *)
THEOREM Implements == Spec => ImplementsApi
<1>1. Init => Api!Init
  BY InitInv
<1>2. IInv /\ [Next]_vars => [Api!Next]_(Api!vars)
  BY StepInv
<1>3. QED
  BY <1>1, <1>2, Invariance, PTL DEF Spec, ImplementsApi, Api!Spec
=============================================================================
