----------------------------- MODULE EpdfServer -----------------------------
(***************************************************************************)
(* The epdfinfo server of pdf-tools: the table of open documents and, for  *)
(* each document, the annotations poppler holds, the lists and the key     *)
(* table the server keeps about them, their properties, and the render     *)
(* options.  The server is single threaded: main() reads a command,        *)
(* executes it to its end and answers it before it reads the next one, so  *)
(* every command is one step.                                              *)
(***************************************************************************)
EXTENDS Naturals, FiniteSets, SequencesExt

CONSTANTS
  File,        \* names of documents
  NPages,      \* number of pages of every document
  Annot,       \* annotations that are in the files or may be created
  PropName,    \* annotation properties a client may name
  OptName,     \* option names a client may send
  Option,      \* those of them listed in document_options[]
  Val,         \* values of properties and options
  DefaultVal,  \* the value each property and option has to begin with
  Bad,         \* an argument that does not parse
  Closed,      \* docs[f] of a document that is not open
  Access,      \* Access[f]: can poppler open f, and does it need a password
  OnDisk,      \* OnDisk[f][p]: the annotations the file has on page p
  BadPage,     \* pairs <<f, p>> of pages poppler cannot load
  AnnotType,   \* AnnotType[a]: one of AnnotKind
  Modifiable,  \* Modifiable[n]: the annotation types that have property n
  KeyIndex     \* the numbers a new key may get

Page == 1..NPages
\* Text notes, text markup, file attachments, and links, widgets and the like.
AnnotKind == {"text", "markup", "file", "other"}

ASSUME ConstantsAssumption ==
  /\ NPages \in Nat \ {0}
  /\ Option \subseteq OptName
  /\ DefaultVal \in Val /\ Bad \notin Val
  /\ Access \in [File -> {"plain", "protected", "missing"}]
  /\ OnDisk \in [File -> [Page -> Seq(Annot)]]
  /\ BadPage \subseteq File \X Page
  /\ AnnotType \in [Annot -> AnnotKind]
  /\ Modifiable \in [PropName -> SUBSET AnnotKind]
  /\ KeyIndex \subseteq Nat

\* A file holds every annotation once.
ASSUME OnDiskAssumption ==
  \A f \in File :
    /\ \A p \in Page : IsInjective(OnDisk[f][p])
    /\ \A p, q \in Page : p # q => ToSet(OnDisk[f][p]) \cap ToSet(OnDisk[f][q]) = {}

(***************************************************************************)
(* The key "annot-P-I" is the pair <<P, I>>.  An annotation_t is a record  *)
(* of a poppler annotation and its key.  A hash table is the set of the    *)
(* records it holds: keys is the table annotations.keys, lists[p] the list *)
(* annotations.pages[p-1].  pdf is what poppler has in memory.  dangling   *)
(* are the annotation_t that were freed and can still be reached.          *)
(***************************************************************************)
Key == Page \X Nat
Entry == [annot : Annot, key : Key]
Document == [ pdf      : [Page -> Seq(Annot)],
              lists    : [Page -> SUBSET Entry],
              keys     : SUBSET Entry,
              props    : [Annot -> [PropName -> Val]],
              options  : [Option -> Val],
              dangling : SUBSET Entry ]

\* A list of key and value arguments; odd when the last value is missing.
ArgList(Names) == [ pairs : UNION {[S -> Val \cup {Bad}] : S \in SUBSET Names},
                    odd   : BOOLEAN ]

PageArg == 0..(NPages + 1)   \* page arguments, those out of range included

VARIABLES
  running,   \* the server process is alive
  docs,      \* docs[f]: the document_t of f in ctx->documents, or Closed
  reply      \* the answer to the last command

vars == <<running, docs, reply>>

Reply == [ cmd    : {"getannots", "other"},
           file   : File \cup {Closed},
           pages  : Nat \X Nat,
           status : {"ok", "err", "none"},
           annots : SUBSET Entry ]

Answered(status) == [ cmd |-> "other", file |-> Closed, pages |-> <<0, 0>>,
                      status |-> status, annots |-> {} ]

TypeOK ==
  /\ running \in BOOLEAN
  /\ docs \in [File -> Document \cup {Closed}]
  /\ reply \in Reply

-----------------------------------------------------------------------------
(* Opening and looking up.                                                 *)

NewDocument(f) ==
  [ pdf      |-> OnDisk[f],
    lists    |-> [p \in Page |-> {}],
    keys     |-> {},
    props    |-> [a \in Annot |-> [n \in PropName |-> DefaultVal]],
    options  |-> [o \in Option |-> DefaultVal],
    dangling |-> {} ]

\* Mutant: opening with the password reads an open document anew.
DocumentOpenAgain(f, passwd) ==
  IF Access[f] = "plain" \/ (Access[f] = "protected" /\ passwd = "right")
  THEN NewDocument(f)
  ELSE docs[f]

\* An open document is returned whatever the password; others are loaded.
DocumentOpen(f, passwd) ==
  IF docs[f] # Closed THEN docs[f]
  ELSE IF Access[f] = "plain" \/ (Access[f] = "protected" /\ passwd = "right")
       THEN NewDocument(f)
       ELSE Closed

\* A document argument opens the document, without a password.
ArgDoc(f) == DocumentOpen(f, "none")

\* poppler_document_get_page
Loadable(f, pn) == pn \in Page /\ <<f, pn>> \notin BadPage

InPdf(d, pn) == ToSet(d.pdf[pn])

\* Mutant: the index, counted from zero, taken for the page number.
PageOfZeroBased(d, a) ==
  IF \E pn \in Page : a \in InPdf(d, pn)
  THEN (CHOOSE pn \in Page : a \in InPdf(d, pn)) - 1
  ELSE 0

\* poppler_annot_get_page_index, plus one
PageOf(d, a) ==
  IF \E pn \in Page : a \in InPdf(d, pn)
  THEN CHOOSE pn \in Page : a \in InPdf(d, pn)
  ELSE 0

\* g_hash_table_insert replaces an entry that has the same key.
Insert(table, new) ==
  {e \in table : \A n \in new : n.key # e.key} \cup new

\* Mutants: keys with the page counted from zero; a number never incremented.
ScanZeroBased(d, pn) ==
  {[annot |-> d.pdf[pn][i], key |-> <<pn - 1, i - 1>>] : i \in DOMAIN d.pdf[pn]}
ScanOneNumber(d, pn) ==
  {[annot |-> d.pdf[pn][i], key |-> <<pn, 0>>] : i \in DOMAIN d.pdf[pn]}

\* The annotation_t made for a page, numbered in the order poppler lists them.
Scan(d, pn) ==
  {[annot |-> d.pdf[pn][i], key |-> <<pn, i - 1>>] : i \in DOMAIN d.pdf[pn]}

\* Mutant: the result of poppler_document_get_page is not looked at.
NeedsScanAnyPage(f, d, pn) == d.lists[pn] = {}

NeedsScan(f, d, pn) == Loadable(f, pn) /\ d.lists[pn] = {}

\* Mutant: the new annotations are not registered in the key table.
GetForPagesUnregistered(f, d, S) ==
  LET todo == {pn \in S : NeedsScan(f, d, pn)}
  IN  [d EXCEPT !.lists = [pn \in Page |-> IF pn \in todo THEN Scan(d, pn) ELSE @[pn]]]

\* annoation_get_for_page for each page of S: an empty list is built anew.
GetForPages(f, d, S) ==
  LET todo == {pn \in S : NeedsScan(f, d, pn)}
  IN  [d EXCEPT !.lists = [pn \in Page |-> IF pn \in todo THEN Scan(d, pn) ELSE @[pn]],
                !.keys  = Insert(@, UNION {Scan(d, pn) : pn \in todo})]

Answer(f, d, r) ==
  /\ running
  /\ docs' = [docs EXCEPT ![f] = d]
  /\ reply' = r
  /\ UNCHANGED running

-----------------------------------------------------------------------------
(* Lines that are not executed.                                            *)

\* An empty or cut off line is skipped and gets no answer.
SkipLine == running /\ reply' = Answered("none") /\ UNCHANGED <<running, docs>>

\* An unknown command, or a wrong number of arguments.
RejectLine == running /\ reply' = Answered("err") /\ UNCHANGED <<running, docs>>

\* Arguments are parsed in order: the document, which is first, has been
\* opened (if it can be) when a later argument turns out not to parse.
RejectArguments(f) == Answer(f, ArgDoc(f), Answered("err"))

-----------------------------------------------------------------------------
(* Commands on documents.                                                  *)

Open(f, passwd) ==
  LET d == DocumentOpen(f, passwd)
  IN  Answer(f, d, Answered(IF d = Closed THEN "err" ELSE "ok"))

\* Answers 1 or 0, both without an error.
Close(f) == Answer(f, Closed, Answered("ok"))

\* quit closes every document (cmd_closeall) and exits, as does the end of the
\* input.
Quit ==
  /\ running
  /\ running' = FALSE
  /\ docs' = [f \in File |-> Closed]
  /\ reply' = Answered("ok")

\* A client starts the server again: main() begins with no document.
Start ==
  /\ ~running
  /\ running' = TRUE
  /\ reply' = Answered("none")
  /\ UNCHANGED docs

\* Commands about the whole document that only read it.
DocumentQuery(f) ==
  /\ ArgDoc(f) # Closed
  /\ Answer(f, ArgDoc(f), Answered("ok"))

\* Commands about one page that only read it; a page that is not there is
\* an error.
PageQuery(f, pn) ==
  /\ ArgDoc(f) # Closed
  /\ Answer(f, ArgDoc(f), Answered(IF Loadable(f, pn) THEN "ok" ELSE "err"))

\* save and renderpage write a new temporary file, which may fail; the
\* document's own file is not touched.
Save(f) ==
  /\ ArgDoc(f) # Closed
  /\ \E status \in {"ok", "err"} : Answer(f, ArgDoc(f), Answered(status))

RenderPage(f, pn) ==
  /\ ArgDoc(f) # Closed
  /\ \E status \in {"ok", "err"} :
       /\ Loadable(f, pn) \/ status = "err"
       /\ Answer(f, ArgDoc(f), Answered(status))

\* The pairs are parsed into a copy of the options, committed when all parsed.
SetOptions(f, opts) ==
  LET d == ArgDoc(f)
      valid == ~opts.odd /\ \A o \in DOMAIN opts.pairs : o \in Option /\ opts.pairs[o] # Bad
      commit == [o \in Option |-> IF o \in DOMAIN opts.pairs THEN opts.pairs[o] ELSE d.options[o]]
  IN  /\ d # Closed
      /\ IF valid THEN Answer(f, [d EXCEPT !.options = commit], Answered("ok"))
                  ELSE Answer(f, d, Answered("err"))

-----------------------------------------------------------------------------
(* Commands on annotations.                                                *)

\* Mutant: 0 is not taken for the last page.
LastPageClamped(last) == IF last > NPages THEN NPages ELSE last

LastPage(last) == IF last = 0 \/ last > NPages THEN NPages ELSE last

\* The page range is clamped to the document: none is out of range.
GetAnnots(f, first, last) ==
  LET d == ArgDoc(f)
      range == {pn \in Page : first <= pn /\ pn <= LastPage(last)}
      g == GetForPages(f, d, range)
  IN  /\ d # Closed
      /\ Answer(f, g, [cmd |-> "getannots", file |-> f, pages |-> <<first, last>>, status |-> "ok",
                       annots |-> UNION {g.lists[pn] : pn \in {p \in range : Loadable(f, p)}}])

\* A key a client sends: one of the table, or one that is not in it, be it of a
\* deleted annotation, of a page not listed yet or invented.
NoKey == <<0, 0>>
KeyArg(f) == {NoKey} \cup (IF ArgDoc(f) = Closed THEN {} ELSE {e.key : e \in ArgDoc(f).keys})

\* The key must be in the table now, the page's list is not built for it.
GetAnnot(f, key) ==
  LET d == ArgDoc(f)
      known == \E e \in d.keys : e.key = key /\ Loadable(f, PageOf(d, e.annot))
  IN  /\ d # Closed
      /\ Answer(f, d, Answered(IF known THEN "ok" ELSE "err"))

\* getattachment-from-annot: only a file annotation has one, and poppler may not
\* get it.
GetAttachment(f, key) ==
  LET d == ArgDoc(f)
      file == \E e \in d.keys : e.key = key /\ AnnotType[e.annot] = "file"
  IN  /\ d # Closed
      /\ \E status \in {"ok", "err"} :
           /\ file \/ status = "err"
           /\ Answer(f, d, Answered(status))

\* annotation_new: text annotations take no regions, the others at least one.
AnnotationNew(type, regions) ==
  \/ type = "text" /\ regions = "none"
  \/ type = "markup" /\ regions = "good"

\* Mutant: the length of the list, free or not.
NextIndexLength(d, pn, i) == i = Cardinality(d.lists[pn])

\* The first free number, from the length of the page's list upward.
NextIndex(d, pn, i) ==
  LET taken(j) == \E e \in d.keys : e.key = <<pn, j>>
  IN  /\ i >= Cardinality(d.lists[pn])
      /\ ~taken(i)
      /\ \A j \in Cardinality(d.lists[pn])..(i - 1) : taken(j)

AddAnnot(f, pn, type, regions) ==
  LET d == ArgDoc(f)
      g == GetForPages(f, d, {pn})
  IN  /\ d # Closed
      /\ IF Loadable(f, pn) /\ AnnotationNew(type, regions)
         THEN \E a \in Annot, i \in KeyIndex :
                /\ AnnotType[a] = type
                /\ \A p \in Page : a \notin InPdf(d, p) /\ a \notin ToSet(OnDisk[f][p])
                /\ NextIndex(g, pn, i)
                /\ LET e == [annot |-> a, key |-> <<pn, i>>]
                   IN  Answer(f, [g EXCEPT !.pdf[pn] = Append(@, a),
                                           !.lists[pn] = @ \cup {e},
                                           !.keys = Insert(@, {e}),
                                           !.props[a] = [n \in PropName |-> DefaultVal]],
                              Answered("ok"))
         ELSE Answer(f, d, Answered("err"))

\* Mutant: the annotation stays in poppler's document.
WithoutNothing(annots, a) == annots

\* poppler_page_remove_annot
Without(annots, a) == RemoveAt(annots, CHOOSE i \in DOMAIN annots : annots[i] = a)

\* Mutant: the list of the page is dropped, to be built anew when needed.
DelAnnotDropsList(f, key) ==
  LET d == ArgDoc(f)
  IN  /\ d # Closed
      /\ \E e \in d.keys :
           LET pn == PageOf(d, e.annot)
           IN  /\ e.key = key
               /\ Loadable(f, pn)
               /\ Answer(f, [d EXCEPT !.pdf[pn] = Without(@, e.annot), !.lists[pn] = {},
                                      !.keys = @ \ {e}], Answered("ok"))

\* When the page cannot be had, the annotation_t is freed where it is.
DelAnnot(f, key) ==
  LET d == ArgDoc(f)
  IN  /\ d # Closed
      /\ \/ /\ \A e \in d.keys : e.key # key
            /\ Answer(f, d, Answered("err"))
         \/ \E e \in d.keys :
              LET pn == PageOf(d, e.annot)
              IN  /\ e.key = key
                  /\ IF Loadable(f, pn)
                     THEN Answer(f, [d EXCEPT !.pdf[pn] = Without(@, e.annot),
                                              !.lists[pn] = @ \ {e},
                                              !.keys = @ \ {e}],
                                 Answered("ok"))
                     ELSE Answer(f, [d EXCEPT !.dangling = @ \cup {e}], Answered("err"))

\* Mutant: the values are left to the second loop to parse.
EditValidateTypes(a, edits) ==
  /\ ~edits.odd
  /\ \A n \in DOMAIN edits.pairs : AnnotType[a] \in Modifiable[n]

\* annotation_edit_validate: every pair is checked before any is applied.
EditValidate(a, edits) ==
  /\ ~edits.odd
  /\ \A n \in DOMAIN edits.pairs : AnnotType[a] \in Modifiable[n] /\ edits.pairs[n] # Bad

\* The pairs are parsed again as they are applied; one that does not parse
\* ends the command with an error.
EditAnnot(f, key, edits) ==
  LET d == ArgDoc(f)
      parsed == {n \in DOMAIN edits.pairs : edits.pairs[n] # Bad}
      applied(a) == [n \in PropName |-> IF n \in parsed THEN edits.pairs[n] ELSE d.props[a][n]]
  IN  /\ d # Closed
      /\ \/ /\ \A e \in d.keys : e.key # key
            /\ Answer(f, d, Answered("err"))
         \/ \E e \in d.keys :
              /\ e.key = key
              /\ IF EditValidate(e.annot, edits) /\ Loadable(f, PageOf(d, e.annot))
                 THEN Answer(f, [d EXCEPT !.props[e.annot] = applied(e.annot)],
                             Answered(IF parsed = DOMAIN edits.pairs THEN "ok" ELSE "err"))
                 ELSE Answer(f, d, Answered("err"))

-----------------------------------------------------------------------------
Init ==
  /\ running = TRUE
  /\ docs = [f \in File |-> Closed]
  /\ reply = Answered("none")

AnnotCommand(f) ==
  \/ \E first, last \in PageArg : GetAnnots(f, first, last)
  \/ \E pn \in PageArg, type \in AnnotKind, regions \in {"none", "good", "bad"} :
       AddAnnot(f, pn, type, regions)
  \/ \E key \in KeyArg(f) : GetAnnot(f, key) \/ GetAttachment(f, key) \/ DelAnnot(f, key)
  \/ \E key \in KeyArg(f), edits \in ArgList(PropName) : EditAnnot(f, key, edits)

DocCommand(f) ==
  \/ RejectArguments(f)
  \/ \E passwd \in {"none", "right", "wrong"} : Open(f, passwd)
  \/ Close(f)
  \/ DocumentQuery(f)
  \/ \E pn \in PageArg : PageQuery(f, pn) \/ RenderPage(f, pn)
  \/ Save(f)
  \/ \E opts \in ArgList(OptName) : SetOptions(f, opts)

Next ==
  \/ SkipLine \/ RejectLine \/ Quit \/ Start
  \/ \E f \in File : AnnotCommand(f) \/ DocCommand(f)

Spec == Init /\ [][Next]_vars

-----------------------------------------------------------------------------
(* What the server has to keep true.                                       *)

OpenDocs == {f \in File : docs[f] # Closed}

\* The key table holds exactly the annotations of the page lists, and a list
\* only annotations keyed by its own page: an annotation added or deleted
\* must enter or leave both (cmd_addannot, cmd_delannot).
KeysMatchLists ==
  \A f \in OpenDocs :
    /\ docs[f].keys = UNION {docs[f].lists[pn] : pn \in Page}
    /\ \A pn \in Page : \A e \in docs[f].lists[pn] : e.key[1] = pn

\* In the document no two annotations have one key and no annotation two keys.
KeysUnique ==
  \A f \in OpenDocs : \A e1, e2 \in docs[f].keys :
    (e1.key = e2.key \/ e1.annot = e2.annot) => e1 = e2

\* A list that was built shows exactly poppler's annotations of the page, after
\* any sequence of additions and deletions, though poppler is asked only once.
ListsMatchPdf ==
  \A f \in OpenDocs : \A pn \in Page :
    docs[f].lists[pn] # {} => {e.annot : e \in docs[f].lists[pn]} = InPdf(docs[f], pn)

\* The assertion of annoation_get_for_page: a list that is empty because all
\* annotations of the page were deleted is built anew without meeting a key
\* that is still in the table.
ScanNeverClashes ==
  \A f \in OpenDocs : \A pn \in Page :
    NeedsScan(f, docs[f], pn) =>
      \A n \in Scan(docs[f], pn) : \A e \in docs[f].keys : e.key # n.key

\* The error path of cmd_delannot frees the annotation_t without taking it out
\* of the table and the list: it must never be taken for a registered one.
NoDangling == \A f \in OpenDocs : docs[f].dangling = {}

\* getannots, asked for pages the document has (0 as last page means all),
\* answers with every annotation poppler has on those that can be loaded, each
\* under the key the server accepts.  Of pages the document does not have it
\* says nothing: the comment above cmd_getannots makes them an error, the code
\* clamps them.
ListingComplete ==
  reply.cmd = "getannots" /\ reply.pages[1] \in Page /\ reply.pages[2] \in Page \cup {0} =>
    LET f == reply.file
        first == reply.pages[1]
        last == reply.pages[2]
        shown == {pn \in Page : first <= pn /\ (last = 0 \/ pn <= last) /\ Loadable(f, pn)}
    IN  /\ {e.annot : e \in reply.annots} = UNION {InPdf(docs[f], pn) : pn \in shown}
        /\ reply.annots \subseteq docs[f].keys

\* A command answered with an error changed no open document: edits and
\* options are all or nothing, and a failed creation leaves no trace.
ErrorChangesNothing ==
  [][reply'.status = "err" => \A f \in OpenDocs : docs'[f] = docs[f]]_vars

\* As long as a key is in the table it stands for one annotation, and the
\* annotation keeps it: what a client learned of an annotation stays true
\* until the annotation is deleted or the document closed.
KeyNeverRebound ==
  [][\A f \in OpenDocs : docs'[f] # Closed =>
       \A e \in docs[f].keys, n \in docs'[f].keys :
         (e.key = n.key \/ e.annot = n.annot) => e = n]_vars

\* The inductive invariant of one open document.  Two conjuncts are not among
\* the properties above: poppler has every annotation once (it decides that no
\* annotation gets two keys), and only pages that can be loaded have a list (so
\* cmd_delannot gets the page of every annotation it finds in the table).
DocumentInv(f, d) ==
  /\ d \in Document
  /\ d.keys = UNION {d.lists[pn] : pn \in Page}
  /\ \A pn \in Page : \A e \in d.lists[pn] : e.key[1] = pn
  /\ \A e1, e2 \in d.keys : (e1.key = e2.key \/ e1.annot = e2.annot) => e1 = e2
  /\ \A pn \in Page : d.lists[pn] # {} => {e.annot : e \in d.lists[pn]} = InPdf(d, pn)
  /\ d.dangling = {}
  /\ \A pn \in Page : IsInjective(d.pdf[pn])
  /\ \A p, q \in Page : p # q => InPdf(d, p) \cap InPdf(d, q) = {}
  /\ \A pn \in Page : d.lists[pn] # {} => Loadable(f, pn)

IInv ==
  /\ running \in BOOLEAN
  /\ reply \in Reply
  /\ docs \in [File -> Document \cup {Closed}]
  /\ \A f \in OpenDocs : DocumentInv(f, docs[f])

-----------------------------------------------------------------------------
(* The server implements the annotation store of AnnotStore: the lists, the *)
(* lazy reading of pages and the numbering of keys are its own business.    *)

Store == INSTANCE AnnotStore WITH
  Stored <- [f \in File |-> UNION {ToSet(OnDisk[f][pn]) : pn \in Page}],
  store  <- [f \in File |->
               IF docs[f] = Closed THEN Closed
               ELSE [annots |-> UNION {InPdf(docs[f], pn) : pn \in Page},
                     names  |-> docs[f].keys]]

\* NULL is no document.
ASSUME ClosedAssumption == Closed \notin Store!Content

\* Every behaviour of the server is one of the annotation store: a client that
\* keeps the keys it was given addresses the annotations it means.
ImplementsStore == Store!Spec

=============================================================================
