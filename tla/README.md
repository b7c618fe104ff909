# Verification of the client and server packages of this Emacs configuration

The repository is an `~/.emacs.d`: a short configuration (`init.el`, `latex.el`,
`pdf-continuous-scroll-mode.el`), two packages kept as copies in `lisp/`, themes, snippets and
about 75 installed packages in `elpa/`.  Most of it is third-party user interface code.  Two
packages consist of an Emacs client and a server process of their own, with state on both sides
that must agree, asynchronous messages, timers and restarts:

* **pdf-tools** (`elpa/pdf-tools-20200512.1524/`), whose C server `epdfinfo` holds PDF documents
  and their annotations while Emacs renders, caches, edits, saves and reverts them;
* **irony** (`elpa/irony-20200130.849/`), whose C++ server holds clang translation units.

The specifications here are about these two. Below, `E` is `build/server/epdfinfo.c`, and file names
without a directory are files of the package the sentence is about; those of irony-server are in
`server/src/`.

## 1. Inventory

| part | state | operations | what makes it correct |
|---|---|---|---|
| `epdfinfo`, documents and annotations (E) | table of open documents; of each the PDF in memory, lists of annotations per page read on demand, table from keys to annotations, render options | `open close closeall getannots getannot addannot delannot editannot setoptions save renderpage quit` and read-only queries | lists, key table and poppler agree; a key means one annotation; failed commands change nothing |
| `epdfinfo`, wire format (E, `pdf-info.el`) | none | split and unescape requests, print and parse responses | what is sent is what is read; one response per request |
| `pdf-info.el`, queue | the tq process queue, the process, `pdf-info-restart-process-p` | synchronous and asynchronous query, filter, assert-running/restart, quit, kill | every callback gets the answer to its own query, once and in order; a wait ends |
| `pdf-cache.el` | LRU list of images, table of data per page, pages to prefetch, timers | look up, render/ask and store, clear by page or all, prefetch | nothing stale is shown; the limit holds |
| `pdf-annot.el` | delayed modifications, modified flag | put, delete, add, drag, atomic modifications, hooks | every modification reaches the caches |
| `pdf-view.el` | buffer, server file name, color modes | save, revert, close, midnight/printer mode, redisplay | a clean buffer shows its file, in the colors of its mode |
| `pdf-occur.el` | batches of a search, pages left | start, abort, consume, finish | a search ends and counts every page once |
| `pdf-isearch`, `-links`, `-outline`, `-sync`, `-history`, `-virtual`, `-misc` | small | user interface | page numbers map to the right document (`pdf-virtual`) |
| irony client queue (`irony-iotask.el`) | a queue of tasks for each process, the process buffer and its marks | schedule, start, chain, filter, sentinel, abort, `irony-iotask-run` | one task at a time; each callback is called once, in order, with its own reply |
| irony client buffers (`irony.el`, `irony-completion.el`, `irony-diagnostics.el`) | the server process, the unsaved buffers it was told of, temporary files | start and kill the server, parse, complete, set and reset unsaved | the server parses what the user sees; commands and replies are read as they were meant |
| irony-server: commands (`main.cpp`, `Command.cpp`, `support/CommandLineParser.cpp`) | input, the temporary file | options, read a line, split, parse and execute it, exit | arguments arrive whole; every way out cleans up |
| irony-server: `Irony.cpp`, `TUManager.cpp` | active translation unit and completion results, units by file and options, unsaved texts | `parse complete set-unsaved reset-unsaved diagnostics get-type candidates ...` | no use of what was disposed of; answers are about the texts and options in force |
| irony-server: `CompDBCache.cpp` | one database, its file name and time | `get-compile-options` | a stale database is read again |
| `pdf-continuous-scroll-mode.el` | status of two windows | scroll steps, open, close | the two windows show neighbouring pages |
| `init.el`, `latex.el` | settings | hooks | `latex.el:17` makes the sentinel of TeX revert the PDF |

How they interact.  Lisp code calls `pdf-info-*`, which puts a query into the queue, sends a line
and, unless a callback was given, waits in `accept-process-output`.  While it waits, the process
filter calls callbacks of other queries, timers run (prefetching, lazily rendered annotations,
auto-revert), sentinels of other processes run (TeX), and redisplay asks for page images: all of
these may query the server again, or find it dead and start a new one, below a function that read
some state before the wait and uses it afterwards.  The server is single threaded and answers in
order.  Modifications travel through `pdf-annot-modified-functions` and
`pdf-info-close-document-hook` to the caches.  That is where the hard behaviour is: nesting, stale
reads, restarts, answers that arrive late.

irony-mode asks through `irony-iotask`: a request is a chain of tasks, first one for every buffer
whose unsaved text has to be set or taken back, then the command itself.  The queue sends the next
command when the reply to the last one was read, so callbacks, timers that reparse, edits and saves
happen between any two tasks of a chain, and what was decided when the chain was made is carried out
later.  irony-server is single threaded.  It keeps what is expensive (translation units, completion
results, a compilation database) from one command to the next, and it answers from what it keeps,
while the files it read are written by others.  PROJECT.json lists it line by line under `hazards`.

## 2. Modules

| module | models | how |
|---|---|---|
| `EpdfServer` | E and `epdfinfo.h` | One action per command (a command is executed to its end before the next is read, so it is one step) or per group of commands that do the same to the state. `docs[f]` is the `document_t` of `f`; `lists` the array `annotations.pages`, `keys` the hash table `annotations.keys`, `pdf` what poppler holds, `dangling` annotations that were freed and can still be reached. `reply` is the answer. |
| `AnnotStore` | the promise of the annotation commands | A document has a set of annotations, some of which the client has names for. No lists, no lazy reading, no numbering. |
| `EpdfServerMC` | an instance | A file with annotations, an empty page and a page poppler cannot load, one with a password, one that is missing; which states of two documents are followed further. |
| `EpdfServerProofs` | proofs about `EpdfServer` | See section 5. |
| `PdfInfoQueue` | `pdf-info.el` 194-395 and 1327-1362, with `tq.el` and the processes of Emacs external | `frames` is the Lisp stack: commands, timers and callbacks, each running or waiting in a query or in `pdf-info-quit`. `pending[s]` is the tq-queue made for the server process `s`, `stdin` and `stdout` are what is in the pipes. |
| `RequestReply` | the promise of the queue | A line of queries answered from its head, that can be given up with its server. |
| `PdfInfoQueueMC` | instances | Names of the queries. |
| `PdfInfoQueueProofs` | proofs about `PdfInfoQueue` | See section 5. |
| `PdfCache` | `pdf-cache.el`, and of `pdf-annot.el`, `pdf-view.el` and `pdf-info-close` what changes documents and caches | The server as one document behind two pipes, answering in order (what `PdfInfoQueue` shows); `frames` the waiting Lisp code; images, data, delayed modifications, modified flag, prefetching. |
| `PdfCacheMC` | instances | Two pages. |
| `PdfCacheProofs` | proofs about `PdfCache` | See section 5. |
| `IronyServer` | `main.cpp`, class `Irony`, `TUManager`, `CompDBCache`, and the effects of `CommandParser::parse` | One action per command, or per group of commands that only read. A pointer to a translation unit is a cell of a heap (`tuManager.live`), so that it may dangle or be lost; a unit is its file, its options and the texts libclang saw. `get-compile-options` is two steps, `GetCompileOptions` (look at the time of the file) and `LoadDatabase`, since others may write in between. libclang may fail at every call. |
| `IronyApi` | the promise of `Irony.h` | Unsaved texts stand for files; one parse or one completion is current, about the texts and options of its command. No handles, no caches. |
| `IronyWire` | `irony--quote-strings` and the commands of `irony.el`; `unescapeCommandLine`, `CommandParser::parse`, options of `main` | Operators on sequences of characters: from a command to a line and back. Numbers have the width of `unsigned` and `long` (`UIntMax`, `LongMax`). |
| `IronyReplies` | all replies of `Irony.cpp`, `support::quoted`, the reading of them in `irony.el` | Replies are sequences of tokens, printed to characters and read again. |
| `IronyCandidates` | `Irony::candidates`, prefix matching, `irony-completion--post-complete-yas-snippet`, the annotation | Operators on completion strings, chunk by chunk. Sizes count bytes, as `std::string::size` does; Emacs takes substrings by characters. |
| `IronyExchange` | irony-server with what passes between it and irony-mode | States what the lines, replies and candidates of the three modules above have to do, and what Irony.h says of replies (`ErrorsRead`), which the code does not keep. |
| `IronyExchangeProofs` | proofs about matching a prefix, and about writing and reading a line | See section 5. |
| `IronyServerMC` | an instance | The commands of the model are those that `IronyWire` parses from the lines irony-mode writes and from others that are valid, incomplete or wrong. |
| `IronyServerProofs` | proofs about `IronyServer` | See section 5. |
| `IronyClient` | `irony-iotask.el` and the server process and unsaved buffers of `irony.el`, with a server that answers in order | `emacs.queue[p]` is `:ectx-q` of the process `p`, `emacs.unsaved[p]` the entry of the buffer in `:unsaved-buffers`; `emacs.output` the one process buffer. Functions of the queue are operators from a state of Emacs to the next, since starting, finishing and calling back call each other in one turn; what a function still has to call is a sequence of calls, carried out one by one (below). A reply comes in two parts. |
| `IronyClientMC` | an instance | Three requests on one server, or two on two. |
| `IronyClientQueue`, `IronyClientProofs` | proofs about `IronyClient` | The inductive invariant and what one call or one operation does to it; what the handlers do to it, and the theorems. See section 5. |
| `InductionLemmas` | induction over the natural numbers | Used by the proofs; models nothing. |

Conventions.  A definition keeps the name of the C or Lisp function where there is one.  Operators
whose comment starts with "Mutant" or "Mutated" are deliberate errors, none is used by the specifications;
PROJECT.json says which definition each one replaces to show that a property can fail.

Calls in `IronyClient`.  `irony-iotask--start-next`, `--check-result`, `--abort-all` and the callbacks
call each other, to any depth.  A state of Emacs goes together with the sequence of calls that remain
to be made (`calls`): `MakeCall` makes the first one, which may put others before the rest, and
`Returned` makes calls until none is left, by a recursive function on their number, bounded by
`MaxCalls == 4 * MaxRequest + 2`.  The bound is not an assumption: `AllReturned` in
`IronyClientQueue` proves that no call remains after so many, so that nothing is cut short.

What was abstracted, and why it does not matter to the properties:

* Arguments that do not parse are one value `Bad`.  Lists of assignments are partial functions (a
  client that names a property twice is left out) with a flag for a missing last value.  The order
  of a page list is left out: it is a set.  A table that does not exist and one that is empty cannot
  be told apart by any command.
* A poppler annotation keeps its identity when a file is read again; properties live and die with
  the open document.
* An answer in `PdfInfoQueue` is the name of its query, so "the right answer" is equality.
* In `IronyServer` a text, a list of options and a build directory are values; an answer that only
  reads is not state (what it prints is in `IronyReplies`).  The clock of file times is in seconds.
* In `IronyClient` a text is the tick of the buffer that had it, and there is one source buffer:
  tasks of several are one chain that is built and run in the same way.
* In `PdfCache` what a page looks like is a version number, given by `clock`.  A page is shown at
  one width.  `Read` covers every reader: a command, or redisplay and timers inside another wait.

## 3. Runs

| run | specification | bounds | shows |
|---|---|---|---|
| `annot_server` | `EpdfServer`, `Spec` | an ordinary file of three pages (an attachment and a highlight, nothing, a page poppler cannot load), one with a password and a note, a missing one; two new annotations, keys 0..5; two properties of text notes, one option, two values and `Bad` | The inductive invariant and its consequences, atomic errors, keys that keep their meaning, and that the server implements `AnnotStore` |
| `queue_order` | `PdfInfoQueue`, `Spec` | four queries, one of them quit; two servers; two nested commands or timers plus callbacks; restart "ask" | The inductive invariant of the proofs; the tq-queue stays in step with the pipes, every answer reaches its own callback, and the queue implements `RequestReply` |
| `queue_ends` | `FairSpec` | two queries and quit, two servers, restart nil | Every wait ends |
| `queue_restart_hangs` | `FairSpec`, violation | three queries, restart t | With restarting, a wait may last forever (finding) |
| `queue_quit_drops` | `Spec`, violation | two queries and quit, a server that does not crash | `pdf-info-quit` may return before the answers are read (finding) |
| `queue_wrong_callback` | `Spec`, violation | a buffer with a line "." becomes current when the tq buffer is killed | The filter hands foreign text to a callback (finding) |
| `cache_fresh` | `PdfCache`, `Spec` | two pages, limit 2, two versions, two nested frames, one prefetch chain, no revert inside a wait | Nothing stale is cached, except between a modification and its hooks; a clean buffer shows its file |
| `cache_stale` | `Spec`, violation | as above, a revert may come inside a wait | An interrupted read stores old data after the revert cleared the cache (finding) |
| `cache_colors` | `Spec`, violation | as `cache_fresh` | An image rendered between close and setoptions stays, in the wrong colors (finding) |
| `irony_server` | `IronyServer`, `Spec`, with `IronyWire`, `IronyReplies`, `IronyCandidates` | a source and the temporary file, two texts, two lists of options, three cells of the heap; two databases with two versions, three seconds; words of up to three characters with every character that is special, numbers around the limits | Nothing of libclang dangles or leaks, answers and databases are current, the server implements `IronyApi`, commands and replies are read back, candidates and snippets are what libclang described |
| `irony_errors_unread` | as `irony_server`, violation | as `irony_server` | Emacs cannot read the errors of `set-unsaved` and `reset-unsaved` (finding) |
| `irony_client` | `IronyClient`, `Spec` (with fairness) | three requests on one server or two on two, two ticks, one killed buffer, one callback that asks again | Requests end once, in order, with their own and a fresh answer; temporary files are deleted; every callback is called |

Why the bounds are enough.  `annot_server`: pages interact only through the key table, whose keys
carry the page; the clash the numbering has to avoid needs a page with two annotations, one deleted
and one added, and a page read a second time needs all of its annotations deleted, and both happen
with two annotations in the file and two new ones.  Key numbers above 5 are never reached, so
`KeyIndex` cuts nothing off, and the proofs do not use it.  A list of two assignments is the shortest
with an error after a success.  Documents share nothing but the table they are in, so `Bounds` follows
states with one open document only, edits notes and options in the one with the password and adds annotations
to the other; the first step beyond is still checked.  The theorems know no such bounds.
`queue_order`: a wrong pairing shows with two answers in flight; the third query
is made by a callback between them, and the second server is what a restart needs.  `cache_fresh`:
every cached value is either current or older than one modification of its page, so two versions
tell all that matters; two frames are a modification with a read inside, or a read inside a drag,
and prefetched answers arrive beside them.  The limit of two pages is reached with two images of
one page (an old chain and a read).  `irony_server`: the maps of `TUManager` go by file, so two files
show what one does to the other, and three cells leave one free when both files have a unit; two
lists of options are a change and a change back.  Commands on sources and on databases share no
variable but the phase, and `OnePartMoves` explores runs with the one or the other.  Three seconds
are a write before, in and after the second of the cached one.  `irony_client`: with three requests
on one server one runs, one waits, and one is made by a callback; an old server and a new one need
two servers and a request on each.  Two ticks are the text told and the text after it: a request
that sees the one and should see the other is stale.  `InBounds` does not look behind the state in
which outputs were mixed, where all but the order of requests is lost, as section 6 says.  The counters that would grow without end have their bounds as
constants: `MaxServers`, `MaxFrames`, `MaxVersion`, `MaxChains`, `MaxClock`, `MaxRequest`, `MaxProcess`,
`MaxTick`, `MaxKilled`.

Deadlock is checked in all runs but those of irony: irony-server ends, and the client rests
when all requests are answered and the bounds allow no other.

## 4. Fairness

`PdfInfoQueue` and `IronyClient` have liveness.  In `PdfInfoQueue`, `FairSpec` assumes weak fairness of the server (it executes what
it reads), of Emacs noticing that a process ended, and of Lisp code coming to its end; and strong
fairness of the filter and of the loops in `pdf-info-query` and `pdf-info-quit`, because
`accept-process-output` attends to its sources in turn: a timer that runs again and again disables
them for a while and cannot starve them.  Nothing is assumed of users, timers or crashes.
`queue_ends` needs all of it and holds with `pdf-info-restart-process-p` nil; `queue_restart_hangs`
refutes the same property under the same fairness when a nested restart is possible, so the hang is
no artefact of a scheduler that stops.

In `IronyClient`, `Fairness` is weak fairness, for each process, of Emacs reading its output
(`Reads`), noticing its end and running its sentinel (`Closes`), which `accept-process-output` in the
loop of `irony-iotask-run` and the command loop do, and of the server, which executes what it reads
and prints the rest of a reply.  `Reads` and `Closes` say of `ProcessFilter` and `ProcessSentinel`
what they do to the server only: no other action does that, so the assumption is the same.  Nothing
is assumed of users, crashes or requests.  `EventuallyCalled` excuses a request whose buffer was
killed (the callback is dropped on purpose, and `irony-iotask-run` waits for it until C-g) and
outputs that were mixed.

## 5. Proofs

`EpdfServerProofs` proves, for any files, pages, annotations, names, values and numbers of them,
from `ConstantsAssumption` and `OnDiskAssumption` (a file holds each annotation once) alone:

* `Invariance`: `Spec => []IInv`, and with it `ListingIsComplete`;
* from it `TypeCorrect`, `TablesAgree`, `KeysAreUnique`, `ListsAreCurrent`, `AssertionHolds`,
  `NothingDangles`, the invariants of `annot_server`, one theorem each;
* the action properties `ErrorsAreAtomic` and `KeysKeepTheirMeaning`;
* `ImplementsAnnotStore`: the initial states map to initial states of `AnnotStore` and every step to
  a step or a stutter of it (`ImplementsStore`).  This theorem also uses `ClosedAssumption`.

The argument.  The properties are not inductive by themselves.  That a list shows what poppler has
(`ListsMatchPdf`) survives a deletion only if poppler holds the annotation once, on one page; that
`delannot` never takes its error path for a registered annotation (`NoDangling`) needs that an
annotation in the table lies on a page that can be loaded.  `DocumentInv` is the conjunction of the
properties with these two facts, for one document.  Each command is shown to take good documents to
good documents: `ScanProperties`, `GetForPagesInv`, `AddedInv`, `RemovedInv`, `OptionsInv`,
`PropsInv` say so of the operators, `DocCommandStep`, `GetAnnotsStep`, `AddAnnotStep`,
`DelAnnotStep`, `EditAnnotStep` of the actions, and all of them end in one predicate on steps
(`GoodStep`) from which invariance, atomicity and refinement follow.  `ScanNeverClashes` follows from
`IInv`: keys of a page sit in its list only, so a page that is read again has none in the table.

`PdfInfoQueueProofs` proves, for any queries, servers, crashes and depth of nesting, from
`QueueAssumption` alone:

* `Invariance`: `Spec => []IInv`; from it `TypeCorrect` and `StaysInStep`;
* `AnswersAreRight` and `QueueImplementsService` (the refinement of `RequestReply`), with the
  hypothesis `~ForeignText`.  The hypothesis is needed: `queue_wrong_callback` refutes `RightAnswer`
  without it.

The argument.  `QueueInStep` alone is not inductive.  It has to be known that only a process that is
in the tq runs (else sending and executing would touch two different queues), that a tq has a
server, that a callback's frame names the server of its filter (so that `ReturnElsewhere` spoils a
queue that was closed and never the one in use), and that a query not yet asked is in no queue and
has no answer (`AskedOnce`, which makes a query of the model an `Ask` of `RequestReply`).  Lemmas on
sequences say how appending, executing and reading keep one sequence a prefix of another
(`PrefixAppend`, `MoveHead`, `PrefixTail`, `PrefixOfConcat`); there is one lemma per action or per
group of actions with one effect (`OnlyFrames`, `GivenUp`, `StartServerInv`, ...).  `FilterReads` is
the heart: what is read first is the answer to the head of the queue.  `StepMapsToStep` says which
step of `RequestReply` each action is.

`IronyServerProofs` proves, for any files, options, texts, directories, commands, ways to call the
program and size of the heap, from `ServerAssumption` alone:

* `Invariance`: `Spec => []IInv`; from it `TypeCorrect`, `HandlesSafe`, `AnswersAreCurrent` and
  `DatabaseCurrent`, the invariants of `irony_server` that are about states;
* `Implements`: the server implements `IronyApi`.

The argument.  `HandlesOwned` and `AnswersCurrent` need each other: that completion results have the
options the unit is cached with needs that a unit in the map was made for its file and with the
options in `flagsPerFileCache_` (`Held`).  Between `tuRef` and the parse the maps are in a state no
command ends in, so `Managed` is stated for any value of `tuManager` and shown of each of its
operators (`TuRefManaged`, `ClangParseManaged`, `ClangReparseManaged`, `TuManagerParseManaged`,
`GetOrCreateTuManaged`).  They also say that the unit that results for the file is null or has the
options asked for, and that a reparsed unit saw the texts of now.  `DbCurrent` needs an order in
time: what is cached, or was looked up before the load, is no later than the last write of the file
(`Keyed`, `LookedUp`), and a file written again in the cached second is marked so.  Sources and
databases are disjoint, and each has its lemmas, one for each action (`ParseStep`, `CompleteStep`,
`TextStep`, `SaveFileStep`; `LookupStep`, `LoadStep`, `WriteStep`, `RemoveStep`, `TickStep`), which
`SourcesStep` and `DatabasesStep` put together.

`PdfCacheProofs` proves, for any pages, versions, limits, prefetches and depth of nested Lisp code,
from the assumptions of `PdfCache` on its constants:

* `Safe`: `Spec => []SInv`, however reverts nest; from it `TypeCorrect` and `CacheBounded`
  (`ImagesBounded`);
* `FreshInvariant`: `Spec => []IInv`, with the hypothesis `~RevertNests`; from it `PagesStayCurrent` and
  `UnmodifiedStaysFile`.  The last is about files the server reads itself: for a compressed or remote
  document it reads a local copy, which is not modelled (section 6).

The hypothesis says that no sentinel or timer reverts the buffer while other Lisp code waits for the
server.  It is needed: `cache_stale` shows how such a revert leaves old data in the cache.

The argument.  `SInv` says what the pipes hold: the requests whose answers were not read, and behind
them those not served, are one line (`Line`).  Each request in it is a prefetch or belongs to code that waits, and
code that waits deeper asked later (`LineOrderly`), so that whoever gets an answer is the innermost, and
the answer fits his question (`RepliesOrderly`).  Without it not even types are invariant, since an
answer to an edit would be stored as an image.  `FreshInv` adds what is stale when.  A cached image is
current, or an edit of its page was served and Emacs has not run the hooks (`EditServed`).  A
prefetched image that is still in the pipe may be stale too, but then the news that will make Emacs
forget it are behind it in the pipe (`NewsBehind`): it is stored, and forgotten.  Code that waits has no
such excuse (`AnswersFresh`); that it needs none is where `FramesNested` enters: inside a wait only
reads run, and edits inside a drag, so that no edit is served between a question of waiting code and its
answer.  `ClosedForgotten` makes the caches empty before the file is read again, and `FileKnown` is
what `UnmodifiedIsFile` needs of a document that differs from its file.  The conjuncts were checked by
TLC on the instance of `cache_fresh` before they were proved.  There are two lemmas for each action,
`...Safe` and `...Fresh`; what they share is in lemmas on the line (`LineSent`, `LineServed`, `LineRead`)
and on the frames (`CallFresh`, `PopFresh`).

`IronyClientQueue` and `IronyClientProofs` prove, for any number of requests, servers, ticks and killed
buffers and any callbacks that ask again, from `ClientAssumption` and `NothingAssumption` alone:

* `IInvInvariant`: `Spec => []IInv`;
* from it `TypesHold`, `RequestsFinishInOrder`, `RequestsStayInStep`, `AnswersAreFresh` and `TempFilesGo`,
  the invariants of `irony_client`.

The argument.  The parts of `IInv` take the state of Emacs and of the servers as arguments, because they
have to hold before each call in a turn and not only between actions; an argument `X` names the process
whose task just got its result or is about to be started, for which nothing is under way yet.

* `Ordered`: the requests made of a process are those done and those that wait, numbered upwards, and
  each has one place.  With "no process is `Idle`" this is `FinishedInOrder`.
* `Processes`: only the last process made can run, and what has ended has nothing in its pipe.
* `Flow`: what is under way for the first request is its command (`Sent`), or its reply, of which some
  is half written, in the pipe or in the buffer (`Answering`), or nothing any more (`Cut`).  That the
  mark of the process is at the end of the buffer makes what is read the reply.
* `Told`: what the server has of the buffer is what is on record (`OnRecord`); states on record and of
  requests that wait only grow (`Ranked`); and what stands in the queue before a parse makes it see a
  text that is not older than the one it was asked about (`Promised`).  `FreshAnswers` looks at requests that are
  done; without `Promised` nothing is known of one that is not.
* `Answered`: what is done with a value was answered to its own request, from a fresh text.
* `Flow`, `Told` and `Answered` are given up once outputs were mixed (`emacs.mixed`); types, order and
  temporary files are not.

There is a lemma for each kind of call (what it makes of `Inv` and of the calls that remain) and one for
each action.  That all functions return is shown by a measure: a call that puts two others in its place ends a
request, of which there are at most `MaxRequest`; one that ends none leaves fewer calls, or goes on
with the chain of a request, which has two tasks, so at most once in a row.  `Measure` counts this,
`CallCounted` says that it decreases, and `AllReturned` follows by induction.
`IInv` was checked by TLC on all 779891 states of `irony_client` first.

`IronyExchangeProofs` proves what `IronyServer`'s run tries on its few words and texts, for words, texts,
completions and lists of any length and any alphabet.

* `LongerMatchesLess`: a prefix with one more letter matches no more than before; `StylesAreOrdered`: each
  style matches no less than a stricter one; from these `PrefixStaysMonotone`.
* `WordsReadBack`: what `irony--server-send-command` makes of any words is one line for `std::getline`
  (`LineRead`), and `UnescapeCommandLine` takes it apart into these words, if each `Survives` (no newline, and
  an apostrophe only where Emacs quotes).  `CommandsStayReadBack` adds
  that the parser makes of the words the command that was meant: one lemma for each kind of command, and
  what `strtol` makes of the digits of a number.
* `CandidatesAreFaithful`, for every completion string: the loop of `Irony::candidates` goes through the
  chunks keeping three facts, on the prototype, on the text after the typed chunk and on the placeholders
  in it (`Early` and `Late` are its state before and after the typed text, `Goes` is one step of it); the
  places it notes are those where the snippet is cut.  `SnippetsStayFaithful` follows.
* `RepliesStayRead`: every reply is read as it was meant, and none is taken for complete while a piece of it is
  missing.  Brackets are counted (`Balanced`, `Nested`): a list of balanced parts is balanced, so
  each reply is one expression (`IsReply`), but the two errors without their last bracket, which never
  end (`IsCut`): they are excepted from `RepliesStayRead`, and `CutErrorsAreBad` proves that neither can be read,
  whatever the files are called.  What is one expression is read (`ReplyIsRead`), and only its last three characters are
  the end that Emacs waits for (`ReplyIsAwaited`).

Three parsers are reasoned about in the same way, the line, the depth of brackets and the Lisp reader:
each goes from one state to another over some characters (`Reads`, with `Step` for one character of
each).  This is kept when texts are put together (`ReadsConcat`, `ReadsFlattened`); a character inside
quotes arrives as itself (`EscapeRead`, `EscapeIsRead`), hence a word or string does (`QuotedRead`), hence a
line of words, a list of tokens, a reply.

The hypotheses are on the constants: numbers have up to three digits, and a `long` holds
these or all that an unsigned holds (`NumberAssumption`, `LimitsAssumption`); words, texts and completions are
sequences of anything (`WordAssumption`, `MessageAssumption`, `CompletionAssumption`), but none has the
line `;;EOT`, which the server would print and Emacs would take for the end (`TextAssumption`); comma and
space take one byte (`WideAssumption`).  `RepliesStayRead` and `CutErrorsAreBad` have one more, in their statements:
`NumbersArePlain`, that `ToString` makes no bracket, quote or end of a number, since the provers know
nothing of `ToString`.

Induction.  The theorems of the library take an operator as a parameter, which none of the provers
used here can instantiate.  `InductionLemmas` states induction of sets instead (`SetInduction`: a set
with 0 and with each number the next holds all of `Nat`) and that a recursive function has a value
(`RecursionSolved`), and proves both from the library's theorem that finite sets are well-founded.
This is how `Returned`, the lists of `PdfCache` and the lines of `IronyWire` are reasoned about.

Only model-checked, not proved:

* Liveness: `QueryEnds` and `EventuallyCalled`.  That the functions of the queue in
  `IronyClient` return is proved; that the server answers and Emacs reads is fairness.
* `DataCurrent`, `ColorsCurrent`, `QuitDrains` and `ErrorsRead` are refuted, and so are `QueryEnds` and `RightAnswer`
  without their hypotheses.

## 6. Findings

1. `queue_restart_hangs`: a synchronous query can wait forever after a nested restart
   (`pdf-info.el:379`).
2. `queue_quit_drops`: `pdf-info-quit` can return before outstanding requests are answered
   (`pdf-info.el:1345`), against its docstring.
3. `queue_wrong_callback`: after a callback restarted the server, the filter continues in a foreign
   buffer (`pdf-info.el:327`).
4. `cache_stale`: a revert inside a read leaves old data in the cache (`pdf-cache.el:137`).
5. `cache_colors`: images rendered while a buffer in midnight mode is reverted stay in plain colors
   (`pdf-view.el:1206`).
6. `irony_errors_unread`: the errors of `set-unsaved` and `reset-unsaved` lack a parenthesis
   (`Irony.cpp:549` and `:569`).  Emacs cannot read them and reports bad data, while `Irony.h:8-10` says
   that results are printed as s-expressions for Emacs to consume.

Two more disagreements were met while modelling, and no run is about them:

* The comment of `getannots` says "Errors: If page is out of range." (`epdfinfo.c:2507`).  The code
  cuts the range to the pages of the document and answers with what is in it, with nothing when
  nothing is (2527-2531), and so does `LastPage`.  `ListingComplete` says nothing of ranges outside
  the document.
* `pdf-view--write-contents-function` explains that the new content has to be in its place before the
  document is closed, since redisplay may reopen it in between (`pdf-view.el:490-495`).  For a
  compressed or remote document the server reads a local copy, and that one is written after the
  close (499-500), so that it can be reopened as it was.  `PdfCache` has no local copies, and
  `UnmodifiedIsFile` is about documents without one.

Not findings, since no doc says otherwise, but visible in the models, where the properties excuse
exactly these cases:

* An error in a drag leaves its pages in `pdf-annot-delayed-modified-annotations`, stale in the
  cache, until the next modification (`pdf-annot.el:893`; `PagesCurrent`).
* A text with a line `;;EOT` is printed as it is: a piece of output that ends there is taken for the
  whole reply (`irony.el:712`; assumed away by `MessageAssumption` and `TextAssumption`).
* The server counts placeholders and annotations in bytes, Emacs takes characters: snippets are cut
  wrongly, or not inserted, after a character of two bytes (`Irony.cpp:472`; `SnippetsFaithful`).
* `irony--quote-strings` does not quote for an apostrophe, which opens a string for
  `unescapeCommandLine` (`irony.el:669`; `CommandsReadBack`).  A path or prefix `--` is taken for the
  separator.
* A newline in a word stays as it is, quoted or not (`irony.el:669`), and ends the line for
  `std::getline` (`main.cpp:81`): the server executes what is before it and takes the rest for the
  next command (`CommandsReadBack`).
* A buffer saved while its `set-unsaved` is in flight, or whose file did not exist when its state was
  recorded, is never reset: the server goes on with the older text (`irony.el:749`; `FreshAnswers`).
* When the server cannot read the temporary file, it drops the text it had; Emacs keeps its record,
  takes the server for informed, and asks about the text on disk (`Irony.cpp:546`; `FreshAnswers`).
* All servers share the buffer ` *Irony*`.  When one is killed or dies and the next is started before
  the last output of the old one was read, that output is inserted into the buffer the new one uses.
  The reply there is then not read, or read wrongly, or waited for without end (`irony.el:630`;
  `InStep`, `FreshAnswers`, `EventuallyCalled`).
* Aborting the queue does not run `:finish`: the temporary file of a `set-unsaved` under way stays
  (`irony-iotask.el:289`; `TempFilesDeleted`).
* A database written twice in one second is not read again (`CompDBCache.cpp:22`; `DbCurrent`).

## 7. Not modelled, and why

* `EpdfServer`: numbers of limited width, the text of requests and responses, temporary files,
  poppler itself (how `src/` uses it is modelled as external; that it removes the popup of a markup
  annotation together with it is left out), memory other than the annotations
  that `delannot` may free too early.
* `PdfInfoQueue`: servers local to a buffer (each is another instance), the nesting inside
  `y-or-n-p`, `pdf-info-quit` called with an inherited `pdf-info-asynchronous`, interceptors and
  batch queries.  Killing and quitting the server come from commands only.
* `PdfCache`: the local copies of compressed and remote documents (section 6), the death of the server, C-g in a wait, errors of close, widths and highlighted
  images, the asynchronous close of a buffer that is killed, `addannot` followed by `editannot`.
  `pdf-annot-with-atomic-modifications` is covered by the drag, which allows other code between two
  edits where the macro does not; its different behaviour after an error is in `ErrorReturns`.
* `IronyServer`: `invalidateCachedTU` and `invalidateAllCachedTUs`, which nobody calls; the log and
  the printing of commands to it; `set-debug` beyond its being accepted; Windows; the checker of
  libclang's diagnostics.  A clock that goes back, and a file moved into place with the time it had,
  are left out: the cache compares times for equality, so that only one with just the cached time
  would be taken for the cached one.  File-less buffers
  all are the one temporary file, and the model has it as one file.
* `IronyWire`: `errno` is not reset before `strtol` (`Command.cpp:48`), so that a number after an
  earlier overflow may be refused; the model refuses what overflows.
* `IronyReplies`: the answer "unsupported" of a server that was built without compilation databases
  (`Irony.cpp:581`).
* `IronyClient`: several source buffers, and one that is killed: what is recorded of it stays in
  `:unsaved-buffers`, and a later request may begin with a task that fails in `with-current-buffer`
  (`KillBuffer` is about the buffer a request was made in and drops its callback only).  The early
  exit of `set-unsaved` when the state is recorded already (`irony.el:763`) is never taken, since each
  request makes a new state and `eq` compares objects.  Undoing back to the saved text counts as
  `Revert`.  The caches of the completion and diagnostics front ends;
  `irony--parse-task` asks for the process twice (`irony.el:832` and `:655`), which differ only when
  it ends between the two; the model takes it once.  `irony-cdb` (options found by the client).
* All other parts of the inventory: user interface, vendored code (`synctex_parser.c`), packages of
  other projects.

## 8. Plan

Done: `EpdfServer`, `AnnotStore`; `PdfInfoQueue`, `RequestReply`; `PdfCache`; `IronyServer`,
`IronyApi`; `IronyWire`, `IronyReplies`, `IronyCandidates`; `IronyClient`.  All invariants, action
properties and refinements that hold are proved.

What could follow, in this order: the encoding of pdf-tools in the manner of `IronyWire`; several buffers in
`IronyClient`; `pdf-occur`; `PdfCache` with the death of the server, C-g and `addannot` followed by
`editannot`.
