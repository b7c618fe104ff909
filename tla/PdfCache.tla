------------------------------ MODULE PdfCache ------------------------------
(***************************************************************************)
(* pdf-cache.el: what Emacs remembers of one document, the rendered images *)
(* and the facts about pages (bounding boxes, links, sizes), while the     *)
(* document is edited (pdf-annot.el), saved, reverted and shown in other   *)
(* colors (pdf-view.el).  Everything comes from the epdfinfo server, which *)
(* answers in order (PdfInfoQueue, RequestReply).  A query of Lisp code    *)
(* waits for its answer, and while it waits timers and redisplay run other *)
(* Lisp code that queries the server too; the images of pages that will    *)
(* probably be needed are prefetched by queries nobody waits for.          *)
(*                                                                         *)
(* The document is a file the server reads itself.  For one that is remote *)
(* or compressed, pdf-view-mode gives the server a local copy to read      *)
(* (pdf-view--buffer-file-name); such buffers are not modelled.            *)
(***************************************************************************)
EXTENDS Naturals, FiniteSets, SequencesExt

CONSTANTS
  Page,        \* the pages, each at the one width it is shown at
  None,        \* no page, no answer, no document
  Limit,       \* pdf-cache-image-limit
  RevertNests, \* a sentinel may revert the buffer also while Lisp waits
  MaxVersion,  \* bound on the versions of a page
  MaxFrames,   \* bound on the nesting of Lisp code
  MaxChains    \* bound on the prefetches that are under way

ASSUME CacheAssumption ==
  /\ None \notin Page
  /\ Limit \in Nat
  /\ RevertNests \in BOOLEAN
  /\ MaxVersion \in Nat /\ MaxFrames \in Nat /\ MaxChains \in Nat

Version == 0..MaxVersion
Content == [Page -> Version]

\* What a page looks like, or what is known of it, depends on its content; an
\* image also on the render options of the document.
Document == [pages : Content, dark : BOOLEAN]
Image == [page : Page, version : Version, dark : BOOLEAN]

\* Lisp code that waits for the server; user when a command runs it.  A frame
\* "atomic" is a drag of the mouse, which waits for events.
FrameOp == {"render", "data", "edit", "save", "close", "toggle", "enable", "atomic"}
\* What an answer shows: the pages that were asked for, in the colors of the document.
Shown == [pages : [Page -> Version \cup {None}], dark : BOOLEAN]
Answer == [ok : BOOLEAN, shows : Shown \cup {None}]
Frame == [op : FrameOp, page : Page \cup {None}, user : BOOLEAN, answer : Answer \cup {None}]

\* by is the depth of the frame that waits for the answer, 0 for a prefetch.
Request == [op : FrameOp \ {"atomic"}, page : Page \cup {None}, by : 0..MaxFrames, dark : BOOLEAN]
Reply == [request : Request, answer : Answer]

\* None stands for nil, which is no version, document or answer.
ASSUME NoneAssumption == None \notin Version /\ None \notin Document /\ None \notin Answer

VARIABLES
  clock,     \* the last version any page was given
  disk,      \* the file
  changed,   \* another program wrote the file after the server had read it
  doc,       \* the document the server has open
  stdin,     \* what the server has not read
  stdout,    \* what Emacs has not read
  frames,    \* the Lisp code that waits, innermost last
  images,    \* pdf-cache--image-cache, the last used first
  data,      \* pdf-cache--data
  modified,  \* buffer-modified-p
  delayed,   \* pages of pdf-annot-delayed-modified-annotations
  midnight,  \* pdf-view-midnight-minor-mode
  prefetch,  \* pdf-cache--prefetch-pages
  timers     \* the timers that will call pdf-cache--prefetch-pages

server == <<clock, disk, changed, doc>>
pipes == <<stdin, stdout>>
caches == <<images, data>>
buffer == <<modified, delayed, midnight>>
fetching == <<prefetch, timers>>
vars == <<server, pipes, frames, caches, buffer, fetching>>

TypeOK ==
  /\ clock \in Version /\ disk \in Content /\ changed \in BOOLEAN
  /\ doc \in Document \cup {None}
  /\ stdin \in Seq(Request) /\ stdout \in Seq(Reply)
  /\ frames \in Seq(Frame)
  /\ images \in Seq(Image) /\ data \in [Page -> Version \cup {None}]
  /\ modified \in BOOLEAN /\ delayed \subseteq Page /\ midnight \in BOOLEAN
  /\ prefetch \subseteq Page /\ timers \in Nat

-----------------------------------------------------------------------------
(* The caches.                                                             *)

Cached(p) == \E i \in DOMAIN images : images[i].page = p

\* pdf-cache-get-image: the first image that matches comes to the front.
Used(p) ==
  LET i == CHOOSE i \in DOMAIN images :
             images[i].page = p /\ \A j \in 1..(i - 1) : images[j].page # p
  IN  <<images[i]>> \o RemoveAt(images, i)

\* Mutant: one image too many is kept.
TrimLate(list) ==
  IF Len(list) <= Limit THEN list
  ELSE IF Limit > 1 THEN SubSeq(list, 1, Limit + 1) ELSE <<>>

\* "Forget old image(s)": with a limit of one or none, all of them.
Trim(list) ==
  IF Len(list) <= Limit THEN list
  ELSE IF Limit > 1 THEN SubSeq(list, 1, Limit) ELSE <<>>

\* pdf-cache-put-image
Put(p, shows) ==
  Trim(<<[page |-> p, version |-> shows.pages[p], dark |-> shows.dark]>> \o images)

\* pdf-cache-clear-images-if: the images of other pages, in their order.
Without(S) ==
  LET kept[i \in 0..Len(images)] ==
        IF i = 0 THEN <<>>
        ELSE IF images[i].page \in S THEN kept[i - 1]
        ELSE Append(kept[i - 1], images[i])
  IN  kept[Len(images)]

\* pdf-cache--clear-images-of-annotations, pdf-cache--clear-data-of-annotations
Forget(S) ==
  /\ images' = Without(S)
  /\ data' = [p \in Page |-> IF p \in S THEN None ELSE data[p]]

-----------------------------------------------------------------------------
(* Queries.                                                                *)

Top == Last(frames)
Idle == frames # <<>> => ~frames[1].user

\* The command loop waits for a key; a drag waits for the mouse.
CommandLoop == frames = <<>>
Dragging == frames # <<>> /\ Top.op = "atomic"

\* What Lisp asks the server as op; dark is the option the mode asks for.
Query(op, p, by) ==
  [op |-> op, page |-> p, by |-> by, dark |-> (op = "toggle") # midnight]

NewFrame(op, p, user) == [op |-> op, page |-> p, user |-> user, answer |-> None]

\* Lisp code begins that asks the server and waits.
Call(op, p, user) ==
  /\ Len(frames) < MaxFrames
  /\ frames' = Append(frames, NewFrame(op, p, user))
  /\ stdin' = Append(stdin, Query(op, p, Len(frames) + 1))
  /\ UNCHANGED <<server, stdout>>

\* The Lisp code on top asks for the next thing.
GoOn(op) ==
  /\ frames' = Append(Front(frames), NewFrame(op, None, Top.user))
  /\ stdin' = Append(stdin, Query(op, None, Len(frames)))

Finish == frames' = Front(frames) /\ UNCHANGED stdin

\* A command begins with pre-command-hook, which stops the prefetching.
PreCommand == CommandLoop /\ prefetch' = {} /\ UNCHANGED timers

\* Reads come from commands, and from redisplay and timers in any other wait.
Read(op, p) ==
  \E user \in BOOLEAN :
    /\ IF user THEN PreCommand ELSE UNCHANGED fetching
    /\ UNCHANGED <<buffer, caches>>
    /\ Call(op, p, user)

\* pdf-cache-image-inihibit, while a drag edits: images are neither used nor kept.
Inhibited == \E i \in DOMAIN frames : i > 1 /\ frames[i].op = "edit" /\ frames[i - 1].op = "atomic"

\* pdf-cache-renderpage
RenderPage(p) ==
  /\ ~Inhibited
  /\ \/ ~Cached(p) /\ Read("render", p)
     \/ /\ Cached(p)
        /\ images' = Used(p)
        /\ UNCHANGED <<server, pipes, frames, data, buffer, fetching>>

\* The functions define-pdf-cache-function makes; a hit changes nothing.
ReadData(p) == data[p] = None /\ Read("data", p)

\* pdf-annot-put, pdf-annot-delete, pdf-annot-add-annotation
Edit(p) ==
  /\ \/ PreCommand
     \/ Dragging /\ UNCHANGED fetching
  /\ UNCHANGED <<buffer, caches>>
  /\ Call("edit", p, TRUE)

\* pdf-annot-mouse-move: the modifications are joined until the button is released.
BeginAtomic ==
  /\ PreCommand
  /\ frames' = <<NewFrame("atomic", None, TRUE)>>
  /\ UNCHANGED <<server, pipes, caches, buffer>>

\* Mutant: the modifications are not told to the caches.
EndAtomicUntold ==
  /\ Dragging
  /\ frames' = Front(frames)
  /\ delayed' = {}
  /\ UNCHANGED <<server, pipes, caches, modified, midnight, fetching>>

\* The button is released.
EndAtomic ==
  /\ Dragging
  /\ frames' = Front(frames)
  /\ Forget(delayed)
  /\ delayed' = {}
  /\ UNCHANGED <<server, pipes, modified, midnight, fetching>>

\* pdf-view--write-contents-function: pdf-info-save writes a copy.
Save ==
  /\ PreCommand /\ modified
  /\ UNCHANGED <<buffer, caches>>
  /\ Call("save", None, TRUE)

\* Mutant: pdf-info-close is not on after-revert-hook.
RevertKeepsOpen ==
  /\ PreCommand
  /\ modified' = FALSE
  /\ UNCHANGED <<server, pipes, frames, delayed, midnight, caches>>

\* pdf-view-revert-buffer, as a command, or as TeX-revert-document-buffer in the
\* sentinel of a TeX process.
Revert ==
  /\ \/ PreCommand /\ Call("close", None, TRUE)
     \/ /\ ~CommandLoop => RevertNests
        /\ Call("close", None, FALSE) /\ UNCHANGED fetching
  /\ modified' = FALSE
  /\ UNCHANGED <<delayed, midnight, caches>>

\* pdf-view-midnight-minor-mode, pdf-view-printer-minor-mode
ToggleMidnight ==
  /\ PreCommand
  /\ midnight' = ~midnight
  /\ UNCHANGED <<modified, delayed, caches>>
  /\ Call("toggle", None, TRUE)

-----------------------------------------------------------------------------
(* Queries return.                                                         *)

\* The document is closed: pdf-info-close-document-hook clears the caches, and
\* after-revert-hook or after-save-hook renders in the colors of the mode.
CloseReturns ==
  /\ Forget(Page)
  /\ IF midnight THEN GoOn("enable") ELSE Finish
  /\ modified' = FALSE
  /\ UNCHANGED <<server, delayed, midnight>>

\* The edit on top is one of a drag.
Joined == Len(frames) > 1 /\ Top.op = "edit" /\ frames[Len(frames) - 1].op = "atomic"

\* The annotation was edited: its page is forgotten now, with those of earlier
\* modifications, or at the end of the drag.
EditReturns ==
  /\ Finish
  /\ modified' = TRUE
  /\ IF Joined
     THEN delayed' = delayed \cup {Top.page} /\ UNCHANGED caches
     ELSE delayed' = {} /\ Forget(delayed \cup {Top.page})
  /\ UNCHANGED <<server, midnight>>

\* The copy replaces the file, then the document is closed.  A local copy, which
\* is written after that, does not exist here: pdf-view--buffer-file-name is nil.
SaveReturns ==
  /\ disk' = Top.answer.shows.pages
  /\ changed' = FALSE
  /\ GoOn("close")
  /\ UNCHANGED <<clock, doc, caches, buffer>>

RenderReturns ==
  /\ Finish
  /\ images' = Put(Top.page, Top.answer.shows)
  /\ UNCHANGED <<server, data, buffer>>

\* Mutant: what is stored is the page, not what is known of it.
DataReturnsPage ==
  /\ Finish
  /\ data' = [data EXCEPT ![Top.page] = Top.page]
  /\ UNCHANGED <<server, images, buffer>>

DataReturns ==
  /\ Finish
  /\ data' = [data EXCEPT ![Top.page] = Top.answer.shows.pages[Top.page]]
  /\ UNCHANGED <<server, images, buffer>>

\* pdf-cache-clear-images when the mode changed; nothing in after-revert-hook.
OptionsReturn ==
  /\ Finish
  /\ IF Top.op = "toggle" THEN images' = <<>> ELSE UNCHANGED images
  /\ UNCHANGED <<server, data, buffer>>

\* An error ends the code that asked, and a drag with it: pdf-annot-mouse-move does
\* not run the hooks then, pdf-annot-with-atomic-modifications does.
ErrorReturns ==
  /\ UNCHANGED <<server, stdin, modified, midnight>>
  /\ IF Joined
     THEN /\ frames' = Front(Front(frames))
          /\ \/ UNCHANGED <<delayed, caches>>
             \/ delayed' = {} /\ Forget(delayed)
     ELSE frames' = Front(frames) /\ UNCHANGED <<delayed, caches>>

\* The query on top has its answer.
Return ==
  /\ frames # <<>> /\ Top.answer # None
  /\ UNCHANGED <<stdout, fetching>>
  /\ \/ ~Top.answer.ok /\ ErrorReturns
     \/ /\ Top.answer.ok
        /\ \/ Top.op = "render" /\ RenderReturns
           \/ Top.op = "data" /\ DataReturns
           \/ Top.op = "edit" /\ EditReturns
           \/ Top.op = "save" /\ SaveReturns
           \/ Top.op = "close" /\ CloseReturns
           \/ Top.op \in {"toggle", "enable"} /\ OptionsReturn

-----------------------------------------------------------------------------
(* Prefetching.                                                            *)

\* pdf-cache--prefetch-pages: the next page that is not cached is asked for.
AskNext(pages) ==
  \/ /\ \A p \in pages : Cached(p)
     /\ prefetch' = {}
     /\ UNCHANGED stdin
  \/ \E p \in pages :
       /\ ~Cached(p)
       /\ prefetch' \in SUBSET (pages \ {p})
       /\ \A q \in pages \ (prefetch' \cup {p}) : Cached(q)
       /\ stdin' = Append(stdin, Query("render", p, 0))

Chains ==
  timers + Cardinality({i \in DOMAIN stdin : stdin[i].by = 0})
         + Cardinality({i \in DOMAIN stdout : stdout[i].request.by = 0})

\* pdf-cache--prefetch-start, an idle timer
PrefetchStart ==
  /\ Idle
  /\ prefetch = {}
  /\ Chains < MaxChains
  /\ \E pages \in SUBSET Page :
       /\ pages # {} /\ Cardinality(pages) <= Limit
       /\ AskNext(pages)
  /\ UNCHANGED <<server, stdout, frames, caches, buffer, timers>>

\* The timer goes on, unless another window is selected.
PrefetchTimer ==
  /\ timers > 0
  /\ timers' = timers - 1
  /\ AskNext(prefetch) \/ UNCHANGED <<prefetch, stdin>>
  /\ UNCHANGED <<server, stdout, frames, caches, buffer>>

\* The callback puts the image, unless another window is selected, and creates
\* the page from it.  The image is not there if the limit is one or none.
PrefetchCallback(p, answer) ==
  /\ UNCHANGED <<server, data, buffer, prefetch>>
  /\ \/ UNCHANGED <<stdin, frames, images, timers>>
     \/ /\ answer.ok
        /\ images' = Put(p, answer.shows)
        /\ timers' = timers + 1
        /\ IF images' # <<>> THEN UNCHANGED <<stdin, frames>>
           ELSE /\ Len(frames) < MaxFrames
                /\ frames' = Append(frames, NewFrame("render", p, FALSE))
                /\ stdin' = Append(stdin, Query("render", p, Len(frames) + 1))

\* The filter hands over the next answer: to the code that waits for it, or to
\* the callback of a prefetch.
Filter ==
  /\ stdout # <<>>
  /\ stdout' = Tail(stdout)
  /\ LET r == Head(stdout).request
         a == Head(stdout).answer
     IN  IF r.by = 0 THEN PrefetchCallback(r.page, a)
         ELSE /\ frames' = [frames EXCEPT ![r.by].answer = a]
              /\ UNCHANGED <<server, stdin, caches, buffer, fetching>>

-----------------------------------------------------------------------------
(* The server, and other programs.                                         *)

\* The commands that answer with what is in the document.
Reading == {"render", "data", "save"}

Show(d, page) ==
  [d EXCEPT !.pages = [p \in Page |-> IF page \in {p, None} THEN d.pages[p] ELSE None]]

Opened == IF doc = None THEN [pages |-> disk, dark |-> FALSE] ELSE doc

\* The document after r was executed; an edit gives the page a new version.
Executed(r) ==
  CASE r.op = "edit" -> [Opened EXCEPT !.pages[r.page] = clock + 1]
    [] r.op = "close" -> None
    [] r.op \in {"toggle", "enable"} -> [Opened EXCEPT !.dark = r.dark]
    [] OTHER -> Opened

\* A command is executed and answered, and reads the file if it was not open.
\* Reading and editing a page can fail.
Serve ==
  /\ stdin # <<>>
  /\ stdin' = Tail(stdin)
  /\ LET r == Head(stdin)
     IN  \E ok \in BOOLEAN :
           /\ ok \/ r.op \in {"render", "data", "edit"}
           /\ r.op = "edit" /\ ok => clock < MaxVersion
           /\ doc' = IF ok THEN Executed(r) ELSE Opened
           /\ clock' = IF r.op = "edit" /\ ok THEN clock + 1 ELSE clock
           /\ stdout' = Append(stdout, [request |-> r, answer |->
                [ok |-> ok, shows |-> IF ok /\ r.op \in Reading THEN Show(doc', r.page) ELSE None]])
           /\ changed' = (changed /\ doc # None)
  /\ UNCHANGED <<disk, frames, caches, buffer, fetching>>

\* Another program, TeX say, writes the file.
Compile ==
  /\ clock < MaxVersion
  /\ clock' = clock + 1
  /\ disk' = [p \in Page |-> clock + 1]
  /\ changed' = TRUE
  /\ UNCHANGED <<doc, pipes, frames, caches, buffer, fetching>>

-----------------------------------------------------------------------------
Init ==
  /\ clock = 0
  /\ disk = [p \in Page |-> 0] /\ changed = FALSE
  /\ doc = None
  /\ stdin = <<>> /\ stdout = <<>> /\ frames = <<>>
  /\ images = <<>> /\ data = [p \in Page |-> None]
  /\ modified = FALSE /\ delayed = {} /\ midnight = FALSE
  /\ prefetch = {} /\ timers = 0

Next ==
  \/ \E p \in Page : RenderPage(p) \/ ReadData(p) \/ Edit(p)
  \/ BeginAtomic \/ EndAtomic \/ Save \/ Revert \/ ToggleMidnight
  \/ Return \/ Filter \/ PrefetchStart \/ PrefetchTimer
  \/ Serve \/ Compile

Spec == Init /\ [][Next]_vars

-----------------------------------------------------------------------------
(* What the caches promise.                                                *)

\* The document is being closed, after which the caches forget everything.
Closing == \E i \in DOMAIN frames : frames[i].op = "close"

\* p was edited, and the hooks that make the caches forget it have not run.
Modified(p) == p \in delayed \/ \E i \in DOMAIN frames : frames[i].op = "edit" /\ frames[i].page = p

\* What is cached of p is what the server would answer now.
Current(p) ==
  /\ \A i \in DOMAIN images : images[i].page = p => images[i].version = Opened.pages[p]
  /\ data[p] \in {None, Opened.pages[p]}

\* Every cached image and all cached data of a page is current, except between a
\* modification of that page and the hooks that tell the caches, also while other
\* code waits and prefetched images arrive.
PagesCurrent == \A p \in Page : Closing \/ Modified(p) \/ Current(p)

\* pdf-cache-image-limit: "Maximum number of cached PNG images per buffer."
ImagesBounded == Len(images) <= Limit

\* A buffer that is not modified shows the file as the server read it or as it was
\* saved: saving is not undone by redisplay that opens the old file again while the
\* document is closed (the comment at pdf-view.el:490).  This is about files the
\* server reads itself; a local copy is written only after the document is closed
\* (pdf-view.el:499), and redisplay in that wait does open the old one.
UnmodifiedIsFile ==
  doc # None /\ ~modified /\ ~changed /\ ~Closing /\ (\A p \in Page : ~Modified(p))
    => doc.pages = disk

\* pdf-view.el:1197 on pdf-view-midnight-minor-mode: "Apply a color-filter
\* appropriate for past midnight reading."
ColorsCurrent ==
  (\A i \in DOMAIN frames : frames[i].op \notin {"close", "toggle", "enable"})
    => \A i \in DOMAIN images : images[i].dark = midnight

\* pdf-cache.el:131 on the functions for data: "Cached version of `pdf-info-%s'".
DataCurrent ==
  \A p \in Page : Closing \/ Modified(p) \/ data[p] \in {None, Opened.pages[p]}
=============================================================================
