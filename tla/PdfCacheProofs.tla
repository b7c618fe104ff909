--------------------------- MODULE PdfCacheProofs ---------------------------
(* Proofs about PdfCache, for every value of its constants.  That what is   *)
(* cached is current needs one thing more: that no sentinel reverts the     *)
(* buffer while other Lisp code waits.                                      *)
EXTENDS PdfCache, InductionLemmas, SequenceTheorems

-----------------------------------------------------------------------------
(* The inductive invariant.                                                *)

\* What was sent to the server and has not been read back, in its order.
LineOf(out, in) ==
  [i \in 1..(Len(out) + Len(in)) |->
     IF i <= Len(out) THEN out[i].request ELSE in[i - Len(out)]]
Line == LineOf(stdout, stdin)

\* A request, or the code that waits for it, names its page.
Named(r) ==
  /\ r.op \in {"render", "data", "edit"} => r.page \in Page
  /\ r.op = "save" => r.page = None

\* The answer fits the request: only reading and editing fail, and reading shows
\* the pages that were asked for.
Replied(r, a) ==
  /\ r.op \notin {"render", "data", "edit"} => a.ok
  /\ a.ok /\ r.op \in Reading =>
       /\ a.shows \in Shown
       /\ \A p \in Page : r.page \in {p, None} => a.shows.pages[p] \in Version

\* A drag is the outermost code and waits for no answer; other code has one that
\* fits, or waits for it.
FramesOrderly(fr) ==
  \A k \in DOMAIN fr :
    /\ IF fr[k].op = "atomic" THEN k = 1 /\ fr[k].answer = None ELSE k <= MaxFrames
    /\ Named(fr[k])
    /\ fr[k].answer # None => Replied(fr[k], fr[k].answer)

\* Every request in the line is a prefetch or one the code at its depth waits for.
\* Code that waits deeper asked later, and whoever has an answer asked before all
\* that is still in the line.
LineOrderly(fr, line) ==
  \A i \in DOMAIN line :
    /\ Named(line[i])
    /\ line[i].by = 0 => line[i].op = "render"
    /\ line[i].by # 0 =>
         /\ line[i].by \in DOMAIN fr
         /\ fr[line[i].by].op = line[i].op /\ fr[line[i].by].page = line[i].page
         /\ \A k \in DOMAIN fr : fr[k].answer # None => k < line[i].by
         /\ \A j \in DOMAIN line : i < j /\ line[j].by # 0 => line[i].by < line[j].by

RepliesOrderly(out) == \A i \in DOMAIN out : Replied(out[i].request, out[i].answer)

Orderly == FramesOrderly(frames) /\ LineOrderly(frames, Line) /\ RepliesOrderly(stdout)

\* Only reads run inside other code, and edits inside a drag.
FramesNested ==
  \A k \in DOMAIN frames :
    k > 1 => \/ frames[k].op \in {"render", "data"}
             \/ k = 2 /\ frames[k].op = "edit" /\ frames[1].op = "atomic"

\* The answer shows the pages as they are in d.
Fresh(d, a, page) ==
  d # None /\ \A p \in Page : page \in {p, None} => a.shows.pages[p] = d.pages[p]

\* r and its answer a mean that p was edited.
Edits(r, a, p) == r.op = "edit" /\ r.page = p /\ a.ok

\* p was edited, and the code that asked for it has not gone on.
EditServed(p) ==
  \/ \E k \in DOMAIN frames : frames[k].answer # None /\ Edits(frames[k], frames[k].answer, p)
  \/ \E i \in DOMAIN stdout : Edits(stdout[i].request, stdout[i].answer, p)

\* Behind the i-th answer comes the news that p was edited, or the document closed.
NewsBehind(out, i, p) ==
  \E j \in DOMAIN out :
    i < j /\ (out[j].request.op = "close" \/ Edits(out[j].request, out[j].answer, p))

CloseUnserved == \E i \in DOMAIN stdin : stdin[i].op = "close"

\* What is cached is current unless an edit was served whose hooks have not run.
CachesFresh == \A p \in Page : Closing \/ p \in delayed \/ EditServed(p) \/ Current(p)

\* Code that waited for an answer never gets a stale one; a prefetched image is
\* stale only if the news that makes Emacs forget it comes behind.
AnswersFresh ==
  /\ \A k \in DOMAIN frames :
       frames[k].op \in Reading /\ frames[k].answer # None /\ frames[k].answer.ok
         => Fresh(doc, frames[k].answer, frames[k].page)
  /\ \A i \in DOMAIN stdout :
       stdout[i].request.op \in Reading /\ stdout[i].answer.ok =>
         \/ Fresh(doc, stdout[i].answer, stdout[i].request.page)
         \/ stdout[i].request.by = 0 /\ NewsBehind(stdout, i, stdout[i].request.page)

\* A document that is not open was not read yet, or was just closed.
ClosedForgotten ==
  doc = None =>
    /\ stdout = <<>> \/ stdout[Len(stdout)].request.op = "close"
    /\ Closing \/ (images = <<>> /\ \A p \in Page : data[p] = None)

\* The document differs from the file only while Emacs knows, or is to be told.
FileKnown ==
  doc # None /\ ~changed /\ doc.pages # disk =>
    /\ modified \/ CloseUnserved \/ \E p \in Page : EditServed(p)
    /\ Closing => CloseUnserved

\* What holds however reverts nest, and what holds if they do not.
SInv == TypeOK /\ Orderly /\ ImagesBounded
FreshInv == FramesNested /\ CachesFresh /\ AnswersFresh /\ ClosedForgotten /\ FileKnown
IInv == SInv /\ FreshInv

-----------------------------------------------------------------------------
(* The image cache.                                                        *)

\* Forgetting pages keeps the images of other pages, and none of those pages.
LEMMA WithoutProperties ==
  ASSUME NEW S, images \in Seq(Image)
  PROVE  /\ Without(S) \in Seq(Image)
         /\ Len(Without(S)) <= Len(images)
         /\ \A i \in DOMAIN Without(S) :
              /\ Without(S)[i].page \notin S
              /\ \E j \in DOMAIN images : Without(S)[i] = images[j]
<1> DEFINE n == Len(images)
           step(g, i) == IF i = 0 THEN <<>>
                         ELSE IF images[i].page \in S THEN g[i - 1]
                         ELSE Append(g[i - 1], images[i])
           F == [i \in 1..n |-> [list \in Seq(Image) |->
                  IF images[i].page \in S THEN list ELSE Append(list, images[i])]]
<1>1. n \in Nat /\ <<>> \in Seq(Image) /\ F \in [1..n -> [Seq(Image) -> Seq(Image)]]
  <2>1. ASSUME NEW i \in 1..n, NEW list \in Seq(Image)
        PROVE  images[i] \in Image /\ Append(list, images[i]) \in Seq(Image)
    OBVIOUS
  <2> QED
    BY <2>1
<1>2. PICK g \in [0..n -> Seq(Image)] :
        g[0] = <<>> /\ \A i \in 1..n : g[i] = F[i][g[i - 1]]
  <2> DEFINE none == <<>>
             lists == Seq(Image)
  <2>1. n \in Nat /\ none \in lists /\ F \in [1..n -> [lists -> lists]]
    BY <1>1
  <2> HIDE DEF F, n, none, lists
  <2>2. \E g \in [0..n -> lists] : g[0] = none /\ \A i \in 1..n : g[i] = F[i][g[i - 1]]
    BY <2>1, RecursionSolved
  <2> QED
    BY <2>2 DEF none, lists
<1>3. ASSUME NEW i \in 0..n PROVE g[i] = step(g, i)
  <2>1. CASE i = 0
    BY <1>2, <2>1
  <2>2. CASE i # 0
    <3>1. i \in 1..n /\ i - 1 \in 0..n
      BY <2>2
    <3>2. g[i - 1] \in Seq(Image)
      BY <3>1
    <3> QED
      BY <1>2, <2>2, <3>1, <3>2
  <2> QED
    BY <2>1, <2>2
<1>4. \E h : h = [i \in 0..n |-> step(h, i)]
  <2>1. g = [i \in 0..n |-> step(g, i)]
    BY <1>3
  <2> QED
    BY <2>1
<1> DEFINE kept == CHOOSE h : h = [i \in 0..n |-> step(h, i)]
<1>5. kept = [i \in 0..n |-> step(kept, i)]
  BY <1>4
<1>6. Without(S) = kept[n]
  BY DEF Without
<1> HIDE DEF kept
<1>7. \A i \in 0..n : kept[i] = step(kept, i)
  BY <1>5
<1> DEFINE good(m) == /\ kept[m] \in Seq(Image) /\ Len(kept[m]) <= m
                      /\ \A i \in DOMAIN kept[m] :
                           /\ kept[m][i].page \notin S
                           /\ \E j \in DOMAIN images : kept[m][i] = images[j]
           G == {m \in Nat : m <= n => good(m)}
<1>8. 0 \in G
  <2>1. kept[0] = <<>>
    BY <1>1, <1>7
  <2>2. good(0)
    BY <2>1
  <2> HIDE DEF good
  <2> QED
    BY <2>2
<1>9. ASSUME NEW m \in Nat, m \in G, m + 1 <= n PROVE good(m + 1)
  <2>1. good(m)
    BY <1>1, <1>9
  <2>2. m + 1 \in 0..n /\ m + 1 # 0 /\ (m + 1) - 1 = m /\ m + 1 \in DOMAIN images
    BY <1>1, <1>9
  <2>3. images[m + 1] \in Image
    BY <2>2
  <2>4. kept[m + 1] = IF images[m + 1].page \in S THEN kept[m] ELSE Append(kept[m], images[m + 1])
    BY <1>7, <2>2
  <2>5. CASE images[m + 1].page \in S
    BY <2>1, <2>4, <2>5
  <2>6. CASE images[m + 1].page \notin S
    <3> DEFINE k == kept[m]
               e == images[m + 1]
    <3>1. k \in Seq(Image) /\ Len(k) <= m
      BY <2>1
    <3>2. /\ Append(k, e) \in Seq(Image) /\ Len(Append(k, e)) = Len(k) + 1
          /\ \A i \in 1..Len(k) : Append(k, e)[i] = k[i]
          /\ Append(k, e)[Len(k) + 1] = e
      BY <2>3, <3>1, AppendProperties
    <3>3. ASSUME NEW i \in DOMAIN Append(k, e)
          PROVE  /\ Append(k, e)[i].page \notin S
                 /\ \E j \in DOMAIN images : Append(k, e)[i] = images[j]
      <4>1. CASE i \in 1..Len(k)
        BY <2>1, <3>1, <3>2, <4>1
      <4>2. CASE i = Len(k) + 1
        BY <2>2, <2>6, <3>2, <4>2
      <4> QED
        BY <3>1, <3>2, <4>1, <4>2
    <3>4. kept[m + 1] = Append(k, e)
      BY <2>4, <2>6
    <3>5. Len(k) + 1 <= m + 1
      BY <3>1
    <3> HIDE DEF k, e
    <3> QED
      BY <3>2, <3>3, <3>4, <3>5
  <2> QED
    BY <2>5, <2>6
<1>10. good(n)
  <2>1. \A m \in Nat : m \in G => m + 1 \in G
    <3> SUFFICES ASSUME NEW m \in Nat, m \in G, m + 1 <= n PROVE good(m + 1)
      OBVIOUS
    <3> QED
      BY <1>9
  <2> HIDE DEF G
  <2>2. Nat \subseteq G
    BY <1>8, <2>1, SetInduction
  <2>3. n \in G
    BY <1>1, <2>2
  <2> QED
    BY <2>3 DEF G
<1> QED
  BY <1>6, <1>10

\* Using an image moves it, and loses none.
LEMMA UsedProperties ==
  ASSUME NEW p \in Page, images \in Seq(Image), Cached(p)
  PROVE  /\ Used(p) \in Seq(Image)
         /\ Len(Used(p)) = Len(images)
         /\ \A i \in DOMAIN Used(p) : \E j \in DOMAIN images : Used(p)[i] = images[j]
<1> DEFINE found(i) == images[i].page = p /\ \A j \in 1..(i - 1) : images[j].page # p
<1>1. \E i \in DOMAIN images : found(i)
  <2> DEFINE T == {i \in DOMAIN images : images[i].page = p}
  <2>1. T \in SUBSET Nat /\ T # {}
    BY DEF Cached
  <2>2. \E i \in T : \A j \in T : i <= j
    <3> HIDE DEF T
    <3> QED
      BY <2>1, LeastElement
  <2>3. PICK i \in T : \A j \in T : i <= j
    BY <2>2
  <2>4. \A j \in 1..(i - 1) : j \in DOMAIN images /\ ~(i <= j)
    OBVIOUS
  <2>5. found(i)
    BY <2>3, <2>4
  <2> QED
    BY <2>5
<1> DEFINE i == CHOOSE i \in DOMAIN images : found(i)
           rest == RemoveAt(images, i)
<1>2. i \in DOMAIN images
  BY <1>1
<1>3. Used(p) = <<images[i]>> \o rest
  BY DEF Used
<1> HIDE DEF i
<1>4. i \in 1..Len(images) /\ Len(images) \in Nat /\ images[i] \in Image
  BY <1>2
<1>5. /\ rest \in Seq(Image) /\ Len(rest) = Len(images) - 1
      /\ \A k \in 1..(Len(images) - 1) : rest[k] = images[IF k < i THEN k ELSE k + 1]
  <2> DEFINE n == Len(images)
             a == SubSeq(images, 1, i - 1)
             b == SubSeq(images, i + 1, n)
  <2>1. /\ a \in Seq(Image) /\ Len(a) = i - 1
        /\ \A k \in 1..(i - 1) : a[k] = images[k]
    BY <1>4
  <2>2. /\ b \in Seq(Image) /\ Len(b) = n - i
        /\ \A k \in 1..(n - i) : b[k] = images[k + i]
    <3>1. CASE i = n
      BY <1>4, <3>1
    <3>2. CASE i # n
      BY <1>4, <3>2
    <3> QED
      BY <3>1, <3>2
  <2>3. rest = a \o b
    BY DEF RemoveAt
  <2>4. i \in Nat /\ n \in Nat /\ i <= n /\ 1 <= i
    BY <1>4
  <2> HIDE DEF a, b, n, rest
  <2>5. /\ rest \in Seq(Image) /\ Len(rest) = n - 1
        /\ \A k \in 1..(n - 1) : rest[k] = IF k <= i - 1 THEN a[k] ELSE b[k - (i - 1)]
    <3>1. a \in Seq(Image) /\ b \in Seq(Image)
      BY <2>1, <2>2
    <3>2. /\ rest \in Seq(Image) /\ Len(rest) = Len(a) + Len(b)
          /\ \A k \in 1..(Len(a) + Len(b)) : rest[k] = IF k <= Len(a) THEN a[k] ELSE b[k - Len(a)]
      BY <2>3, <3>1, ConcatProperties
    <3>3. Len(a) = i - 1 /\ Len(b) = n - i /\ Len(a) + Len(b) = n - 1
      BY <2>1, <2>2, <2>4
    <3> QED
      BY <3>2, <3>3
  <2>6. ASSUME NEW k \in 1..(n - 1) PROVE rest[k] = images[IF k < i THEN k ELSE k + 1]
    <3>1. CASE k < i
      BY <2>1, <2>4, <2>5, <3>1
    <3>2. CASE ~(k < i)
      <4>1. k - (i - 1) \in 1..(n - i) /\ (k - (i - 1)) + i = k + 1
        BY <2>4, <3>2
      <4> QED
        BY <2>2, <2>4, <2>5, <3>2, <4>1
    <3> QED
      BY <3>1, <3>2
  <2> QED
    BY <2>5, <2>6 DEF n
<1> HIDE DEF rest
<1>6. /\ <<images[i]>> \o rest \in Seq(Image) /\ Len(<<images[i]>> \o rest) = Len(images)
      /\ (<<images[i]>> \o rest)[1] = images[i]
      /\ \A k \in 2..Len(images) : (<<images[i]>> \o rest)[k] = rest[k - 1]
  BY <1>4, <1>5
<1>7. ASSUME NEW k \in 1..Len(images)
      PROVE  \E j \in DOMAIN images : Used(p)[k] = images[j]
  <2>1. CASE k = 1
    BY <1>2, <1>3, <1>6, <2>1
  <2>2. CASE k # 1
    <3>1. k - 1 \in 1..(Len(images) - 1) /\ k \in 2..Len(images)
      BY <1>4, <2>2
    <3>2. Used(p)[k] = images[IF k - 1 < i THEN k - 1 ELSE (k - 1) + 1]
      BY <1>3, <1>5, <1>6, <3>1
    <3>3. (IF k - 1 < i THEN k - 1 ELSE (k - 1) + 1) \in DOMAIN images
      BY <1>4, <3>1
    <3> QED
      BY <3>2, <3>3
  <2> QED
    BY <2>1, <2>2
<1>8. Used(p) \in Seq(Image) /\ Len(Used(p)) = Len(images)
  BY <1>3, <1>6
<1>9. DOMAIN Used(p) = 1..Len(images)
  BY <1>8
<1> QED
  BY <1>7, <1>8, <1>9

\* What is put comes first, and the cache keeps to its limit.
LEMMA PutProperties ==
  ASSUME NEW p \in Page, NEW shows, images \in Seq(Image),
         shows.pages[p] \in Version, shows.dark \in BOOLEAN
  PROVE  /\ Put(p, shows) \in Seq(Image)
         /\ Len(Put(p, shows)) <= Limit
         /\ \A i \in DOMAIN Put(p, shows) :
              \/ Put(p, shows)[i].page = p /\ Put(p, shows)[i].version = shows.pages[p]
              \/ \E j \in DOMAIN images : Put(p, shows)[i] = images[j]
<1> DEFINE e == [page |-> p, version |-> shows.pages[p], dark |-> shows.dark]
           list == <<e>> \o images
<1>1. e \in Image /\ e.page = p /\ e.version = shows.pages[p]
  BY DEF Image
<1>2. Put(p, shows) = Trim(list)
  BY DEF Put
<1> HIDE DEF e
<1>3. /\ list \in Seq(Image) /\ Len(list) = Len(images) + 1 /\ Len(images) \in Nat
      /\ list[1] = e /\ \A i \in 2..Len(list) : list[i] = images[i - 1]
  BY <1>1
<1> HIDE DEF list
<1>4. \A i \in DOMAIN list : list[i] = e \/ \E j \in DOMAIN images : list[i] = images[j]
  <2> SUFFICES ASSUME NEW i \in 1..Len(list), i # 1
               PROVE  \E j \in DOMAIN images : list[i] = images[j]
    BY <1>3
  <2>1. i \in 2..Len(list) /\ i - 1 \in DOMAIN images
    BY <1>3
  <2> QED
    BY <1>3, <2>1
<1>5. Limit \in Nat
  BY CacheAssumption
<1>6. CASE Len(list) <= Limit
  BY <1>1, <1>2, <1>3, <1>4, <1>6 DEF Trim
<1>7. CASE ~(Len(list) <= Limit) /\ Limit > 1
  <2>1. Put(p, shows) = SubSeq(list, 1, Limit)
    BY <1>2, <1>7 DEF Trim
  <2>2. /\ SubSeq(list, 1, Limit) \in Seq(Image) /\ Len(SubSeq(list, 1, Limit)) = Limit
        /\ \A i \in 1..Limit : SubSeq(list, 1, Limit)[i] = list[i] /\ i \in DOMAIN list
    BY <1>3, <1>5, <1>7
  <2> QED
    BY <1>1, <1>4, <1>5, <2>1, <2>2, SMTT(30)
<1>8. CASE ~(Len(list) <= Limit) /\ ~(Limit > 1)
  BY <1>2, <1>5, <1>8 DEF Trim
<1> QED
  BY <1>6, <1>7, <1>8

-----------------------------------------------------------------------------
(* The line of requests and the code that waits for them.                  *)

LEMMA FrontProperties ==
  ASSUME NEW S, NEW s \in Seq(S), s # <<>>
  PROVE  /\ Front(s) \in Seq(S) /\ Len(Front(s)) = Len(s) - 1 /\ Len(s) \in Nat \ {0}
         /\ Last(s) = s[Len(s)] /\ Last(s) \in S
         /\ \A i \in 1..(Len(s) - 1) : Front(s)[i] = s[i]
<1>1. Len(s) \in Nat \ {0}
  OBVIOUS
<1>2. Last(s) = s[Len(s)] /\ s[Len(s)] \in S
  BY <1>1 DEF Last
<1>3. Front(s) = SubSeq(s, 1, Len(s) - 1)
  BY DEF Front
<1>4. /\ SubSeq(s, 1, Len(s) - 1) \in Seq(S) /\ Len(SubSeq(s, 1, Len(s) - 1)) = Len(s) - 1
      /\ \A i \in 1..(Len(s) - 1) : SubSeq(s, 1, Len(s) - 1)[i] = s[i]
  <2>1. 1 \in 1..(Len(s) + 1) /\ Len(s) - 1 \in (1 - 1)..Len(s) /\ (Len(s) - 1) - 1 + 1 = Len(s) - 1
    BY <1>1
  <2>2. 1 <= Len(s) /\ Len(s) - 1 <= Len(s) /\ Len(s) - 1 \in Nat
    BY <1>1
  <2> QED
    BY <2>1, <2>2, SubSeqProperties
<1> QED
  BY <1>1, <1>2, <1>3, <1>4

LEMMA TailProperties ==
  ASSUME NEW S, NEW s \in Seq(S), s # <<>>
  PROVE  /\ Tail(s) \in Seq(S) /\ Len(Tail(s)) = Len(s) - 1 /\ Len(s) \in Nat \ {0}
         /\ Head(s) = s[1] /\ Head(s) \in S
         /\ \A i \in 1..(Len(s) - 1) : Tail(s)[i] = s[i + 1]
OBVIOUS

LEMMA LineProperties ==
  ASSUME NEW out \in Seq(Reply), NEW in \in Seq(Request)
  PROVE  /\ LineOf(out, in) \in Seq(Request) /\ Len(LineOf(out, in)) = Len(out) + Len(in)
         /\ \A i \in 1..(Len(out) + Len(in)) :
              LineOf(out, in)[i] = IF i <= Len(out) THEN out[i].request ELSE in[i - Len(out)]
<1>1. Len(out) \in Nat /\ Len(in) \in Nat
  OBVIOUS
<1>2. ASSUME NEW i \in 1..(Len(out) + Len(in))
      PROVE  LineOf(out, in)[i] \in Request
  <2>1. CASE i <= Len(out)
    <3>1. out[i] \in Reply
      BY <1>1, <2>1
    <3> QED
      BY <2>1, <3>1 DEF LineOf, Reply
  <2>2. CASE ~(i <= Len(out))
    <3>1. i - Len(out) \in 1..Len(in)
      BY <1>1, <2>2
    <3> QED
      BY <2>2, <3>1 DEF LineOf
  <2> QED
    BY <2>1, <2>2
<1>3. LineOf(out, in) \in [1..(Len(out) + Len(in)) -> Request]
  BY <1>2 DEF LineOf
<1> QED
  BY <1>1, <1>3, IsASeq DEF LineOf

\* A request that is sent goes to the end of the line.
LEMMA LineSent ==
  ASSUME NEW out \in Seq(Reply), NEW in \in Seq(Request), NEW q \in Request
  PROVE  LineOf(out, Append(in, q)) = Append(LineOf(out, in), q)
<1> DEFINE l == LineOf(out, in)
           m == LineOf(out, Append(in, q))
<1>1. /\ Append(in, q) \in Seq(Request) /\ Len(Append(in, q)) = Len(in) + 1
      /\ \A i \in 1..Len(in) : Append(in, q)[i] = in[i]
      /\ Append(in, q)[Len(in) + 1] = q
  BY AppendProperties
<1>2. /\ l \in Seq(Request) /\ Len(l) = Len(out) + Len(in)
      /\ \A i \in 1..(Len(out) + Len(in)) :
           l[i] = IF i <= Len(out) THEN out[i].request ELSE in[i - Len(out)]
  BY LineProperties
<1>3. /\ m \in Seq(Request) /\ Len(m) = Len(out) + Len(in) + 1
      /\ \A i \in 1..(Len(out) + Len(in) + 1) :
           m[i] = IF i <= Len(out) THEN out[i].request ELSE Append(in, q)[i - Len(out)]
  <2>1. Len(out) + Len(Append(in, q)) = Len(out) + Len(in) + 1
    BY <1>1
  <2> HIDE DEF m
  <2> QED
    BY <1>1, <2>1, LineProperties DEF m
<1> HIDE DEF l, m
<1>4. /\ Append(l, q) \in Seq(Request) /\ Len(Append(l, q)) = Len(l) + 1
      /\ \A i \in 1..Len(l) : Append(l, q)[i] = l[i]
      /\ Append(l, q)[Len(l) + 1] = q
  <2>1. l \in Seq(Request)
    BY <1>2
  <2> QED
    BY <2>1, AppendProperties
<1>5. Len(out) \in Nat /\ Len(in) \in Nat
  OBVIOUS
<1>6. ASSUME NEW i \in 1..Len(m) PROVE m[i] = Append(l, q)[i]
  <2>1. CASE i <= Len(out)
    BY <1>2, <1>3, <1>4, <1>5, <2>1, SMTT(30)
  <2>2. CASE Len(out) < i /\ i <= Len(l)
    <3>1. i - Len(out) \in 1..Len(in) /\ i \in 1..Len(l) /\ ~(i <= Len(out))
      BY <1>2, <1>5, <2>2
    <3> QED
      BY <1>1, <1>2, <1>3, <1>4, <3>1
  <2>3. CASE i = Len(l) + 1
    <3>1. i - Len(out) = Len(in) + 1 /\ ~(i <= Len(out)) /\ i \in 1..(Len(out) + Len(in) + 1)
      BY <1>2, <1>5, <2>3
    <3>2. m[i] = Append(in, q)[Len(in) + 1]
      BY <1>3, <3>1
    <3> QED
      BY <1>1, <1>4, <2>3, <3>2
  <2> QED
    BY <1>2, <1>3, <1>5, <2>1, <2>2, <2>3
<1>7. Len(m) = Len(Append(l, q))
  BY <1>2, <1>3, <1>4
<1>8. m = Append(l, q)
  BY <1>3, <1>4, <1>6, <1>7, SeqEqual
<1> QED
  BY <1>8 DEF l, m

\* The server takes a request out of its input and puts it, answered, into its
\* output: the line stays.
LEMMA LineServed ==
  ASSUME NEW out \in Seq(Reply), NEW in \in Seq(Request), in # <<>>,
         NEW r \in Reply, r.request = Head(in)
  PROVE  LineOf(Append(out, r), Tail(in)) = LineOf(out, in)
<1> DEFINE l == LineOf(out, in)
           m == LineOf(Append(out, r), Tail(in))
           n == Len(out)
<1>1. /\ Append(out, r) \in Seq(Reply) /\ Len(Append(out, r)) = n + 1
      /\ \A i \in 1..n : Append(out, r)[i] = out[i]
      /\ Append(out, r)[n + 1] = r
  BY AppendProperties
<1>2. /\ Tail(in) \in Seq(Request) /\ Len(Tail(in)) = Len(in) - 1 /\ Len(in) \in Nat \ {0}
      /\ Head(in) = in[1] /\ \A i \in 1..(Len(in) - 1) : Tail(in)[i] = in[i + 1]
  BY TailProperties
<1>3. n \in Nat /\ Len(in) - 1 \in Nat
  BY <1>2
<1>4. /\ l \in Seq(Request) /\ Len(l) = n + Len(in)
      /\ \A i \in 1..(n + Len(in)) : l[i] = IF i <= n THEN out[i].request ELSE in[i - n]
  BY LineProperties
<1>5. /\ m \in Seq(Request) /\ Len(m) = n + Len(in)
      /\ \A i \in 1..(n + Len(in)) :
           m[i] = IF i <= n + 1 THEN Append(out, r)[i].request ELSE Tail(in)[i - (n + 1)]
  <2>1. (n + 1) + (Len(in) - 1) = n + Len(in)
    BY <1>2, <1>3
  <2>2. /\ m \in Seq(Request) /\ Len(m) = Len(Append(out, r)) + Len(Tail(in))
        /\ \A i \in 1..(Len(Append(out, r)) + Len(Tail(in))) :
             m[i] = IF i <= Len(Append(out, r)) THEN Append(out, r)[i].request
                    ELSE Tail(in)[i - Len(Append(out, r))]
    BY <1>1, <1>2, LineProperties
  <2> HIDE DEF m, n
  <2> QED
    BY <1>1, <1>2, <2>1, <2>2
<1> HIDE DEF l, m
<1>6. ASSUME NEW i \in 1..(n + Len(in)) PROVE m[i] = l[i]
  <2> HIDE DEF n
  <2>1. CASE i <= n
    <3>1. i \in 1..n /\ i <= n + 1
      BY <1>3, <2>1
    <3> QED
      BY <1>1, <1>4, <1>5, <2>1, <3>1
  <2>2. CASE i = n + 1
    <3>1. i - n = 1 /\ ~(i <= n) /\ i <= n + 1
      BY <1>3, <2>2
    <3> QED
      BY <1>1, <1>2, <1>4, <1>5, <2>2, <3>1
  <2>3. CASE i > n + 1
    <3>1. /\ i - (n + 1) \in 1..(Len(in) - 1) /\ (i - (n + 1)) + 1 = i - n
          /\ ~(i <= n) /\ ~(i <= n + 1)
      BY <1>2, <1>3, <2>3
    <3> QED
      BY <1>2, <1>4, <1>5, <3>1
  <2> QED
    BY <1>3, <2>1, <2>2, <2>3
<1>7. m = l
  BY <1>4, <1>5, <1>6, SeqEqual
<1> QED
  BY <1>7 DEF l, m

\* Emacs reads the answer to the first request of the line.
LEMMA LineRead ==
  ASSUME NEW out \in Seq(Reply), NEW in \in Seq(Request), out # <<>>
  PROVE  /\ LineOf(out, in) # <<>> /\ LineOf(out, in)[1] = Head(out).request
         /\ LineOf(Tail(out), in) = Tail(LineOf(out, in))
<1> DEFINE l == LineOf(out, in)
           m == LineOf(Tail(out), in)
           n == Len(out)
<1>1. /\ Tail(out) \in Seq(Reply) /\ Len(Tail(out)) = n - 1 /\ n \in Nat \ {0}
      /\ Head(out) = out[1] /\ \A i \in 1..(n - 1) : Tail(out)[i] = out[i + 1]
  BY TailProperties
<1>2. /\ l \in Seq(Request) /\ Len(l) = n + Len(in)
      /\ \A i \in 1..(n + Len(in)) : l[i] = IF i <= n THEN out[i].request ELSE in[i - n]
  BY LineProperties
<1>3. /\ m \in Seq(Request) /\ Len(m) = (n - 1) + Len(in)
      /\ \A i \in 1..((n - 1) + Len(in)) :
           m[i] = IF i <= n - 1 THEN Tail(out)[i].request ELSE in[i - (n - 1)]
  <2>1. /\ m \in Seq(Request) /\ Len(m) = Len(Tail(out)) + Len(in)
        /\ \A i \in 1..(Len(Tail(out)) + Len(in)) :
             m[i] = IF i <= Len(Tail(out)) THEN Tail(out)[i].request
                    ELSE in[i - Len(Tail(out))]
    BY <1>1, LineProperties
  <2> HIDE DEF m, n
  <2> QED
    BY <1>1, <2>1
<1>4. Len(in) \in Nat
  OBVIOUS
<1> HIDE DEF l, m, n
<1>5. l # <<>> /\ l[1] = Head(out).request
  <2>1. Len(l) # 0 /\ 1 \in 1..(n + Len(in)) /\ 1 <= n
    BY <1>1, <1>2, <1>4
  <2> QED
    BY <1>1, <1>2, <2>1
<1>6. /\ Tail(l) \in Seq(Request) /\ Len(Tail(l)) = Len(l) - 1
      /\ \A i \in 1..(Len(l) - 1) : Tail(l)[i] = l[i + 1]
  BY <1>2, <1>5, TailProperties
<1>7. Len(l) - 1 = (n - 1) + Len(in)
  BY <1>1, <1>2, <1>4
<1>8. ASSUME NEW i \in 1..((n - 1) + Len(in)) PROVE m[i] = Tail(l)[i]
  <2>1. Tail(l)[i] = l[i + 1] /\ i + 1 \in 1..(n + Len(in))
    BY <1>1, <1>4, <1>6, <1>7
  <2>2. CASE i <= n - 1
    <3>1. i + 1 <= n /\ i \in 1..(n - 1)
      BY <1>1, <1>4, <2>2
    <3> QED
      BY <1>1, <1>2, <1>3, <2>1, <2>2, <3>1
  <2>3. CASE ~(i <= n - 1)
    <3>1. ~(i + 1 <= n) /\ (i + 1) - n = i - (n - 1)
      BY <1>1, <1>4, <2>3
    <3> QED
      BY <1>2, <1>3, <2>1, <2>3, <3>1
  <2> QED
    BY <2>2, <2>3
<1>9. m = Tail(l)
  BY <1>3, <1>6, <1>7, <1>8, SeqEqual
<1> QED
  BY <1>5, <1>9 DEF l, m

\* Lisp code asks and waits: its frame and its request come last.
LEMMA OrderlyCall ==
  ASSUME NEW fr \in Seq(Frame), NEW line \in Seq(Request), NEW f \in Frame, NEW q \in Request,
         FramesOrderly(fr), LineOrderly(fr, line), Len(fr) < MaxFrames,
         Named(f), f.op # "atomic", f.answer = None,
         q.op = f.op, q.page = f.page, q.by = Len(fr) + 1
  PROVE  FramesOrderly(Append(fr, f)) /\ LineOrderly(Append(fr, f), Append(line, q))
<1> DEFINE n == Len(fr)
           m == Len(line)
           fs == Append(fr, f)
           l == Append(line, q)
<1>1. /\ fs \in Seq(Frame) /\ Len(fs) = n + 1 /\ n \in Nat
      /\ \A k \in 1..n : fs[k] = fr[k]
      /\ fs[n + 1] = f
  BY AppendProperties
<1>2. /\ l \in Seq(Request) /\ Len(l) = m + 1 /\ m \in Nat
      /\ \A i \in 1..m : l[i] = line[i]
      /\ l[m + 1] = q
  BY AppendProperties
<1>3. DOMAIN fr = 1..n /\ DOMAIN fs = 1..(n + 1) /\ DOMAIN line = 1..m /\ DOMAIN l = 1..(m + 1)
  BY <1>1, <1>2
<1> HIDE DEF n, m, fs, l
<1>4. FramesOrderly(fs)
  <2> SUFFICES ASSUME NEW k \in 1..(n + 1)
               PROVE  /\ IF fs[k].op = "atomic" THEN k = 1 /\ fs[k].answer = None ELSE k <= MaxFrames
                      /\ Named(fs[k])
                      /\ fs[k].answer # None => Replied(fs[k], fs[k].answer)
    BY <1>3 DEF FramesOrderly
  <2>1. CASE k \in 1..n
    BY <1>1, <1>3, <2>1 DEF FramesOrderly
  <2>2. CASE k = n + 1
    BY <1>1, <2>2, CacheAssumption DEF n
  <2> QED
    BY <1>1, <2>1, <2>2
<1>5. \A i \in 1..m : line[i].by # 0 => line[i].by \in 1..n /\ line[i].by < n + 1
  BY <1>1, <1>3 DEF LineOrderly
<1>6. \A k \in 1..(n + 1) : fs[k].answer # None => k \in 1..n /\ fr[k].answer # None /\ k < n + 1
  BY <1>1
<1>7. LineOrderly(fs, l)
  <2> SUFFICES ASSUME NEW i \in 1..(m + 1)
               PROVE  /\ Named(l[i])
                      /\ l[i].by = 0 => l[i].op = "render"
                      /\ l[i].by # 0 =>
                           /\ l[i].by \in 1..(n + 1)
                           /\ fs[l[i].by].op = l[i].op /\ fs[l[i].by].page = l[i].page
                           /\ \A k \in 1..(n + 1) : fs[k].answer # None => k < l[i].by
                           /\ \A j \in 1..(m + 1) : i < j /\ l[j].by # 0 => l[i].by < l[j].by
    BY <1>3 DEF LineOrderly
  <2>1. CASE i \in 1..m
    <3>1. l[i] = line[i]
      BY <1>2, <2>1
    <3>2. /\ Named(line[i])
          /\ line[i].by = 0 => line[i].op = "render"
      BY <1>3, <2>1 DEF LineOrderly
    <3>3. ASSUME line[i].by # 0
          PROVE  /\ line[i].by \in 1..(n + 1)
                 /\ fs[line[i].by].op = line[i].op /\ fs[line[i].by].page = line[i].page
                 /\ \A k \in 1..(n + 1) : fs[k].answer # None => k < line[i].by
                 /\ \A j \in 1..(m + 1) : i < j /\ l[j].by # 0 => line[i].by < l[j].by
      <4>1. line[i].by \in 1..n /\ line[i].by < n + 1
        BY <1>5, <2>1, <3>3
      <4>2. fs[line[i].by] = fr[line[i].by]
        BY <1>1, <4>1
      <4>3. fr[line[i].by].op = line[i].op /\ fr[line[i].by].page = line[i].page
        BY <1>3, <2>1, <3>3 DEF LineOrderly
      <4>4. \A k \in 1..n : fr[k].answer # None => k < line[i].by
        BY <1>3, <2>1, <3>3 DEF LineOrderly
      <4>5. \A j \in 1..m : i < j /\ line[j].by # 0 => line[i].by < line[j].by
        BY <1>3, <2>1, <3>3 DEF LineOrderly
      <4>6. \A j \in 1..(m + 1) : i < j /\ l[j].by # 0 => line[i].by < l[j].by
        <5> SUFFICES ASSUME NEW j \in 1..(m + 1), i < j, l[j].by # 0
                     PROVE  line[i].by < l[j].by
          OBVIOUS
        <5>1. CASE j \in 1..m
          BY <1>2, <4>5, <5>1
        <5>2. CASE j = m + 1
          BY <1>2, <4>1, <5>2 DEF n
        <5> QED
          BY <1>2, <5>1, <5>2
      <4> QED
        BY <1>1, <1>6, <4>1, <4>2, <4>3, <4>4, <4>6
    <3> QED
      BY <3>1, <3>2, <3>3
  <2>2. CASE i = m + 1
    <3>1. l[i] = q /\ q.by = n + 1 /\ q.by # 0
      BY <1>1, <1>2, <2>2 DEF n
    <3>2. Named(q)
      BY DEF Named
    <3>3. \A k \in 1..(n + 1) : fs[k].answer # None => k < q.by
      BY <1>6, <3>1
    <3>4. \A j \in 1..(m + 1) : ~(i < j)
      BY <1>2, <2>2
    <3>5. q.by \in 1..(n + 1) /\ fs[q.by] = f
      BY <1>1, <3>1
    <3> QED
      BY <3>1, <3>2, <3>3, <3>4, <3>5
  <2> QED
    BY <1>2, <2>1, <2>2
<1> QED
  BY <1>4, <1>7 DEF fs, l

\* A prefetch joins the line.
LEMMA OrderlyPrefetch ==
  ASSUME NEW fr \in Seq(Frame), NEW line \in Seq(Request), NEW q \in Request,
         LineOrderly(fr, line), Named(q), q.op = "render", q.by = 0
  PROVE  LineOrderly(fr, Append(line, q))
<1> DEFINE m == Len(line)
           l == Append(line, q)
<1>1. /\ l \in Seq(Request) /\ Len(l) = m + 1 /\ m \in Nat
      /\ \A i \in 1..m : l[i] = line[i]
      /\ l[m + 1] = q
  BY AppendProperties
<1>2. DOMAIN line = 1..m /\ DOMAIN l = 1..(m + 1)
  BY <1>1
<1> HIDE DEF m, l
<1> SUFFICES ASSUME NEW i \in 1..(m + 1)
             PROVE  /\ Named(l[i])
                    /\ l[i].by = 0 => l[i].op = "render"
                    /\ l[i].by # 0 =>
                         /\ l[i].by \in DOMAIN fr
                         /\ fr[l[i].by].op = l[i].op /\ fr[l[i].by].page = l[i].page
                         /\ \A k \in DOMAIN fr : fr[k].answer # None => k < l[i].by
                         /\ \A j \in 1..(m + 1) : i < j /\ l[j].by # 0 => l[i].by < l[j].by
  BY <1>2 DEF LineOrderly, l
<1>3. CASE i \in 1..m
  <2>1. \A j \in 1..(m + 1) : l[j].by # 0 => j \in 1..m /\ l[j] = line[j]
    <3> SUFFICES ASSUME NEW j \in 1..(m + 1), j \notin 1..m PROVE l[j].by = 0
      BY <1>1
    <3>1. j = m + 1
      BY <1>1
    <3> QED
      BY <1>1, <3>1
  <2>2. l[i] = line[i] /\ i \in DOMAIN line
    BY <1>1, <1>2, <1>3
  <2>3. Named(line[i]) /\ (line[i].by = 0 => line[i].op = "render")
    BY <2>2 DEF LineOrderly
  <2>4. ASSUME line[i].by # 0
        PROVE  /\ line[i].by \in DOMAIN fr
               /\ fr[line[i].by].op = line[i].op /\ fr[line[i].by].page = line[i].page
               /\ \A k \in DOMAIN fr : fr[k].answer # None => k < line[i].by
               /\ \A j \in 1..m : i < j /\ line[j].by # 0 => line[i].by < line[j].by
    BY <1>2, <2>2, <2>4 DEF LineOrderly
  <2> QED
    BY <2>1, <2>2, <2>3, <2>4
<1>4. CASE i = m + 1
  BY <1>1, <1>4
<1> QED
  BY <1>1, <1>3, <1>4

\* When the code on top has its answer, or is a drag, only prefetches are in the line.
LEMMA QuietLine ==
  ASSUME NEW fr \in Seq(Frame), NEW line \in Seq(Request),
         FramesOrderly(fr), LineOrderly(fr, line), fr # <<>>,
         Last(fr).answer # None \/ Last(fr).op = "atomic"
  PROVE  \A i \in DOMAIN line : line[i].by = 0
<1> SUFFICES ASSUME NEW i \in DOMAIN line, line[i].by # 0 PROVE FALSE
  OBVIOUS
<1>1. Last(fr) = fr[Len(fr)] /\ Len(fr) \in Nat \ {0} /\ Len(fr) \in DOMAIN fr
  <2>1. Last(fr) = fr[Len(fr)] /\ Len(fr) \in Nat \ {0}
    BY FrontProperties
  <2> QED
    BY <2>1
<1>2. line[i].by \in 1..Len(fr) /\ fr[line[i].by].op = line[i].op
  BY DEF LineOrderly
<1>3. CASE Last(fr).answer # None
  BY <1>1, <1>2, <1>3 DEF LineOrderly
<1>4. CASE Last(fr).op = "atomic"
  <2>1. Len(fr) = 1
    BY <1>1, <1>4 DEF FramesOrderly
  <2>2. line[i].op = "atomic"
    BY <1>1, <1>2, <1>4, <2>1
  <2>3. line[i] \in Request
    OBVIOUS
  <2> QED
    BY <2>2, <2>3 DEF Request
<1> QED
  BY <1>3, <1>4

\* Code that nobody answers any more ends.
LEMMA OrderlyPop ==
  ASSUME NEW fr \in Seq(Frame), NEW line \in Seq(Request),
         FramesOrderly(fr), LineOrderly(fr, line), fr # <<>>,
         \A i \in DOMAIN line : line[i].by = 0
  PROVE  FramesOrderly(Front(fr)) /\ LineOrderly(Front(fr), line)
<1>1. /\ Front(fr) \in Seq(Frame) /\ Len(Front(fr)) = Len(fr) - 1 /\ Len(fr) \in Nat \ {0}
      /\ \A k \in 1..(Len(fr) - 1) : Front(fr)[k] = fr[k]
  BY FrontProperties
<1>2. DOMAIN Front(fr) = 1..(Len(fr) - 1) /\ \A k \in 1..(Len(fr) - 1) : k \in DOMAIN fr
  BY <1>1
<1> QED
  BY <1>1, <1>2 DEF FramesOrderly, LineOrderly

\* The first answer is read.
LEMMA OrderlyRead ==
  ASSUME NEW fr \in Seq(Frame), NEW line \in Seq(Request), line # <<>>, LineOrderly(fr, line)
  PROVE  LineOrderly(fr, Tail(line))
<1>1. /\ Tail(line) \in Seq(Request) /\ Len(Tail(line)) = Len(line) - 1 /\ Len(line) \in Nat \ {0}
      /\ \A i \in 1..(Len(line) - 1) : Tail(line)[i] = line[i + 1]
  BY TailProperties
<1>2. DOMAIN Tail(line) = 1..(Len(line) - 1)
  BY <1>1
<1>3. \A i \in 1..(Len(line) - 1) : i + 1 \in DOMAIN line
  BY <1>1
<1>4. \A i, j \in 1..(Len(line) - 1) : i < j => i + 1 < j + 1
  BY <1>1
<1> QED
  BY <1>1, <1>2, <1>3, <1>4 DEF LineOrderly

\* The first answer goes to the code that waits for it.
LEMMA OrderlyAnswer ==
  ASSUME NEW fr \in Seq(Frame), NEW line \in Seq(Request), NEW a \in Answer,
         line # <<>>, FramesOrderly(fr), LineOrderly(fr, line), line[1].by # 0,
         Replied(line[1], a)
  PROVE  LET fs == [fr EXCEPT ![line[1].by].answer = a]
         IN  /\ fs \in Seq(Frame) /\ Len(fs) = Len(fr)
             /\ FramesOrderly(fs) /\ LineOrderly(fs, Tail(line))
<1> DEFINE k == line[1].by
           f == [fr[k] EXCEPT !.answer = a]
           fs == [fr EXCEPT ![k].answer = a]
<1>1. /\ Tail(line) \in Seq(Request) /\ Len(Tail(line)) = Len(line) - 1 /\ Len(line) \in Nat \ {0}
      /\ \A i \in 1..(Len(line) - 1) : Tail(line)[i] = line[i + 1]
  BY TailProperties
<1>2. 1 \in DOMAIN line /\ line[1] \in Request
  BY <1>1
<1>3. k \in DOMAIN fr /\ fr[k].op = line[1].op /\ fr[k].page = line[1].page /\ k # 0
  BY <1>2 DEF LineOrderly
<1>4. /\ f \in Frame /\ f.answer = a /\ f.op = fr[k].op /\ f.page = fr[k].page
  <2>1. fr[k] \in Frame
    BY <1>3
  <2> QED
    BY <2>1 DEF Frame
<1>5. fs = [fr EXCEPT ![k] = f]
  OBVIOUS
<1>6. /\ fs \in Seq(Frame) /\ Len(fs) = Len(fr) /\ DOMAIN fs = DOMAIN fr /\ fs[k] = f
      /\ \A j \in DOMAIN fr : j # k => fs[j] = fr[j]
  <2> HIDE DEF f, fs, k
  <2>1. /\ [fr EXCEPT ![k] = f] \in Seq(Frame)
        /\ Len([fr EXCEPT ![k] = f]) = Len(fr)
        /\ \A j \in 1..Len(fr) : [fr EXCEPT ![k] = f][j] = IF j = k THEN f ELSE fr[j]
    BY <1>3, <1>4, ExceptSeq
  <2> QED
    BY <1>3, <1>5, <2>1
<1> HIDE DEF f, fs
<1>7. f.op # "atomic"
  BY <1>2, <1>3, <1>4 DEF Request
<1>8. FramesOrderly(fs)
  <2> SUFFICES ASSUME NEW j \in DOMAIN fr
               PROVE  /\ IF fs[j].op = "atomic" THEN j = 1 /\ fs[j].answer = None ELSE j <= MaxFrames
                      /\ Named(fs[j])
                      /\ fs[j].answer # None => Replied(fs[j], fs[j].answer)
    BY <1>6 DEF FramesOrderly
  <2>1. CASE j # k
    BY <1>6, <2>1 DEF FramesOrderly
  <2>2. CASE j = k
    <3>1. Named(f)
      BY <1>3, <1>4 DEF FramesOrderly, Named
    <3>2. Replied(f, a)
      BY <1>3, <1>4 DEF Replied
    <3>3. k <= MaxFrames
      BY <1>3, <1>4, <1>7 DEF FramesOrderly
    <3> QED
      BY <1>4, <1>6, <1>7, <2>2, <3>1, <3>2, <3>3
  <2> QED
    BY <2>1, <2>2
<1>9. LineOrderly(fs, Tail(line))
  <2>0. DOMAIN Tail(line) = 1..(Len(line) - 1) /\ DOMAIN fs = DOMAIN fr
    BY <1>1, <1>6
  <2> SUFFICES ASSUME NEW i \in 1..(Len(line) - 1)
               PROVE  /\ Named(Tail(line)[i])
                      /\ Tail(line)[i].by = 0 => Tail(line)[i].op = "render"
                      /\ Tail(line)[i].by # 0 =>
                           /\ Tail(line)[i].by \in DOMAIN fs
                           /\ fs[Tail(line)[i].by].op = Tail(line)[i].op
                           /\ fs[Tail(line)[i].by].page = Tail(line)[i].page
                           /\ \A j \in DOMAIN fs : fs[j].answer # None => j < Tail(line)[i].by
                           /\ \A j \in DOMAIN Tail(line) :
                                i < j /\ Tail(line)[j].by # 0 => Tail(line)[i].by < Tail(line)[j].by
    BY <2>0 DEF LineOrderly
  <2> DEFINE r == line[i + 1]
  <2>1. i + 1 \in DOMAIN line /\ 1 < i + 1
    BY <1>1
  <2>2. Named(r) /\ (r.by = 0 => r.op = "render")
    BY <2>1 DEF LineOrderly
  <2>3. ASSUME r.by # 0
        PROVE  /\ r.by \in DOMAIN fr
               /\ fs[r.by].op = r.op /\ fs[r.by].page = r.page
               /\ \A j \in DOMAIN fr : fs[j].answer # None => j < r.by
    <3>1. k < r.by
      BY <1>2, <1>3, <2>1, <2>3 DEF LineOrderly
    <3>2. /\ r.by \in DOMAIN fr
          /\ fr[r.by].op = r.op /\ fr[r.by].page = r.page
          /\ \A j \in DOMAIN fr : fr[j].answer # None => j < r.by
      BY <2>1, <2>3 DEF LineOrderly
    <3>3. r.by # k
      BY <1>3, <3>1, <3>2
    <3>4. fs[r.by] = fr[r.by]
      BY <1>6, <3>2, <3>3
    <3> QED
      BY <1>6, <3>1, <3>2, <3>4
  <2>4. ASSUME r.by # 0, NEW j \in 1..(Len(line) - 1), i < j, line[j + 1].by # 0
        PROVE  r.by < line[j + 1].by
    <3>1. j + 1 \in DOMAIN line /\ i + 1 < j + 1
      BY <1>1, <2>4
    <3> QED
      BY <2>1, <2>4, <3>1 DEF LineOrderly
  <2>5. Tail(line)[i] = r /\ \A j \in 1..(Len(line) - 1) : Tail(line)[j] = line[j + 1]
    BY <1>1
  <2> HIDE DEF r
  <2> QED
    BY <2>0, <2>2, <2>3, <2>4, <2>5
<1> QED
  BY <1>6, <1>8, <1>9 DEF fs

-----------------------------------------------------------------------------
(* What asking, ending and forgetting do.                                  *)

\* The types of the pipes and the frames, with their order.
Waiting == /\ stdin \in Seq(Request) /\ stdout \in Seq(Reply) /\ frames \in Seq(Frame)
           /\ Orderly

LEMMA NewFrameType ==
  ASSUME NEW op \in FrameOp, NEW p \in Page \cup {None}, NEW user \in BOOLEAN
  PROVE  /\ NewFrame(op, p, user) \in Frame /\ NewFrame(op, p, user).op = op
         /\ NewFrame(op, p, user).page = p /\ NewFrame(op, p, user).answer = None
BY DEF NewFrame, Frame

LEMMA QueryType ==
  ASSUME NEW op \in FrameOp, op # "atomic", NEW p \in Page \cup {None}, NEW by \in 0..MaxFrames
  PROVE  /\ Query(op, p, by) \in Request /\ Query(op, p, by).op = op
         /\ Query(op, p, by).page = p /\ Query(op, p, by).by = by
<1>1. ((op = "toggle") # midnight) \in BOOLEAN
  BY Zenon
<1> QED
  BY <1>1 DEF Query, Request

\* Asking, while the line is otherwise changed to that of out and in.
LEMMA Asking ==
  ASSUME NEW fr \in Seq(Frame), NEW out \in Seq(Reply), NEW in \in Seq(Request),
         FramesOrderly(fr), LineOrderly(fr, LineOf(out, in)), Len(fr) < MaxFrames,
         NEW o \in FrameOp, o # "atomic", NEW p \in Page \cup {None}, NEW u \in BOOLEAN,
         o \in {"render", "data", "edit"} => p \in Page,
         o = "save" => p = None
  PROVE  LET fs == Append(fr, NewFrame(o, p, u))
             is == Append(in, Query(o, p, Len(fr) + 1))
         IN  /\ fs \in Seq(Frame) /\ is \in Seq(Request)
             /\ FramesOrderly(fs) /\ LineOrderly(fs, LineOf(out, is))
<1> DEFINE f == NewFrame(o, p, u)
           q == Query(o, p, Len(fr) + 1)
<1>1. Len(fr) + 1 \in 0..MaxFrames
  BY CacheAssumption
<1>2. f \in Frame /\ f.op = o /\ f.page = p /\ f.answer = None
  BY DEF NewFrame, Frame
<1>3. q \in Request /\ q.op = o /\ q.page = p /\ q.by = Len(fr) + 1
  <2>1. ((o = "toggle") # midnight) \in BOOLEAN
    BY Zenon
  <2> QED
    BY <1>1, <2>1 DEF Query, Request
<1>4. Named(f)
  BY <1>2 DEF Named
<1>5. LineOf(out, in) \in Seq(Request)
  BY LineProperties
<1> HIDE DEF f, q
<1>6. FramesOrderly(Append(fr, f)) /\ LineOrderly(Append(fr, f), Append(LineOf(out, in), q))
  BY <1>2, <1>3, <1>4, <1>5, OrderlyCall
<1>7. LineOf(out, Append(in, q)) = Append(LineOf(out, in), q)
  BY <1>3, LineSent
<1>8. Append(fr, f) \in Seq(Frame) /\ Append(in, q) \in Seq(Request)
  BY <1>2, <1>3
<1> QED
  BY <1>6, <1>7, <1>8 DEF f, q

LEMMA CallWaiting ==
  ASSUME Waiting, NEW op \in FrameOp, op # "atomic", NEW p \in Page \cup {None},
         NEW user \in BOOLEAN, Call(op, p, user),
         op \in {"render", "data", "edit"} => p \in Page,
         op = "save" => p = None
  PROVE  Waiting'
<1>1. /\ FramesOrderly(frames) /\ LineOrderly(frames, LineOf(stdout, stdin))
      /\ Len(frames) < MaxFrames
  BY DEF Waiting, Orderly, Line, Call
<1>2. /\ frames' \in Seq(Frame) /\ stdin' \in Seq(Request)
      /\ FramesOrderly(frames') /\ LineOrderly(frames', LineOf(stdout, stdin'))
  BY <1>1, Asking DEF Waiting, Call
<1>3. stdout' = stdout
  BY DEF Call
<1> QED
  BY <1>2, <1>3 DEF Waiting, Orderly, Line

\* The code on top has its answer, or is a drag.
Ending == frames # <<>> /\ (Top.answer # None \/ Top.op = "atomic")

LEMMA PopWaiting ==
  ASSUME Waiting, Ending, frames' = Front(frames), UNCHANGED pipes
  PROVE  Waiting'
<1>1. UNCHANGED stdin /\ UNCHANGED stdout
  BY DEF pipes
<1>2. Line \in Seq(Request) /\ Line' = Line
  BY <1>1, LineProperties DEF Waiting, Line
<1>3. \A i \in DOMAIN Line : Line[i].by = 0
  BY <1>2, QuietLine DEF Waiting, Orderly, Ending, Top
<1>4. FramesOrderly(Front(frames)) /\ LineOrderly(Front(frames), Line)
  BY <1>2, <1>3, OrderlyPop DEF Waiting, Orderly, Ending
<1>5. Front(frames) \in Seq(Frame)
  BY FrontProperties DEF Waiting, Ending
<1> QED
  BY <1>1, <1>2, <1>4, <1>5 DEF Waiting, Orderly

LEMMA PopTwiceWaiting ==
  ASSUME Waiting, Ending, Len(frames) > 1, frames' = Front(Front(frames)), UNCHANGED pipes
  PROVE  Waiting'
<1>1. UNCHANGED stdin /\ UNCHANGED stdout
  BY DEF pipes
<1>2. Line \in Seq(Request) /\ Line' = Line
  BY <1>1, LineProperties DEF Waiting, Line
<1>3. \A i \in DOMAIN Line : Line[i].by = 0
  BY <1>2, QuietLine DEF Waiting, Orderly, Ending, Top
<1>4. FramesOrderly(Front(frames)) /\ LineOrderly(Front(frames), Line)
  BY <1>2, <1>3, OrderlyPop DEF Waiting, Orderly, Ending
<1>5. Front(frames) \in Seq(Frame) /\ Front(frames) # <<>>
  <2> DEFINE fs == Front(frames)
  <2>1. fs \in Seq(Frame) /\ Len(fs) = Len(frames) - 1 /\ Len(frames) \in Nat
    BY FrontProperties DEF Waiting, Ending
  <2> HIDE DEF fs
  <2>2. Len(fs) # 0
    <3>1. ASSUME NEW n \in Nat, n > 1 PROVE n - 1 # 0
      BY <3>1
    <3>2. Len(frames) - 1 # 0
      BY <2>1, <3>1
    <3> QED
      BY <2>1, <3>2
  <2>3. fs \in Seq(Frame) /\ fs # <<>>
    BY <2>1, <2>2
  <2> QED
    BY <2>3 DEF fs
<1>6. FramesOrderly(Front(Front(frames))) /\ LineOrderly(Front(Front(frames)), Line)
  BY <1>2, <1>3, <1>4, <1>5, OrderlyPop
<1>7. Front(Front(frames)) \in Seq(Frame)
  BY <1>5, FrontProperties
<1> QED
  BY <1>1, <1>2, <1>6, <1>7 DEF Waiting, Orderly

LEMMA GoOnWaiting ==
  ASSUME Waiting, frames # <<>>, Top.answer # None, NEW op \in {"close", "enable"}, GoOn(op),
         UNCHANGED stdout
  PROVE  Waiting'
<1> DEFINE fr == Front(frames)
<1>1. /\ fr \in Seq(Frame) /\ Len(fr) = Len(frames) - 1 /\ Len(frames) \in Nat \ {0}
      /\ Top = frames[Len(frames)] /\ Top \in Frame
  BY FrontProperties DEF Waiting, Top
<1>2. Line \in Seq(Request)
  BY LineProperties DEF Waiting, Line
<1>3. \A i \in DOMAIN Line : Line[i].by = 0
  BY <1>2, QuietLine DEF Waiting, Orderly, Top
<1>4. FramesOrderly(fr) /\ LineOrderly(fr, Line)
  BY <1>2, <1>3, OrderlyPop DEF Waiting, Orderly
<1>5. Len(frames) <= MaxFrames
  <2>1. Len(frames) \in DOMAIN frames
    BY <1>1 DEF Waiting
  <2>2. FramesOrderly(frames)
    BY DEF Waiting, Orderly
  <2> QED
    BY <1>1, <2>1, <2>2 DEF FramesOrderly
<1>6. Len(fr) < MaxFrames /\ Len(fr) + 1 = Len(frames)
  BY <1>1, <1>5, CacheAssumption
<1>7. Top.user \in BOOLEAN /\ op \in FrameOp /\ op # "atomic"
  BY <1>1 DEF Frame, FrameOp
<1>8. frames' = Append(fr, NewFrame(op, None, Top.user))
      /\ stdin' = Append(stdin, Query(op, None, Len(fr) + 1))
  BY <1>6 DEF GoOn
<1> HIDE DEF fr
<1>9. /\ frames' \in Seq(Frame) /\ stdin' \in Seq(Request)
      /\ FramesOrderly(frames') /\ LineOrderly(frames', LineOf(stdout, stdin'))
  BY <1>1, <1>4, <1>6, <1>7, <1>8, Asking DEF Waiting, Line
<1> QED
  BY <1>9 DEF Waiting, Orderly, Line

\* Where and how the images are known to be.
Images == images \in Seq(Image) /\ Len(images) <= Limit
Facts == data \in [Page -> Version \cup {None}]

\* No image is there that was not there before.
OnlyOld == \A i \in DOMAIN images' : \E j \in DOMAIN images : images'[i] = images[j]

LEMMA ForgetProperties ==
  ASSUME Images, Facts, NEW S, Forget(S)
  PROVE  /\ Images' /\ Facts' /\ OnlyOld
         /\ \A i \in DOMAIN images' : images'[i].page \notin S
         /\ \A p \in Page : data'[p] = IF p \in S THEN None ELSE data[p]
<1>1. images' = Without(S)
  BY DEF Forget
<1>2. Len(images) \in Nat /\ Limit \in Nat /\ Len(Without(S)) \in Nat
  BY CacheAssumption, WithoutProperties DEF Images
<1>3. Images' /\ OnlyOld /\ \A i \in DOMAIN images' : images'[i].page \notin S
  BY <1>1, <1>2, WithoutProperties DEF Images, OnlyOld
<1> QED
  BY <1>3 DEF Facts, Forget
-----------------------------------------------------------------------------
(* Types, the order of the line and the bound of the cache: every action.  *)

Plain == /\ clock \in Version /\ disk \in Content /\ changed \in BOOLEAN
         /\ doc \in Document \cup {None}
         /\ modified \in BOOLEAN /\ delayed \subseteq Page /\ midnight \in BOOLEAN
         /\ prefetch \subseteq Page /\ timers \in Nat

LEMMA Parts == SInv <=> Waiting /\ Images /\ Facts /\ Plain
BY DEF SInv, TypeOK, ImagesBounded, Waiting, Images, Facts, Plain

LEMMA PartsNext == SInv' <=> Waiting' /\ Images' /\ Facts' /\ Plain'
BY DEF SInv, TypeOK, ImagesBounded, Waiting, Images, Facts, Plain

LEMMA StaysWaiting ==
  ASSUME Waiting, UNCHANGED <<stdin, stdout, frames>>
  PROVE  Waiting'
BY DEF Waiting, Orderly, FramesOrderly, LineOrderly, RepliesOrderly, Line, LineOf

LEMMA StaysCached ==
  ASSUME Images, Facts, UNCHANGED caches
  PROVE  Images' /\ Facts'
BY DEF Images, Facts, caches

\* The code on top, and the answer it has.
LEMMA TopProperties ==
  ASSUME Waiting, frames # <<>>
  PROVE  /\ Top = frames[Len(frames)] /\ Top \in Frame /\ Named(Top)
         /\ Len(frames) \in Nat \ {0} /\ Len(frames) \in DOMAIN frames
         /\ Top.answer # None => Top.answer \in Answer /\ Replied(Top, Top.answer)
<1>1. Top = frames[Len(frames)] /\ Len(frames) \in Nat \ {0} /\ Top \in Frame
  BY FrontProperties DEF Waiting, Top
<1>2. Len(frames) \in DOMAIN frames
  BY <1>1 DEF Waiting
<1>3. /\ Named(frames[Len(frames)])
      /\ frames[Len(frames)].answer # None => Replied(frames[Len(frames)], frames[Len(frames)].answer)
  BY <1>2 DEF Waiting, Orderly, FramesOrderly
<1> QED
  BY <1>1, <1>2, <1>3 DEF Frame

LEMMA OpenedType ==
  ASSUME Plain
  PROVE  /\ Opened \in Document /\ Opened.pages \in Content /\ Opened.dark \in BOOLEAN
BY DEF Plain, Opened, Document

LEMMA ReadSafe ==
  ASSUME SInv, NEW op \in {"render", "data"}, NEW p \in Page, Read(op, p)
  PROVE  SInv'
<1>1. PICK user \in BOOLEAN :
        /\ IF user THEN PreCommand ELSE UNCHANGED fetching
        /\ UNCHANGED <<buffer, caches>>
        /\ Call(op, p, user)
  BY DEF Read
<1>2. Waiting /\ Images /\ Facts /\ Plain
  BY Parts
<1>3. op \in FrameOp /\ op # "atomic" /\ op # "save"
  BY DEF FrameOp
<1>4. Waiting'
  BY <1>1, <1>2, <1>3, CallWaiting
<1>5. Images' /\ Facts'
  BY <1>1, <1>2, StaysCached
<1>6. Plain'
  BY <1>1, <1>2 DEF Plain, PreCommand, fetching, buffer, Call, server
<1> QED
  BY <1>4, <1>5, <1>6, PartsNext

LEMMA RenderPageSafe ==
  ASSUME SInv, NEW p \in Page, RenderPage(p)
  PROVE  SInv'
<1>1. CASE Read("render", p)
  BY <1>1, ReadSafe
<1>2. CASE /\ Cached(p)
           /\ images' = Used(p)
           /\ UNCHANGED <<server, pipes, frames, data, buffer, fetching>>
  <2>1. Waiting /\ Images /\ Facts /\ Plain
    BY Parts
  <2>2. Waiting'
    BY <1>2, <2>1, StaysWaiting DEF pipes
  <2>3. Images' /\ Facts'
    BY <1>2, <2>1, UsedProperties DEF Images, Facts
  <2>4. Plain'
    BY <1>2, <2>1 DEF Plain, fetching, buffer, server
  <2> QED
    BY <2>2, <2>3, <2>4, PartsNext
<1> QED
  BY <1>1, <1>2 DEF RenderPage

LEMMA EditSafe ==
  ASSUME SInv, NEW p \in Page, Edit(p)
  PROVE  SInv'
<1>1. Waiting /\ Images /\ Facts /\ Plain
  BY Parts
<1>2. Waiting'
  BY <1>1, CallWaiting DEF Edit, FrameOp
<1>3. Images' /\ Facts'
  BY <1>1, StaysCached DEF Edit
<1>4. Plain'
  BY <1>1 DEF Plain, Edit, PreCommand, fetching, buffer, Call, server
<1> QED
  BY <1>2, <1>3, <1>4, PartsNext

LEMMA BeginAtomicSafe ==
  ASSUME SInv, BeginAtomic
  PROVE  SInv'
<1> DEFINE f == NewFrame("atomic", None, TRUE)
<1>1. Waiting /\ Images /\ Facts /\ Plain
  BY Parts
<1>2. f \in Frame /\ f.op = "atomic" /\ f.page = None /\ f.answer = None
  BY DEF NewFrame, Frame, FrameOp
<1>3. frames = <<>> /\ frames' = <<f>> /\ UNCHANGED stdin /\ UNCHANGED stdout
  BY DEF BeginAtomic, PreCommand, CommandLoop, pipes
<1> HIDE DEF f
<1>4. /\ <<f>> \in Seq(Frame) /\ DOMAIN <<f>> = {1} /\ <<f>>[1] = f
      /\ DOMAIN frames = {}
  BY <1>2, <1>3
<1>5. FramesOrderly(<<f>>)
  BY <1>2, <1>4 DEF FramesOrderly, Named
<1>6. LineOrderly(<<f>>, Line)
  <2>1. \A i \in DOMAIN Line : Line[i].by = 0 /\ Named(Line[i]) /\ Line[i].op = "render"
    BY <1>1, <1>4 DEF Waiting, Orderly, LineOrderly
  <2> QED
    BY <2>1 DEF LineOrderly
<1>7. Waiting'
  <2>1. Line' = Line
    BY <1>3 DEF Line
  <2> QED
    BY <1>1, <1>3, <1>4, <1>5, <1>6, <2>1 DEF Waiting, Orderly
<1>8. Images' /\ Facts'
  BY <1>1, StaysCached DEF BeginAtomic
<1>9. Plain'
  BY <1>1 DEF Plain, BeginAtomic, PreCommand, buffer, server
<1> QED
  BY <1>7, <1>8, <1>9, PartsNext

LEMMA EndAtomicSafe ==
  ASSUME SInv, EndAtomic
  PROVE  SInv'
<1>1. Waiting /\ Images /\ Facts /\ Plain
  BY Parts
<1>2. Ending /\ frames' = Front(frames) /\ UNCHANGED pipes
  BY DEF EndAtomic, Dragging, Ending
<1>3. Waiting'
  BY <1>1, <1>2, PopWaiting
<1>4. Images' /\ Facts'
  BY <1>1, ForgetProperties DEF EndAtomic
<1>5. Plain'
  BY <1>1 DEF Plain, EndAtomic, fetching, server
<1> QED
  BY <1>3, <1>4, <1>5, PartsNext

LEMMA SaveSafe ==
  ASSUME SInv, Save
  PROVE  SInv'
<1>1. Waiting /\ Images /\ Facts /\ Plain
  BY Parts
<1>2. Waiting'
  BY <1>1, CallWaiting DEF Save, FrameOp
<1>3. Images' /\ Facts'
  BY <1>1, StaysCached DEF Save
<1>4. Plain'
  BY <1>1 DEF Plain, Save, PreCommand, buffer, Call, server
<1> QED
  BY <1>2, <1>3, <1>4, PartsNext

LEMMA RevertSafe ==
  ASSUME SInv, Revert
  PROVE  SInv'
<1>1. Waiting /\ Images /\ Facts /\ Plain
  BY Parts
<1>2. PICK user \in BOOLEAN : Call("close", None, user)
  BY DEF Revert
<1>3. Waiting'
  BY <1>1, <1>2, CallWaiting DEF FrameOp
<1>4. Images' /\ Facts'
  BY <1>1, StaysCached DEF Revert
<1>5. Plain'
  BY <1>1 DEF Plain, Revert, PreCommand, Call, fetching, server
<1> QED
  BY <1>3, <1>4, <1>5, PartsNext

LEMMA ToggleSafe ==
  ASSUME SInv, ToggleMidnight
  PROVE  SInv'
<1>1. Waiting /\ Images /\ Facts /\ Plain
  BY Parts
<1>2. Waiting'
  BY <1>1, CallWaiting DEF ToggleMidnight, FrameOp
<1>3. Images' /\ Facts'
  BY <1>1, StaysCached DEF ToggleMidnight
<1>4. Plain'
  <2>1. midnight' \in BOOLEAN
    BY DEF ToggleMidnight
  <2> QED
    BY <1>1, <2>1 DEF Plain, ToggleMidnight, PreCommand, Call, server
<1> QED
  BY <1>2, <1>3, <1>4, PartsNext

LEMMA RenderReturnsSafe ==
  ASSUME SInv, frames # <<>>, Top.answer # None, UNCHANGED <<stdout, fetching>>,
         Top.answer.ok, Top.op = "render", RenderReturns
  PROVE  SInv'
<1>1. Waiting /\ Images /\ Facts /\ Plain
  BY Parts
<1>2. Waiting'
  BY <1>1, PopWaiting DEF RenderReturns, Finish, Ending, pipes
<1>3. Top.page \in Page /\ Top.answer.shows \in Shown /\ Top.answer.shows.pages[Top.page] \in Version
  BY <1>1, TopProperties DEF Named, Replied, Reading
<1>4. Images' /\ Facts'
  BY <1>1, <1>3, PutProperties DEF Images, Facts, RenderReturns, Shown
<1>5. Plain'
  BY <1>1 DEF Plain, RenderReturns, fetching, buffer, server
<1> QED
  BY <1>2, <1>4, <1>5, PartsNext

LEMMA DataReturnsSafe ==
  ASSUME SInv, frames # <<>>, Top.answer # None, UNCHANGED <<stdout, fetching>>,
         Top.answer.ok, Top.op = "data", DataReturns
  PROVE  SInv'
<1>1. Waiting /\ Images /\ Facts /\ Plain
  BY Parts
<1>2. Waiting'
  BY <1>1, PopWaiting DEF DataReturns, Finish, Ending, pipes
<1>3. Top.page \in Page /\ Top.answer.shows.pages[Top.page] \in Version
  BY <1>1, TopProperties DEF Named, Replied, Reading
<1>4. Images' /\ Facts'
  BY <1>1, <1>3 DEF Images, Facts, DataReturns
<1>5. Plain'
  BY <1>1 DEF Plain, DataReturns, fetching, buffer, server
<1> QED
  BY <1>2, <1>4, <1>5, PartsNext

LEMMA EditReturnsSafe ==
  ASSUME SInv, frames # <<>>, Top.answer # None, UNCHANGED <<stdout, fetching>>,
         Top.op = "edit", EditReturns
  PROVE  SInv'
<1>1. Waiting /\ Images /\ Facts /\ Plain
  BY Parts
<1>2. Waiting'
  BY <1>1, PopWaiting DEF EditReturns, Finish, Ending, pipes
<1>3. Top.page \in Page
  BY <1>1, TopProperties DEF Named
<1>4. Images' /\ Facts'
  <2>1. CASE Joined
    BY <1>1, <2>1, StaysCached DEF EditReturns
  <2>2. CASE ~Joined
    BY <1>1, <2>2, ForgetProperties DEF EditReturns
  <2> QED
    BY <2>1, <2>2
<1>5. Plain'
  <2>1. delayed' \subseteq Page
    BY <1>1, <1>3 DEF Plain, EditReturns
  <2> QED
    BY <1>1, <2>1 DEF Plain, EditReturns, fetching, server
<1> QED
  BY <1>2, <1>4, <1>5, PartsNext

LEMMA SaveReturnsSafe ==
  ASSUME SInv, frames # <<>>, Top.answer # None, UNCHANGED <<stdout, fetching>>,
         Top.answer.ok, Top.op = "save", SaveReturns
  PROVE  SInv'
<1>1. Waiting /\ Images /\ Facts /\ Plain
  BY Parts
<1>2. Waiting'
  BY <1>1, GoOnWaiting DEF SaveReturns
<1>3. Top.page = None /\ Replied(Top, Top.answer)
  BY <1>1, TopProperties DEF Named
<1>4. Top.answer.shows \in Shown /\ \A p \in Page : Top.answer.shows.pages[p] \in Version
  BY <1>3 DEF Replied, Reading
<1>5. Top.answer.shows.pages \in Content
  BY <1>4 DEF Shown, Content
<1>6. Images' /\ Facts'
  BY <1>1, StaysCached DEF SaveReturns
<1>7. Plain'
  BY <1>1, <1>5 DEF Plain, SaveReturns, fetching, buffer
<1> QED
  BY <1>2, <1>6, <1>7, PartsNext

LEMMA CloseReturnsSafe ==
  ASSUME SInv, frames # <<>>, Top.answer # None, UNCHANGED <<stdout, fetching>>,
         CloseReturns
  PROVE  SInv'
<1>1. Waiting /\ Images /\ Facts /\ Plain
  BY Parts
<1>2. Waiting'
  <2>1. CASE midnight
    BY <1>1, <2>1, GoOnWaiting DEF CloseReturns
  <2>2. CASE ~midnight
    BY <1>1, <2>2, PopWaiting DEF CloseReturns, Finish, Ending, pipes
  <2> QED
    BY <2>1, <2>2
<1>3. Images' /\ Facts'
  BY <1>1, ForgetProperties DEF CloseReturns
<1>4. Plain'
  BY <1>1 DEF Plain, CloseReturns, fetching, server
<1> QED
  BY <1>2, <1>3, <1>4, PartsNext

LEMMA OptionsReturnSafe ==
  ASSUME SInv, frames # <<>>, Top.answer # None, UNCHANGED <<stdout, fetching>>,
         OptionsReturn
  PROVE  SInv'
<1>1. Waiting /\ Images /\ Facts /\ Plain
  BY Parts
<1>2. Waiting'
  BY <1>1, PopWaiting DEF OptionsReturn, Finish, Ending, pipes
<1>3. Images' /\ Facts'
  <2>1. <<>> \in Seq(Image) /\ Len(<<>>) <= Limit
    BY CacheAssumption
  <2>2. images' = <<>> \/ images' = images
    BY DEF OptionsReturn
  <2>3. Images'
    BY <1>1, <2>1, <2>2 DEF Images
  <2>4. Facts'
    BY <1>1 DEF Facts, OptionsReturn
  <2> QED
    BY <2>3, <2>4
<1>4. Plain'
  BY <1>1 DEF Plain, OptionsReturn, fetching, buffer, server
<1> QED
  BY <1>2, <1>3, <1>4, PartsNext

LEMMA ErrorReturnsSafe ==
  ASSUME SInv, frames # <<>>, Top.answer # None, UNCHANGED <<stdout, fetching>>,
         ErrorReturns
  PROVE  SInv'
<1>1. Waiting /\ Images /\ Facts /\ Plain
  BY Parts
<1>2. Waiting'
  <2>1. CASE Joined
    BY <1>1, <2>1, PopTwiceWaiting DEF ErrorReturns, Joined, Ending, pipes
  <2>2. CASE ~Joined
    BY <1>1, <2>2, PopWaiting DEF ErrorReturns, Ending, pipes
  <2> QED
    BY <2>1, <2>2
<1>3. UNCHANGED <<delayed, caches>> \/ (delayed' = {} /\ Forget(delayed))
  BY DEF ErrorReturns
<1>4. Images' /\ Facts'
  <2>1. CASE UNCHANGED <<delayed, caches>>
    BY <1>1, <2>1, StaysCached
  <2>2. CASE delayed' = {} /\ Forget(delayed)
    BY <1>1, <2>2, ForgetProperties
  <2> QED
    BY <1>3, <2>1, <2>2
<1>5. Plain'
  BY <1>1, <1>3 DEF Plain, ErrorReturns, fetching, server
<1> QED
  BY <1>2, <1>4, <1>5, PartsNext

LEMMA ReturnSafe ==
  ASSUME SInv, Return
  PROVE  SInv'
<1>1. frames # <<>> /\ Top.answer # None /\ UNCHANGED <<stdout, fetching>>
  BY DEF Return
<1>2. CASE ErrorReturns
  BY <1>1, <1>2, ErrorReturnsSafe
<1>3. CASE Top.answer.ok /\ Top.op = "render" /\ RenderReturns
  BY <1>1, <1>3, RenderReturnsSafe
<1>4. CASE Top.answer.ok /\ Top.op = "data" /\ DataReturns
  BY <1>1, <1>4, DataReturnsSafe
<1>5. CASE Top.op = "edit" /\ EditReturns
  BY <1>1, <1>5, EditReturnsSafe
<1>6. CASE Top.answer.ok /\ Top.op = "save" /\ SaveReturns
  BY <1>1, <1>6, SaveReturnsSafe
<1>7. CASE CloseReturns
  BY <1>1, <1>7, CloseReturnsSafe
<1>8. CASE OptionsReturn
  BY <1>1, <1>8, OptionsReturnSafe
<1> QED
  BY <1>2, <1>3, <1>4, <1>5, <1>6, <1>7, <1>8 DEF Return

\* A prefetch asks for a page at most.
LEMMA AskNextWaiting ==
  ASSUME SInv, NEW pages \in SUBSET Page, AskNext(pages), UNCHANGED <<stdout, frames>>
  PROVE  Waiting' /\ prefetch' \subseteq Page
<1>1. Waiting
  BY Parts
<1>2. CASE prefetch' = {} /\ UNCHANGED stdin
  BY <1>1, <1>2, StaysWaiting
<1>3. ASSUME NEW p \in pages, prefetch' \in SUBSET (pages \ {p}),
             stdin' = Append(stdin, Query("render", p, 0))
      PROVE  Waiting' /\ prefetch' \subseteq Page
  <2> DEFINE q == Query("render", p, 0)
  <2>1. q \in Request /\ q.op = "render" /\ q.page = p /\ q.by = 0
    <3>1. (("render" = "toggle") # midnight) \in BOOLEAN
      BY Zenon
    <3> QED
      BY <3>1, CacheAssumption DEF Query, Request, FrameOp
  <2>2. Named(q)
    BY <2>1 DEF Named
  <2> HIDE DEF q
  <2>3. Line \in Seq(Request) /\ LineOf(stdout, Append(stdin, q)) = Append(Line, q)
    BY <1>1, <2>1, LineProperties, LineSent DEF Waiting, Line
  <2>4. LineOrderly(frames, Append(Line, q))
    BY <1>1, <2>1, <2>2, <2>3, OrderlyPrefetch DEF Waiting, Orderly
  <2>5. stdin' = Append(stdin, q) /\ stdin' \in Seq(Request)
    BY <1>1, <1>3, <2>1 DEF Waiting, q
  <2>6. Line' = Append(Line, q)
    BY <2>3, <2>5 DEF Line
  <2>7. Waiting'
    BY <1>1, <2>4, <2>5, <2>6 DEF Waiting, Orderly
  <2> QED
    BY <1>3, <2>7
<1> QED
  BY <1>2, <1>3 DEF AskNext

LEMMA PrefetchStartSafe ==
  ASSUME SInv, PrefetchStart
  PROVE  SInv'
<1>1. Waiting /\ Images /\ Facts /\ Plain
  BY Parts
<1>2. Waiting' /\ prefetch' \subseteq Page
  BY AskNextWaiting DEF PrefetchStart
<1>3. Images' /\ Facts'
  BY <1>1, StaysCached DEF PrefetchStart
<1>4. Plain'
  BY <1>1, <1>2 DEF Plain, PrefetchStart, buffer, server
<1> QED
  BY <1>2, <1>3, <1>4, PartsNext

LEMMA PrefetchTimerSafe ==
  ASSUME SInv, PrefetchTimer
  PROVE  SInv'
<1>1. Waiting /\ Images /\ Facts /\ Plain
  BY Parts
<1>2. UNCHANGED <<stdout, frames>>
  BY DEF PrefetchTimer
<1>3. Waiting' /\ prefetch' \subseteq Page
  <2>1. CASE AskNext(prefetch)
    BY <1>1, <1>2, <2>1, AskNextWaiting DEF Plain
  <2>2. CASE UNCHANGED <<prefetch, stdin>>
    BY <1>1, <1>2, <2>2, StaysWaiting DEF Plain
  <2> QED
    BY <2>1, <2>2 DEF PrefetchTimer
<1>4. Images' /\ Facts'
  BY <1>1, StaysCached DEF PrefetchTimer
<1>5. Plain'
  BY <1>1, <1>3 DEF Plain, PrefetchTimer, buffer, server
<1> QED
  BY <1>3, <1>4, <1>5, PartsNext

\* What the filter reads: the first request of the line, and its answer.
LEMMA HeadProperties ==
  ASSUME Waiting, stdout # <<>>
  PROVE  /\ Head(stdout) \in Reply /\ Head(stdout).request \in Request
         /\ Head(stdout).answer \in Answer
         /\ Tail(stdout) \in Seq(Reply) /\ RepliesOrderly(Tail(stdout))
         /\ Line \in Seq(Request) /\ Line # <<>> /\ Line[1] = Head(stdout).request
         /\ LineOf(Tail(stdout), stdin) = Tail(Line)
         /\ LineOrderly(frames, Tail(Line))
         /\ Named(Head(stdout).request)
         /\ Replied(Head(stdout).request, Head(stdout).answer)
<1>1. /\ Tail(stdout) \in Seq(Reply) /\ Len(Tail(stdout)) = Len(stdout) - 1
      /\ Len(stdout) \in Nat \ {0}
      /\ Head(stdout) = stdout[1] /\ Head(stdout) \in Reply
      /\ \A i \in 1..(Len(stdout) - 1) : Tail(stdout)[i] = stdout[i + 1]
  BY TailProperties DEF Waiting
<1>2. /\ Line \in Seq(Request) /\ Line # <<>> /\ Line[1] = Head(stdout).request
      /\ LineOf(Tail(stdout), stdin) = Tail(Line)
  BY LineProperties, LineRead DEF Waiting, Line
<1>3. LineOrderly(frames, Tail(Line))
  BY <1>2, OrderlyRead DEF Waiting, Orderly
<1>4. Named(Line[1])
  <2>1. 1 \in DOMAIN Line
    BY <1>2
  <2> QED
    BY <2>1 DEF Waiting, Orderly, LineOrderly
<1>5. /\ 1 \in DOMAIN stdout /\ DOMAIN Tail(stdout) = 1..(Len(stdout) - 1)
      /\ \A i \in 1..(Len(stdout) - 1) : i + 1 \in DOMAIN stdout
  BY <1>1
<1>6. /\ RepliesOrderly(Tail(stdout))
      /\ Replied(stdout[1].request, stdout[1].answer)
  BY <1>1, <1>5 DEF Waiting, Orderly, RepliesOrderly
<1> QED
  BY <1>1, <1>2, <1>3, <1>4, <1>6 DEF Reply

LEMMA AnswerSafe ==
  ASSUME SInv, stdout # <<>>, stdout' = Tail(stdout), Head(stdout).request.by # 0,
         frames' = [frames EXCEPT ![Head(stdout).request.by].answer = Head(stdout).answer],
         UNCHANGED <<server, stdin, caches, buffer, fetching>>
  PROVE  SInv'
<1>1. Waiting /\ Images /\ Facts /\ Plain
  BY Parts
<1>2. /\ Line[1] = Head(stdout).request /\ Head(stdout).answer \in Answer
      /\ Line \in Seq(Request) /\ Line # <<>>
      /\ Tail(stdout) \in Seq(Reply) /\ RepliesOrderly(Tail(stdout))
      /\ LineOf(Tail(stdout), stdin) = Tail(Line)
      /\ Replied(Line[1], Head(stdout).answer)
  BY <1>1, HeadProperties
<1>3. /\ frames' \in Seq(Frame)
      /\ FramesOrderly(frames') /\ LineOrderly(frames', Tail(Line))
  BY <1>1, <1>2, OrderlyAnswer DEF Waiting, Orderly
<1>4. Line' = Tail(Line)
  BY <1>2 DEF Line
<1>5. Waiting'
  BY <1>1, <1>2, <1>3, <1>4 DEF Waiting, Orderly
<1>6. Images' /\ Facts'
  BY <1>1, StaysCached
<1>7. Plain'
  BY <1>1 DEF Plain, fetching, buffer, server
<1> QED
  BY <1>5, <1>6, <1>7, PartsNext

LEMMA PrefetchCallbackSafe ==
  ASSUME SInv, stdout # <<>>, stdout' = Tail(stdout), Head(stdout).request.by = 0,
         PrefetchCallback(Head(stdout).request.page, Head(stdout).answer)
  PROVE  SInv'
<1> DEFINE p == Head(stdout).request.page
           a == Head(stdout).answer
<1>1. Waiting /\ Images /\ Facts /\ Plain
  BY Parts
<1>2. /\ Line[1] = Head(stdout).request /\ Line \in Seq(Request) /\ Line # <<>>
      /\ Tail(stdout) \in Seq(Reply) /\ RepliesOrderly(Tail(stdout))
      /\ LineOf(Tail(stdout), stdin) = Tail(Line) /\ LineOrderly(frames, Tail(Line))
      /\ Named(Head(stdout).request) /\ Replied(Head(stdout).request, a)
  BY <1>1, HeadProperties
<1>3. Head(stdout).request.op = "render"
  <2>1. 1 \in DOMAIN Line
    BY <1>2
  <2>2. Line[1].by = 0
    BY <1>2
  <2> QED
    BY <1>1, <1>2, <2>1, <2>2 DEF Waiting, Orderly, LineOrderly
<1>4. p \in Page /\ (a.ok => a.shows \in Shown /\ a.shows.pages[p] \in Version)
  BY <1>2, <1>3 DEF Named, Replied, Reading
<1> HIDE DEF p, a
<1>5. PrefetchCallback(p, a)
  BY DEF p, a
<1>6. FramesOrderly(frames) /\ LineOrderly(frames, LineOf(stdout', stdin))
  BY <1>1, <1>2 DEF Waiting, Orderly
<1>7. Images' /\ Facts'
  <2>1. images' = images \/ (a.ok /\ images' = Put(p, a.shows))
    BY <1>5 DEF PrefetchCallback
  <2>2. Images'
    BY <1>1, <1>4, <2>1, PutProperties DEF Images, Shown
  <2>3. Facts'
    BY <1>1, <1>5 DEF Facts, PrefetchCallback
  <2> QED
    BY <2>2, <2>3
<1>8. Plain'
  <2>1. timers' \in Nat
    <3>1. timers \in Nat
      BY <1>1 DEF Plain
    <3>2. timers' = timers \/ timers' = timers + 1
      BY <1>5 DEF PrefetchCallback
    <3> QED
      BY <3>1, <3>2
  <2> QED
    BY <1>1, <1>5, <2>1 DEF Plain, PrefetchCallback, buffer, server
<1>9. Waiting'
  <2>1. CASE UNCHANGED <<stdin, frames>>
    BY <1>1, <1>2, <1>6, <2>1 DEF Waiting, Orderly, Line
  <2>2. CASE /\ Len(frames) < MaxFrames
             /\ frames' = Append(frames, NewFrame("render", p, FALSE))
             /\ stdin' = Append(stdin, Query("render", p, Len(frames) + 1))
    <3>1. /\ frames' \in Seq(Frame) /\ stdin' \in Seq(Request)
          /\ FramesOrderly(frames') /\ LineOrderly(frames', LineOf(Tail(stdout), stdin'))
      BY <1>1, <1>2, <1>4, <1>6, <2>2, Asking DEF Waiting, FrameOp
    <3> QED
      BY <1>2, <3>1 DEF Waiting, Orderly, Line
  <2> QED
    BY <1>5, <2>1, <2>2 DEF PrefetchCallback
<1> QED
  BY <1>7, <1>8, <1>9, PartsNext

LEMMA FilterSafe ==
  ASSUME SInv, Filter
  PROVE  SInv'
<1>1. CASE Head(stdout).request.by = 0
  BY <1>1, PrefetchCallbackSafe DEF Filter
<1>2. CASE Head(stdout).request.by # 0
  BY <1>2, AnswerSafe DEF Filter
<1> QED
  BY <1>1, <1>2

LEMMA CompileSafe ==
  ASSUME SInv, Compile
  PROVE  SInv'
<1>1. Waiting /\ Images /\ Facts /\ Plain
  BY Parts
<1>2. Waiting'
  BY <1>1, StaysWaiting DEF Compile, pipes
<1>3. Images' /\ Facts'
  BY <1>1, StaysCached DEF Compile
<1>4. Plain'
  <2>1. clock + 1 \in Version
    BY <1>1, CacheAssumption DEF Plain, Version, Compile
  <2>2. clock' \in Version /\ disk' \in Content /\ changed' \in BOOLEAN
    BY <2>1 DEF Compile, Content
  <2> QED
    BY <1>1, <2>2 DEF Plain, Compile, fetching, buffer
<1> QED
  BY <1>2, <1>3, <1>4, PartsNext

\* What the server answers to the first request it has not read.
LEMMA ServeProperties ==
  ASSUME SInv, Serve
  PROVE  \E ok \in BOOLEAN :
           LET r == Head(stdin)
               shows == IF ok /\ r.op \in Reading THEN Show(Opened, r.page) ELSE None
               reply == [request |-> r, answer |-> [ok |-> ok, shows |-> shows]]
           IN  /\ r \in Request /\ Named(r)
               /\ ok \/ r.op \in {"render", "data", "edit"}
               /\ doc' = IF ok THEN Executed(r) ELSE Opened
               /\ ok /\ r.op \in Reading => doc' = Opened
               /\ doc' \in Document \cup {None}
               /\ ok /\ r.op = "edit" => doc' \in Document
               /\ stdin # <<>> /\ stdin' = Tail(stdin) /\ stdin' \in Seq(Request)
               /\ reply \in Reply /\ Replied(r, reply.answer)
               /\ stdout' = Append(stdout, reply) /\ stdout' \in Seq(Reply)
               /\ Line' = Line
<1>1. Waiting /\ Images /\ Facts /\ Plain
  BY Parts
<1>2. PICK ok \in BOOLEAN :
        /\ ok \/ Head(stdin).op \in {"render", "data", "edit"}
        /\ Head(stdin).op = "edit" /\ ok => clock < MaxVersion
        /\ doc' = IF ok THEN Executed(Head(stdin)) ELSE Opened
        /\ stdout' = Append(stdout, [request |-> Head(stdin), answer |->
             [ok |-> ok, shows |-> IF ok /\ Head(stdin).op \in Reading
                                   THEN Show(doc', Head(stdin).page) ELSE None]])
  BY DEF Serve
<1> DEFINE r == Head(stdin)
           shows == IF ok /\ r.op \in Reading THEN Show(Opened, r.page) ELSE None
           answer == [ok |-> ok, shows |-> shows]
           reply == [request |-> r, answer |-> answer]
<1>3. stdin # <<>> /\ stdin' = Tail(stdin) /\ stdin' \in Seq(Request) /\ r = stdin[1] /\ r \in Request
  BY <1>1, TailProperties DEF Serve, Waiting
<1>4. Named(r)
  <2>1. /\ Len(stdout) \in Nat /\ Len(stdin) \in Nat \ {0}
        /\ Len(Line) = Len(stdout) + Len(stdin) /\ Line \in Seq(Request)
        /\ \A i \in 1..(Len(stdout) + Len(stdin)) :
             Line[i] = IF i <= Len(stdout) THEN stdout[i].request ELSE stdin[i - Len(stdout)]
    BY <1>1, <1>3, LineProperties DEF Waiting, Line
  <2>2. /\ Len(stdout) + 1 \in 1..(Len(stdout) + Len(stdin)) /\ ~(Len(stdout) + 1 <= Len(stdout))
        /\ (Len(stdout) + 1) - Len(stdout) = 1
    BY <2>1
  <2>3. Len(stdout) + 1 \in DOMAIN Line
    BY <2>1, <2>2
  <2>4. Line[Len(stdout) + 1] = r
    BY <1>3, <2>1, <2>2
  <2>5. Named(Line[Len(stdout) + 1])
    BY <1>1, <2>3 DEF Waiting, Orderly, LineOrderly
  <2> QED
    BY <2>4, <2>5
<1>5. Opened \in Document /\ Opened.pages \in Content
  BY <1>1, OpenedType
<1> HIDE DEF r
<1>6. doc' = IF ok THEN Executed(r) ELSE Opened
  BY <1>2 DEF r
<1>7. ok /\ r.op \in Reading => doc' = Opened
  BY <1>6 DEF Executed, Reading
<1>8. doc' \in Document \cup {None} /\ (ok /\ r.op = "edit" => doc' \in Document)
  <2>1. CASE ok /\ r.op = "edit"
    <3>1. clock + 1 \in Version
      BY <1>1, <1>2, <2>1, CacheAssumption DEF r, Plain, Version
    <3>2. r.page \in Page
      BY <1>4, <2>1 DEF Named
    <3>3. doc' = [Opened EXCEPT !.pages[r.page] = clock + 1]
      BY <1>6, <2>1 DEF Executed
    <3> QED
      BY <1>5, <3>1, <3>2, <3>3 DEF Document, Content
  <2>2. CASE ok /\ r.op \in {"toggle", "enable"}
    <3>1. doc' = [Opened EXCEPT !.dark = r.dark]
      BY <1>6, <2>2 DEF Executed
    <3>2. r.dark \in BOOLEAN
      BY <1>3 DEF Request, r
    <3> QED
      BY <1>5, <3>1, <3>2 DEF Document
  <2>3. CASE ~(ok /\ r.op = "edit") /\ ~(ok /\ r.op \in {"toggle", "enable"})
    <3>1. doc' = Opened \/ doc' = None
      BY <1>6, <2>3 DEF Executed
    <3> QED
      BY <1>5, <2>3, <3>1
  <2> QED
    BY <2>1, <2>2, <2>3
<1>9. ok /\ r.op \in Reading =>
        /\ shows \in Shown
        /\ \A p \in Page : r.page \in {p, None} => shows.pages[p] = Opened.pages[p]
  BY <1>5 DEF Show, Shown, Document, Content
<1>10. Replied(r, answer)
  BY <1>2, <1>5, <1>9 DEF Replied, r, Content
<1>11. reply \in Reply
  BY <1>3, <1>9 DEF Reply, Answer, r
<1>12. stdout' = Append(stdout, reply)
  BY <1>2, <1>7 DEF r
<1> HIDE DEF reply
<1>13. stdout' \in Seq(Reply)
  BY <1>1, <1>11, <1>12 DEF Waiting
<1>14. Line' = Line
  BY <1>1, <1>3, <1>11, <1>12, LineServed DEF Waiting, Line, reply, r
<1> QED
  BY <1>2, <1>3, <1>4, <1>6, <1>7, <1>8, <1>10, <1>11, <1>12, <1>13, <1>14 DEF reply, r

LEMMA ServeSafe ==
  ASSUME SInv, Serve
  PROVE  SInv'
<1>1. Waiting /\ Images /\ Facts /\ Plain
  BY Parts
<1>2. PICK reply \in Reply :
        /\ Replied(reply.request, reply.answer)
        /\ doc' \in Document \cup {None}
        /\ stdin' \in Seq(Request) /\ stdout' = Append(stdout, reply) /\ stdout' \in Seq(Reply)
        /\ Line' = Line
  BY ServeProperties
<1>3. RepliesOrderly(stdout')
  <2>1. /\ Len(stdout) \in Nat /\ Len(stdout') = Len(stdout) + 1 /\ stdout'[Len(stdout) + 1] = reply
        /\ \A i \in 1..Len(stdout) : stdout'[i] = stdout[i]
    BY <1>1, <1>2, AppendProperties DEF Waiting
  <2>2. DOMAIN stdout' = 1..(Len(stdout) + 1) /\ DOMAIN stdout = 1..Len(stdout)
    BY <1>1, <1>2, <2>1 DEF Waiting
  <2>3. \A i \in 1..Len(stdout) : Replied(stdout[i].request, stdout[i].answer)
    BY <1>1, <2>2 DEF Waiting, Orderly, RepliesOrderly
  <2>4. \A i \in 1..(Len(stdout) + 1) : i \in 1..Len(stdout) \/ i = Len(stdout) + 1
    BY <2>1
  <2> QED
    BY <1>2, <2>1, <2>2, <2>3, <2>4 DEF RepliesOrderly
<1>4. UNCHANGED <<disk, frames, caches, buffer, fetching>>
  BY DEF Serve
<1>5. Waiting'
  BY <1>1, <1>2, <1>3, <1>4 DEF Waiting, Orderly
<1>6. Images' /\ Facts'
  BY <1>1, <1>4, StaysCached
<1>7. Plain'
  <2>1. clock' \in Version
    <3>1. clock' = clock \/ (clock < MaxVersion /\ clock' = clock + 1)
      BY DEF Serve
    <3> QED
      BY <1>1, <3>1, CacheAssumption DEF Plain, Version
  <2>2. changed' \in BOOLEAN
    BY <1>1 DEF Serve, Plain
  <2> QED
    BY <1>1, <1>2, <1>4, <2>1, <2>2 DEF Plain, fetching, buffer
<1> QED
  BY <1>5, <1>6, <1>7, PartsNext

\* Types, the order of the line and the bound of the cache hold initially ...
LEMMA InitSafe == Init => SInv
<1> SUFFICES ASSUME Init PROVE SInv
  OBVIOUS
<1>1. 0 \in Version /\ Limit \in Nat
  BY CacheAssumption DEF Version
<1>2. /\ <<>> \in Seq(Request) /\ <<>> \in Seq(Reply) /\ <<>> \in Seq(Frame) /\ <<>> \in Seq(Image)
      /\ Len(<<>>) = 0 /\ DOMAIN <<>> = {}
  OBVIOUS
<1>3. Line \in Seq(Request) /\ Len(Line) = 0
  <2>1. stdout \in Seq(Reply) /\ stdin \in Seq(Request) /\ Len(stdout) + Len(stdin) = 0
    BY <1>2 DEF Init
  <2> QED
    BY <2>1, LineProperties DEF Line
<1>4. Line = <<>>
  BY <1>3
<1>5. Waiting
  BY <1>2, <1>4 DEF Init, Waiting, Orderly, FramesOrderly, LineOrderly, RepliesOrderly
<1>6. Images /\ Facts /\ Plain
  <2>1. Images
    <3>1. images = <<>> /\ 0 <= Limit
      BY <1>1 DEF Init
    <3> QED
      BY <1>2, <3>1 DEF Images
  <2>2. Facts
    BY DEF Init, Facts
  <2>3. Plain
    BY <1>1 DEF Init, Plain, Content
  <2> QED
    BY <2>1, <2>2, <2>3
<1> QED
  BY <1>5, <1>6, Parts

\* ... and every step keeps them.
LEMMA NextSafe == SInv /\ [Next]_vars => SInv'
<1> SUFFICES ASSUME SInv, [Next]_vars PROVE SInv'
  OBVIOUS
<1>1. ASSUME NEW p \in Page, RenderPage(p) \/ ReadData(p) \/ Edit(p) PROVE SInv'
  BY <1>1, RenderPageSafe, ReadSafe, EditSafe DEF ReadData
<1>2. CASE BeginAtomic \/ EndAtomic \/ Save \/ Revert \/ ToggleMidnight
  BY <1>2, BeginAtomicSafe, EndAtomicSafe, SaveSafe, RevertSafe, ToggleSafe
<1>3. CASE Return \/ Filter \/ PrefetchStart \/ PrefetchTimer
  BY <1>3, ReturnSafe, FilterSafe, PrefetchStartSafe, PrefetchTimerSafe
<1>4. CASE Serve \/ Compile
  BY <1>4, ServeSafe, CompileSafe
<1>5. CASE UNCHANGED vars
  BY <1>5, Parts, PartsNext, StaysWaiting, StaysCached
     DEF vars, server, pipes, buffer, fetching, Plain
<1> QED
  BY <1>1, <1>2, <1>3, <1>4, <1>5 DEF Next

\* Whether or not sentinels revert the buffer while other Lisp code waits, the calls
\* under way nest and end in order, every call waits for at most one answer, and the
\* state keeps its types.
THEOREM Safe == Spec => []SInv
<1> QED
  BY InitSafe, NextSafe, PTL DEF Spec

\* TypeOK: however Lisp code nests, reverts and answers arrive, the state keeps
\* its types; in particular what is stored as data of a page is a version of it.
THEOREM TypeCorrect == Spec => []TypeOK
<1>1. SInv => TypeOK
  BY DEF SInv
<1> QED
  BY <1>1, Safe, PTL

\* ImagesBounded: pdf-cache-put-image keeps the cache at pdf-cache-image-limit,
\* also when prefetched and requested images arrive in any order.
THEOREM CacheBounded == Spec => []ImagesBounded
<1>1. SInv => ImagesBounded
  BY DEF SInv
<1> QED
  BY <1>1, Safe, PTL

-----------------------------------------------------------------------------
(* What the order of the line says of answers, edits and closes.           *)

\* What is on its way to or from the server is a prefetch, or belongs to the code
\* at its depth, which waits.
Expected(r) ==
  /\ r.op # "render" => r.by # 0
  /\ r.by # 0 => /\ r.by \in DOMAIN frames
                 /\ frames[r.by].op = r.op /\ frames[r.by].page = r.page
                 /\ frames[r.by].answer = None
                 /\ \A k \in DOMAIN frames : frames[k].answer # None => k < r.by

LEMMA LineFacts ==
  ASSUME Waiting
  PROVE  /\ Len(stdout) \in Nat /\ Len(stdin) \in Nat /\ Line \in Seq(Request)
         /\ DOMAIN stdout = 1..Len(stdout) /\ DOMAIN stdin = 1..Len(stdin)
         /\ DOMAIN Line = 1..(Len(stdout) + Len(stdin))
         /\ \A i \in DOMAIN stdout : i \in DOMAIN Line /\ Line[i] = stdout[i].request
         /\ \A i \in DOMAIN stdin :
              Len(stdout) + i \in DOMAIN Line /\ Line[Len(stdout) + i] = stdin[i]
<1>1. /\ Len(stdout) \in Nat /\ Len(stdin) \in Nat /\ Line \in Seq(Request)
      /\ DOMAIN stdout = 1..Len(stdout) /\ DOMAIN stdin = 1..Len(stdin)
      /\ Len(Line) = Len(stdout) + Len(stdin)
      /\ \A i \in 1..(Len(stdout) + Len(stdin)) :
           Line[i] = IF i <= Len(stdout) THEN stdout[i].request ELSE stdin[i - Len(stdout)]
  BY LineProperties DEF Waiting, Line
<1>2. DOMAIN Line = 1..(Len(stdout) + Len(stdin))
  BY <1>1
<1>3. ASSUME NEW i \in 1..Len(stdout)
      PROVE  i \in 1..(Len(stdout) + Len(stdin)) /\ Line[i] = stdout[i].request
  <2>1. i \in 1..(Len(stdout) + Len(stdin)) /\ i <= Len(stdout)
    BY <1>1
  <2> QED
    BY <1>1, <2>1
<1>4. ASSUME NEW i \in 1..Len(stdin)
      PROVE  /\ Len(stdout) + i \in 1..(Len(stdout) + Len(stdin))
             /\ Line[Len(stdout) + i] = stdin[i]
  <2>1. /\ Len(stdout) + i \in 1..(Len(stdout) + Len(stdin)) /\ ~(Len(stdout) + i <= Len(stdout))
        /\ (Len(stdout) + i) - Len(stdout) = i
    BY <1>1
  <2> QED
    BY <1>1, <2>1
<1> QED
  BY <1>1, <1>2, <1>3, <1>4

LEMMA AllExpected ==
  ASSUME Waiting
  PROVE  /\ \A i \in DOMAIN stdout : Expected(stdout[i].request)
         /\ \A i \in DOMAIN stdin : Expected(stdin[i])
<1>1. ASSUME NEW i \in DOMAIN Line PROVE Expected(Line[i])
  <2>1. Line[i].by = 0 => Line[i].op = "render"
    BY DEF Waiting, Orderly, LineOrderly
  <2>2. ASSUME Line[i].by # 0
        PROVE  /\ Line[i].by \in DOMAIN frames
               /\ frames[Line[i].by].op = Line[i].op /\ frames[Line[i].by].page = Line[i].page
               /\ \A k \in DOMAIN frames : frames[k].answer # None => k < Line[i].by
    BY <2>2 DEF Waiting, Orderly, LineOrderly
  <2>3. ASSUME Line[i].by # 0 PROVE frames[Line[i].by].answer = None
    <3>1. Line[i].by \in Nat
      BY <2>2, <2>3 DEF Waiting
    <3> QED
      BY <2>2, <2>3, <3>1
  <2> QED
    BY <2>1, <2>2, <2>3 DEF Expected
<1> QED
  BY <1>1, LineFacts

\* When the code on top has its answer or is a drag, only prefetches are on their way.
LEMMA Quiet ==
  ASSUME Waiting, Ending
  PROVE  /\ \A i \in DOMAIN stdout : stdout[i].request.by = 0 /\ stdout[i].request.op = "render"
         /\ \A i \in DOMAIN stdin : stdin[i].by = 0 /\ stdin[i].op = "render"
<1>1. \A i \in DOMAIN Line : Line[i].by = 0 /\ Line[i].op = "render"
  <2>1. Line \in Seq(Request)
    BY LineFacts
  <2>2. \A i \in DOMAIN Line : Line[i].by = 0
    BY <2>1, QuietLine DEF Waiting, Orderly, Ending, Top
  <2> QED
    BY <2>2 DEF Waiting, Orderly, LineOrderly
<1> QED
  BY <1>1, LineFacts

LEMMA QuietFacts ==
  ASSUME Waiting, Ending
  PROVE  /\ ~CloseUnserved
         /\ \A i \in DOMAIN stdout : stdout[i].request.op \notin {"edit", "close"}
BY Quiet DEF CloseUnserved

\* While the document is closed or a page edited, the code that asked for it waits.
LEMMA ServedKnown ==
  ASSUME Waiting
  PROVE  /\ CloseUnserved => Closing
         /\ \A p \in Page : EditServed(p) => Modified(p)
         /\ \A i \in DOMAIN stdout : stdout[i].request.op = "close" => Closing
<1>1. ASSUME CloseUnserved PROVE Closing
  <2>1. PICK i \in DOMAIN stdin : stdin[i].op = "close"
    BY <1>1 DEF CloseUnserved
  <2>2. Expected(stdin[i])
    BY AllExpected
  <2> QED
    BY <2>1, <2>2 DEF Expected, Closing
<1>2. ASSUME NEW p \in Page, EditServed(p) PROVE Modified(p)
  <2>1. CASE \E k \in DOMAIN frames : frames[k].answer # None /\ Edits(frames[k], frames[k].answer, p)
    BY <2>1 DEF Modified, Edits
  <2>2. CASE \E i \in DOMAIN stdout : Edits(stdout[i].request, stdout[i].answer, p)
    <3>1. PICK i \in DOMAIN stdout : Edits(stdout[i].request, stdout[i].answer, p)
      BY <2>2
    <3>2. Expected(stdout[i].request)
      BY AllExpected
    <3> QED
      BY <3>1, <3>2 DEF Expected, Modified, Edits
  <2> QED
    BY <1>2, <2>1, <2>2 DEF EditServed
<1>3. ASSUME NEW i \in DOMAIN stdout, stdout[i].request.op = "close" PROVE Closing
  <2>1. Expected(stdout[i].request)
    BY AllExpected
  <2> QED
    BY <1>3, <2>1 DEF Expected, Closing
<1> QED
  BY <1>1, <1>2, <1>3

\* Commands other than edits in a drag are the outermost code.
LEMMA CommandOutermost ==
  ASSUME Waiting, FramesNested, NEW k \in DOMAIN frames, frames[k].op \notin {"render", "data"}
  PROVE  /\ k = 1 \/ (k = 2 /\ frames[k].op = "edit")
         /\ \A j \in DOMAIN frames : j < k => frames[j].op = "atomic" /\ frames[j].answer = None
<1>1. k \in Nat /\ k >= 1 /\ 1 \in DOMAIN frames
  BY DEF Waiting
<1>2. CASE k = 1
  BY <1>2 DEF Waiting
<1>3. CASE k # 1
  <2>1. k = 2 /\ frames[k].op = "edit" /\ frames[1].op = "atomic"
    BY <1>1, <1>3 DEF FramesNested
  <2>2. frames[1].answer = None
    BY <1>1, <2>1 DEF Waiting, Orderly, FramesOrderly
  <2>3. \A j \in DOMAIN frames : j < 2 => j = 1
    BY DEF Waiting
  <2> QED
    BY <2>1, <2>2, <2>3
<1> QED
  BY <1>2, <1>3

\* When the server comes to a command that is not a read, nothing but prefetches was
\* answered before it, and no code has an answer.
LEMMA CommandServed ==
  ASSUME Waiting, FramesNested, stdin # <<>>, Head(stdin).op \notin {"render", "data"}
  PROVE  /\ Head(stdin).by \in DOMAIN frames /\ frames[Head(stdin).by].op = Head(stdin).op
         /\ Head(stdin).by = 1 \/ Head(stdin).op = "edit"
         /\ \A i \in DOMAIN stdout : stdout[i].request.by = 0
         /\ \A k \in DOMAIN frames : frames[k].answer = None
         /\ Closing => Head(stdin).op = "close"
<1> DEFINE r == Head(stdin)
<1>1. r = stdin[1] /\ 1 \in DOMAIN stdin
  BY DEF Waiting
<1>2. Expected(r) /\ r.by # 0
  BY <1>1, AllExpected DEF Expected
<1>3. r.by \in DOMAIN frames /\ frames[r.by].op = r.op /\ r.by \in Nat
  BY <1>2 DEF Expected, Waiting
<1> HIDE DEF r
<1>4. r.op \notin {"render", "data"}
  BY DEF r
<1>5. /\ r.by = 1 \/ (r.by = 2 /\ r.op = "edit")
      /\ \A j \in DOMAIN frames : j < r.by => frames[j].op = "atomic" /\ frames[j].answer = None
  BY <1>3, <1>4, CommandOutermost
<1>6. \A k \in DOMAIN frames : frames[k].answer = None
  BY <1>2, <1>3, <1>5 DEF Expected
<1>7. ASSUME NEW i \in DOMAIN stdout, stdout[i].request.by # 0 PROVE FALSE
  <2> DEFINE b == stdout[i].request.by
             m == Len(stdout) + 1
  <2>1. i \in DOMAIN Line /\ Line[i].by = b /\ m \in DOMAIN Line /\ Line[m] = r /\ i < m
    BY <1>1, LineFacts DEF r
  <2>2. Expected(stdout[i].request)
    BY AllExpected
  <2>3. b \in DOMAIN frames /\ frames[b].op = stdout[i].request.op
    BY <1>7, <2>2 DEF Expected
  <2>4. b < r.by
    BY <1>2, <1>7, <2>1 DEF Waiting, Orderly, LineOrderly
  <2>5. frames[b].op = "atomic"
    BY <1>5, <2>3, <2>4
  <2>6. stdout[i].request \in Request
    <3>1. stdout[i] \in Reply
      BY DEF Waiting
    <3> QED
      BY <3>1 DEF Reply
  <2> QED
    BY <2>3, <2>5, <2>6 DEF Request
<1>8. ASSUME Closing PROVE r.op = "close"
  <2>1. PICK k \in DOMAIN frames : frames[k].op = "close"
    BY <1>8 DEF Closing
  <2>2. k = 1
    BY <2>1, CommandOutermost
  <2>3. CASE r.by = 1
    BY <1>3, <2>1, <2>2, <2>3
  <2>4. CASE r.by # 1
    <3>1. frames[1].op = "atomic"
      BY <1>5, <2>2, <2>4
    <3> QED
      BY <2>1, <2>2, <3>1
  <2> QED
    BY <2>3, <2>4
<1> QED
  BY <1>3, <1>5, <1>6, <1>7, <1>8 DEF r

-----------------------------------------------------------------------------
(* Fresh caches: what steps that leave the server alone keep.              *)

LEMMA StaysNested ==
  ASSUME FramesNested, frames \in Seq(Frame), frames' = frames
  PROVE  FramesNested'
BY DEF FramesNested

LEMMA FrontNested ==
  ASSUME FramesNested, frames \in Seq(Frame), frames # <<>>, frames' = Front(frames)
  PROVE  FramesNested'
<1>1. /\ Len(frames') = Len(frames) - 1 /\ Len(frames) \in Nat \ {0} /\ frames' \in Seq(Frame)
      /\ \A k \in 1..(Len(frames) - 1) : frames'[k] = frames[k]
  BY FrontProperties
<1>2. DOMAIN frames' = 1..(Len(frames) - 1) /\ DOMAIN frames = 1..Len(frames)
  BY <1>1
<1>3. ASSUME NEW k \in DOMAIN frames', k > 1
      PROVE  \/ frames'[k].op \in {"render", "data"}
             \/ k = 2 /\ frames'[k].op = "edit" /\ frames'[1].op = "atomic"
  <2>1. k \in DOMAIN frames /\ frames'[k] = frames[k] /\ frames'[1] = frames[1]
    BY <1>1, <1>2, <1>3
  <2> QED
    BY <1>3, <2>1 DEF FramesNested
<1> QED
  BY <1>3 DEF FramesNested

LEMMA ShortNested ==
  ASSUME frames' \in Seq(Frame), Len(frames') <= 1
  PROVE  FramesNested'
BY DEF FramesNested

LEMMA PushNested ==
  ASSUME FramesNested, frames \in Seq(Frame), NEW f \in Frame, frames' = Append(frames, f),
         \/ f.op \in {"render", "data"}
         \/ Len(frames) = 0
         \/ Len(frames) = 1 /\ f.op = "edit" /\ frames[1].op = "atomic"
  PROVE  FramesNested'
<1>1. /\ Len(frames') = Len(frames) + 1 /\ Len(frames) \in Nat /\ frames' \in Seq(Frame)
      /\ \A k \in 1..Len(frames) : frames'[k] = frames[k]
      /\ frames'[Len(frames) + 1] = f
  BY AppendProperties
<1>2. DOMAIN frames' = 1..(Len(frames) + 1) /\ DOMAIN frames = 1..Len(frames)
  BY <1>1
<1>3. ASSUME NEW k \in 1..(Len(frames) + 1), k > 1
      PROVE  \/ frames'[k].op \in {"render", "data"}
             \/ k = 2 /\ frames'[k].op = "edit" /\ frames'[1].op = "atomic"
  <2>1. CASE k \in 1..Len(frames)
    <3>1. frames'[k] = frames[k] /\ frames'[1] = frames[1]
      BY <1>1, <1>3, <2>1
    <3> QED
      BY <1>2, <1>3, <2>1, <3>1 DEF FramesNested
  <2>2. CASE k = Len(frames) + 1
    <3>1. frames'[k] = f /\ Len(frames) # 0 /\ frames'[1] = frames[1]
      BY <1>1, <1>3, <2>2
    <3> QED
      BY <2>2, <3>1
  <2> QED
    BY <1>1, <2>1, <2>2
<1> QED
  BY <1>2, <1>3 DEF FramesNested

\* No fact about a page is there that was not there before.
OnlyOldFacts == \A p \in Page : data'[p] \in {None, data[p]}

LEMMA CurrentKept ==
  ASSUME NEW p \in Page, Current(p), OnlyOld, OnlyOldFacts, UNCHANGED <<doc, disk>>
  PROVE  Current(p)'
<1>1. Opened' = Opened
  BY DEF Opened
<1>2. ASSUME NEW i \in DOMAIN images', images'[i].page = p
      PROVE  images'[i].version = Opened.pages[p]
  BY <1>2 DEF OnlyOld, Current
<1>3. data'[p] \in {None, Opened.pages[p]}
  BY DEF OnlyOldFacts, Current
<1> QED
  BY <1>1, <1>2, <1>3 DEF Current

\* The caches stay fresh when what is forgotten is what was to be forgotten.
LEMMA CachesKept ==
  ASSUME CachesFresh, OnlyOld, OnlyOldFacts, UNCHANGED <<doc, disk>>,
         \A p \in Page : Closing \/ p \in delayed \/ EditServed(p)
                           => Closing' \/ p \in delayed' \/ EditServed(p)' \/ Current(p)'
  PROVE  CachesFresh'
<1> SUFFICES ASSUME NEW p \in Page
             PROVE  Closing' \/ p \in delayed' \/ EditServed(p)' \/ Current(p)'
  BY DEF CachesFresh
<1>1. CASE Current(p)
  BY <1>1, CurrentKept
<1>2. CASE Closing \/ p \in delayed \/ EditServed(p)
  BY <1>2
<1> QED
  BY <1>1, <1>2 DEF CachesFresh

\* Answers stay fresh when none arrives.
LEMMA AnswersKept ==
  ASSUME AnswersFresh, UNCHANGED <<doc, stdout>>,
         \A k \in DOMAIN frames' :
           frames'[k].answer # None => k \in DOMAIN frames /\ frames'[k] = frames[k]
  PROVE  AnswersFresh'
<1>1. ASSUME NEW k \in DOMAIN frames', frames'[k].op \in Reading, frames'[k].answer # None,
             frames'[k].answer.ok
      PROVE  Fresh(doc', frames'[k].answer, frames'[k].page)
  BY <1>1 DEF AnswersFresh
<1>2. ASSUME NEW i \in DOMAIN stdout', stdout'[i].request.op \in Reading, stdout'[i].answer.ok
      PROVE  \/ Fresh(doc', stdout'[i].answer, stdout'[i].request.page)
             \/ stdout'[i].request.by = 0 /\ NewsBehind(stdout', i, stdout'[i].request.page)
  BY <1>2 DEF AnswersFresh
<1> QED
  BY <1>1, <1>2 DEF AnswersFresh

NoneCached == images = <<>> /\ \A p \in Page : data[p] = None

LEMMA ForgottenKept ==
  ASSUME ClosedForgotten, OnlyOld, OnlyOldFacts, Images, Images', UNCHANGED <<doc, stdout>>,
         Closing => Closing' \/ NoneCached'
  PROVE  ClosedForgotten'
<1>1. NoneCached => NoneCached'
  <2> SUFFICES ASSUME NoneCached PROVE NoneCached'
    OBVIOUS
  <2>1. DOMAIN images = {}
    BY DEF NoneCached
  <2>2. DOMAIN images' = {}
    BY <2>1 DEF OnlyOld
  <2>3. images' = <<>>
    BY <2>2 DEF Images
  <2>4. \A p \in Page : data'[p] = None
    BY DEF NoneCached, OnlyOldFacts
  <2> QED
    BY <2>3, <2>4 DEF NoneCached
<1> QED
  BY <1>1 DEF ClosedForgotten, NoneCached

\* Emacs still knows that the document is not the file, or is to be told.
LEMMA FileKept ==
  ASSUME FileKnown, UNCHANGED <<doc, disk, changed>>,
         modified => modified' \/ CloseUnserved',
         CloseUnserved => CloseUnserved',
         \A p \in Page : EditServed(p) => modified' \/ EditServed(p)',
         Closing' => CloseUnserved' \/ Closing
  PROVE  FileKnown'
BY DEF FileKnown

LEMMA UnchangedCaches ==
  ASSUME Facts, UNCHANGED caches
  PROVE  OnlyOld /\ OnlyOldFacts
BY DEF Facts, caches, OnlyOld, OnlyOldFacts

LEMMA ForgottenOld ==
  ASSUME Images, Facts, NEW S, Forget(S)
  PROVE  /\ OnlyOld /\ OnlyOldFacts
         /\ \A p \in Page : p \in S => Current(p)'
<1>1. /\ OnlyOld
      /\ \A i \in DOMAIN images' : images'[i].page \notin S
      /\ \A p \in Page : data'[p] = IF p \in S THEN None ELSE data[p]
  BY ForgetProperties
<1>2. OnlyOldFacts
  BY <1>1 DEF OnlyOldFacts
<1>3. ASSUME NEW p \in Page, p \in S PROVE Current(p)'
  BY <1>1, <1>3 DEF Current
<1> QED
  BY <1>1, <1>2, <1>3

\* Lisp code begins, asks f.op with the request q and waits.
LEMMA PushFresh ==
  ASSUME SInv, SInv', FreshInv, FramesNested', OnlyOld, OnlyOldFacts,
         NEW f \in Frame, f.answer = None, frames' = Append(frames, f),
         stdin' = stdin \/ \E q \in Request : stdin' = Append(stdin, q) /\ q.op = f.op,
         f.op = "close" => stdin' # stdin,
         UNCHANGED <<doc, disk, changed, stdout, delayed>>,
         modified' = modified \/ f.op = "close"
  PROVE  FreshInv'
<1>1. Waiting /\ Images /\ Images'
  BY Parts, PartsNext
<1>2. /\ Len(frames') = Len(frames) + 1 /\ Len(frames) \in Nat
      /\ \A k \in 1..Len(frames) : frames'[k] = frames[k]
      /\ frames'[Len(frames) + 1] = f
      /\ DOMAIN frames' = 1..(Len(frames) + 1) /\ DOMAIN frames = 1..Len(frames)
  <2>1. frames \in Seq(Frame)
    BY <1>1 DEF Waiting
  <2>2. /\ frames' \in Seq(Frame) /\ Len(frames') = Len(frames) + 1 /\ Len(frames) \in Nat
        /\ \A k \in 1..Len(frames) : frames'[k] = frames[k]
        /\ frames'[Len(frames) + 1] = f
    BY <2>1, AppendProperties
  <2> QED
    BY <2>1, <2>2
<1>3. /\ \A k \in DOMAIN frames : k \in DOMAIN frames' /\ frames'[k] = frames[k]
      /\ \A k \in DOMAIN frames' : k \in DOMAIN frames \/ frames'[k] = f
  BY <1>2
<1>4. CloseUnserved => CloseUnserved'
  <2>1. CASE stdin' = stdin
    BY <2>1 DEF CloseUnserved
  <2>2. ASSUME NEW q \in Request, stdin' = Append(stdin, q) PROVE CloseUnserved => CloseUnserved'
    <3>1. stdin \in Seq(Request)
      BY <1>1 DEF Waiting
    <3>2. \A i \in 1..Len(stdin) : i \in DOMAIN stdin' /\ stdin'[i] = stdin[i]
      BY <2>2, <3>1, AppendProperties
    <3> QED
      BY <3>1, <3>2 DEF CloseUnserved
  <2> QED
    BY <2>1, <2>2
<1>5. f.op = "close" => CloseUnserved'
  <2> SUFFICES ASSUME f.op = "close" PROVE CloseUnserved'
    OBVIOUS
  <2>1. PICK q \in Request : stdin' = Append(stdin, q) /\ q.op = "close"
    OBVIOUS
  <2>2. stdin \in Seq(Request)
    BY <1>1 DEF Waiting
  <2>3. Len(stdin) + 1 \in DOMAIN stdin' /\ stdin'[Len(stdin) + 1] = q
    <3>1. /\ Append(stdin, q) \in Seq(Request) /\ Len(Append(stdin, q)) = Len(stdin) + 1
          /\ Append(stdin, q)[Len(stdin) + 1] = q /\ Len(stdin) \in Nat
      BY <2>2, AppendProperties
    <3> QED
      BY <2>1, <3>1
  <2> QED
    BY <2>1, <2>3 DEF CloseUnserved
<1>6. Closing => Closing'
  BY <1>3 DEF Closing
<1>7. Closing' => Closing \/ f.op = "close"
  BY <1>3 DEF Closing
<1>8. \A p \in Page : EditServed(p) => EditServed(p)'
  BY <1>3 DEF EditServed
<1>9. CachesFresh'
  BY <1>6, <1>8, CachesKept DEF FreshInv
<1>10. AnswersFresh'
  BY <1>3, AnswersKept DEF FreshInv
<1>11. ClosedForgotten'
  BY <1>1, <1>6, ForgottenKept DEF FreshInv
<1>12. FileKnown'
  BY <1>4, <1>5, <1>7, <1>8, FileKept DEF FreshInv
<1> QED
  BY <1>9, <1>10, <1>11, <1>12 DEF FreshInv

LEMMA CallFresh ==
  ASSUME SInv, SInv', FreshInv, OnlyOld, OnlyOldFacts,
         NEW op \in FrameOp, op # "atomic", NEW p \in Page \cup {None},
         NEW user \in BOOLEAN, Call(op, p, user),
         \/ op \in {"render", "data"}
         \/ frames = <<>>
         \/ Dragging /\ op = "edit",
         UNCHANGED delayed,
         modified' = modified \/ op = "close"
  PROVE  FreshInv'
<1> DEFINE f == NewFrame(op, p, user)
           q == Query(op, p, Len(frames) + 1)
<1>1. Waiting
  BY Parts
<1>2. f \in Frame /\ f.op = op /\ f.page = p /\ f.answer = None
  BY DEF NewFrame, Frame
<1>3. q \in Request /\ q.op = op
  <2>1. ((op = "toggle") # midnight) \in BOOLEAN
    BY Zenon
  <2>2. Len(frames) + 1 \in 0..MaxFrames
    BY <1>1, CacheAssumption DEF Call, Waiting
  <2> QED
    BY <2>1, <2>2 DEF Query, Request
<1>4. frames' = Append(frames, f) /\ stdin' = Append(stdin, q)
  BY DEF Call
<1> HIDE DEF f, q
<1>5. frames \in Seq(Frame) /\ stdin \in Seq(Request)
  BY <1>1 DEF Waiting
<1>6. stdin' # stdin
  <2>1. Len(stdin') = Len(stdin) + 1 /\ Len(stdin) \in Nat
    BY <1>3, <1>4, <1>5, AppendProperties
  <2> QED
    BY <2>1
<1>7. FramesNested'
  <2>1. Dragging => Len(frames) = 1 /\ frames[1].op = "atomic"
    <3> SUFFICES ASSUME Dragging PROVE Len(frames) = 1 /\ frames[1].op = "atomic"
      OBVIOUS
    <3>1. /\ Top = frames[Len(frames)] /\ Len(frames) \in DOMAIN frames
      BY <1>1, TopProperties DEF Dragging
    <3>2. frames[Len(frames)].op = "atomic"
      BY <3>1 DEF Dragging
    <3> QED
      BY <1>1, <3>1, <3>2 DEF Waiting, Orderly, FramesOrderly
  <2>2. frames = <<>> => Len(frames) = 0
    OBVIOUS
  <2> QED
    BY <1>2, <1>4, <1>5, <2>1, <2>2, PushNested DEF FreshInv
<1>8. UNCHANGED <<doc, disk, changed, stdout>>
  BY DEF Call, server
<1> QED
  BY <1>2, <1>3, <1>4, <1>6, <1>7, <1>8, PushFresh

LEMMA ReadFresh ==
  ASSUME SInv, SInv', FreshInv, NEW op \in {"render", "data"}, NEW p \in Page, Read(op, p)
  PROVE  FreshInv'
<1>1. PICK user \in BOOLEAN : UNCHANGED <<buffer, caches>> /\ Call(op, p, user)
  BY DEF Read
<1>2. OnlyOld /\ OnlyOldFacts
  BY <1>1, Parts, UnchangedCaches
<1>3. op \in FrameOp /\ op # "atomic"
  BY DEF FrameOp
<1> QED
  BY <1>1, <1>2, <1>3, CallFresh DEF buffer

\* Steps that change neither the code that waits nor the server.
LEMMA SameFresh ==
  ASSUME SInv, SInv', FreshInv, OnlyOld, OnlyOldFacts,
         UNCHANGED <<doc, disk, changed, stdout, frames, delayed, modified>>,
         CloseUnserved => CloseUnserved'
  PROVE  FreshInv'
<1>1. Waiting /\ Images /\ Images'
  BY Parts, PartsNext
<1>2. FramesNested'
  BY <1>1, StaysNested DEF FreshInv, Waiting
<1>3. Closing' <=> Closing
  BY DEF Closing
<1>4. \A p \in Page : EditServed(p) => EditServed(p)'
  BY DEF EditServed
<1>5. CachesFresh'
  BY <1>3, <1>4, CachesKept DEF FreshInv
<1>6. AnswersFresh'
  BY AnswersKept DEF FreshInv
<1>7. ClosedForgotten'
  BY <1>1, <1>3, ForgottenKept DEF FreshInv
<1>8. FileKnown'
  BY <1>3, <1>4, FileKept DEF FreshInv
<1> QED
  BY <1>2, <1>5, <1>6, <1>7, <1>8 DEF FreshInv

LEMMA RenderPageFresh ==
  ASSUME SInv, SInv', FreshInv, NEW p \in Page, RenderPage(p)
  PROVE  FreshInv'
<1>1. CASE Read("render", p)
  BY <1>1, ReadFresh
<1>2. CASE /\ Cached(p)
           /\ images' = Used(p)
           /\ UNCHANGED <<server, pipes, frames, data, buffer, fetching>>
  <2>1. Images /\ Facts
    BY Parts
  <2>2. OnlyOld
    BY <1>2, <2>1, UsedProperties DEF OnlyOld, Images
  <2>3. OnlyOldFacts
    BY <1>2, <2>1 DEF OnlyOldFacts
  <2>4. CloseUnserved' <=> CloseUnserved
    BY <1>2 DEF CloseUnserved, pipes
  <2> QED
    BY <1>2, <2>2, <2>3, <2>4, SameFresh DEF server, pipes, buffer
<1> QED
  BY <1>1, <1>2 DEF RenderPage

LEMMA EditFresh ==
  ASSUME SInv, SInv', FreshInv, NEW p \in Page, Edit(p)
  PROVE  FreshInv'
<1>1. OnlyOld /\ OnlyOldFacts
  BY Parts, UnchangedCaches DEF Edit
<1>2. frames = <<>> \/ Dragging
  BY DEF Edit, PreCommand, CommandLoop
<1>3. Call("edit", p, TRUE) /\ UNCHANGED buffer
  BY DEF Edit
<1> QED
  BY <1>1, <1>2, <1>3, CallFresh DEF buffer, FrameOp

LEMMA BeginAtomicFresh ==
  ASSUME SInv, SInv', FreshInv, BeginAtomic
  PROVE  FreshInv'
<1> DEFINE f == NewFrame("atomic", None, TRUE)
<1>1. OnlyOld /\ OnlyOldFacts
  BY Parts, UnchangedCaches DEF BeginAtomic
<1>2. f \in Frame /\ f.op = "atomic" /\ f.answer = None
  BY DEF NewFrame, Frame, FrameOp
<1>3. frames = <<>> /\ frames' = <<f>>
  BY DEF BeginAtomic, PreCommand, CommandLoop
<1>4. UNCHANGED <<server, pipes, buffer>>
  BY DEF BeginAtomic
<1> HIDE DEF f
<1>5. frames' = Append(frames, f) /\ Len(frames') = 1
  BY <1>2, <1>3
<1>6. FramesNested'
  <2>1. frames' \in Seq(Frame) /\ Len(frames') <= 1
    BY <1>2, <1>3
  <2> QED
    BY <2>1, ShortNested
<1> QED
  BY <1>1, <1>2, <1>4, <1>5, <1>6, PushFresh DEF server, pipes, buffer

LEMMA SaveFresh ==
  ASSUME SInv, SInv', FreshInv, Save
  PROVE  FreshInv'
<1>1. OnlyOld /\ OnlyOldFacts
  BY Parts, UnchangedCaches DEF Save
<1>2. frames = <<>> /\ Call("save", None, TRUE) /\ UNCHANGED buffer
  BY DEF Save, PreCommand, CommandLoop
<1> QED
  BY <1>1, <1>2, CallFresh DEF buffer, FrameOp

\* Here it matters that no sentinel reverts the buffer while Lisp code waits.
LEMMA RevertFresh ==
  ASSUME ~RevertNests, SInv, SInv', FreshInv, Revert
  PROVE  FreshInv'
<1>1. OnlyOld /\ OnlyOldFacts
  BY Parts, UnchangedCaches DEF Revert
<1>2. frames = <<>> /\ UNCHANGED delayed
  BY DEF Revert, PreCommand, CommandLoop
<1>3. PICK user \in BOOLEAN : Call("close", None, user)
  BY DEF Revert
<1> QED
  BY <1>1, <1>2, <1>3, CallFresh DEF FrameOp

LEMMA ToggleFresh ==
  ASSUME SInv, SInv', FreshInv, ToggleMidnight
  PROVE  FreshInv'
<1>1. OnlyOld /\ OnlyOldFacts
  BY Parts, UnchangedCaches DEF ToggleMidnight
<1>2. frames = <<>> /\ Call("toggle", None, TRUE) /\ UNCHANGED <<modified, delayed>>
  BY DEF ToggleMidnight, PreCommand, CommandLoop
<1> QED
  BY <1>1, <1>2, CallFresh DEF FrameOp

LEMMA AskNextSame ==
  ASSUME Waiting, NEW pages, AskNext(pages)
  PROVE  CloseUnserved => CloseUnserved'
<1>1. CASE UNCHANGED stdin
  BY <1>1 DEF CloseUnserved
<1>2. ASSUME NEW q, stdin' = Append(stdin, q) PROVE CloseUnserved => CloseUnserved'
  <2>1. \A i \in DOMAIN stdin : i \in DOMAIN stdin' /\ stdin'[i] = stdin[i]
    BY <1>2 DEF Waiting
  <2> QED
    BY <2>1 DEF CloseUnserved
<1> QED
  BY <1>1, <1>2 DEF AskNext

LEMMA PrefetchStartFresh ==
  ASSUME SInv, SInv', FreshInv, PrefetchStart
  PROVE  FreshInv'
<1>1. OnlyOld /\ OnlyOldFacts
  BY Parts, UnchangedCaches DEF PrefetchStart
<1>2. CloseUnserved => CloseUnserved'
  BY Parts, AskNextSame DEF PrefetchStart
<1>3. UNCHANGED <<doc, disk, changed, stdout, frames, delayed, modified>>
  BY DEF PrefetchStart, server, buffer
<1> QED
  BY <1>1, <1>2, <1>3, SameFresh

LEMMA PrefetchTimerFresh ==
  ASSUME SInv, SInv', FreshInv, PrefetchTimer
  PROVE  FreshInv'
<1>1. OnlyOld /\ OnlyOldFacts
  BY Parts, UnchangedCaches DEF PrefetchTimer
<1>2. CloseUnserved => CloseUnserved'
  <2>1. CASE AskNext(prefetch)
    BY <2>1, Parts, AskNextSame
  <2>2. CASE UNCHANGED stdin
    BY <2>2 DEF CloseUnserved
  <2> QED
    BY <2>1, <2>2 DEF PrefetchTimer
<1>3. UNCHANGED <<doc, disk, changed, stdout, frames, delayed, modified>>
  BY DEF PrefetchTimer, server, buffer
<1> QED
  BY <1>1, <1>2, <1>3, SameFresh

-----------------------------------------------------------------------------
(* Fresh caches: code that has its answer goes on.                         *)

LEMMA PopKeeps ==
  ASSUME Waiting, Ending, frames' = Front(frames), UNCHANGED stdout
  PROVE  /\ \A k \in DOMAIN frames' : k \in DOMAIN frames /\ frames'[k] = frames[k]
         /\ Closing => Closing' \/ Top.op = "close"
         /\ Closing' => Closing
         /\ \A p \in Page : EditServed(p) => \/ EditServed(p)'
                                             \/ Top.answer # None /\ Edits(Top, Top.answer, p)
<1>1. /\ Len(frames') = Len(frames) - 1 /\ Len(frames) \in Nat \ {0} /\ frames' \in Seq(Frame)
      /\ \A k \in 1..(Len(frames) - 1) : frames'[k] = frames[k]
      /\ Top = frames[Len(frames)] /\ frames \in Seq(Frame)
  BY FrontProperties DEF Waiting, Ending, Top
<1>2. /\ \A k \in DOMAIN frames' : k \in DOMAIN frames /\ frames'[k] = frames[k]
      /\ \A k \in DOMAIN frames :
           frames[k] = Top \/ (k \in DOMAIN frames' /\ frames'[k] = frames[k])
  <2>1. DOMAIN frames' = 1..(Len(frames) - 1) /\ DOMAIN frames = 1..Len(frames)
    BY <1>1
  <2>2. \A k \in 1..Len(frames) : k = Len(frames) \/ k \in 1..(Len(frames) - 1)
    BY <1>1
  <2>3. \A k \in 1..(Len(frames) - 1) : k \in 1..Len(frames)
    BY <1>1
  <2> QED
    BY <1>1, <2>1, <2>2, <2>3
<1>3. Closing => Closing' \/ Top.op = "close"
  BY <1>2 DEF Closing
<1>4. Closing' => Closing
  BY <1>2 DEF Closing
<1>5. ASSUME NEW p \in Page, EditServed(p)
      PROVE  EditServed(p)' \/ (Top.answer # None /\ Edits(Top, Top.answer, p))
  BY <1>2, <1>5 DEF EditServed
<1> QED
  BY <1>2, <1>3, <1>4, <1>5

\* Code that ends and does not read is the outermost, or an edit in a drag.
LEMMA TopOutermost ==
  ASSUME Waiting, FramesNested, Ending, Top.op \notin {"render", "data"}
  PROVE  /\ Len(frames) = 1 \/ (Top.op = "edit" /\ Len(frames) = 2)
         /\ Closing => Top.op = "close"
         /\ \A p \in Page : EditServed(p) => Top.answer # None /\ Edits(Top, Top.answer, p)
<1>1. Top = frames[Len(frames)] /\ Len(frames) \in Nat \ {0} /\ Len(frames) \in DOMAIN frames
  BY TopProperties DEF Ending
<1>2. /\ Len(frames) = 1 \/ (Top.op = "edit" /\ Len(frames) = 2)
      /\ \A j \in DOMAIN frames :
           j < Len(frames) => frames[j].op = "atomic" /\ frames[j].answer = None
  BY <1>1, CommandOutermost
<1>3. \A k \in DOMAIN frames : k = Len(frames) \/ k < Len(frames)
  BY <1>1 DEF Waiting
<1>4. Closing => Top.op = "close"
  BY <1>1, <1>2, <1>3 DEF Closing
<1>5. ASSUME NEW p \in Page, EditServed(p)
      PROVE  Top.answer # None /\ Edits(Top, Top.answer, p)
  <2>1. \A i \in DOMAIN stdout : ~Edits(stdout[i].request, stdout[i].answer, p)
    BY QuietFacts DEF Edits
  <2>2. PICK k \in DOMAIN frames : frames[k].answer # None /\ Edits(frames[k], frames[k].answer, p)
    BY <1>5, <2>1 DEF EditServed
  <2> QED
    BY <1>1, <1>2, <1>3, <2>2
<1> QED
  BY <1>2, <1>4, <1>5

\* Code ends, and what it did not tell the caches is still to be told.
LEMMA PopFresh ==
  ASSUME SInv, SInv', FreshInv, FramesNested', OnlyOld, OnlyOldFacts,
         UNCHANGED <<doc, disk, changed, stdin, stdout>>,
         \A k \in DOMAIN frames' : k \in DOMAIN frames /\ frames'[k] = frames[k],
         Closing => Closing',
         \A p \in Page : p \in delayed \/ EditServed(p)
                           => p \in delayed' \/ EditServed(p)' \/ Current(p)',
         modified => modified',
         \A p \in Page : EditServed(p) => modified' \/ EditServed(p)'
  PROVE  FreshInv'
<1>1. Waiting /\ Images /\ Images'
  BY Parts, PartsNext
<1>2. CloseUnserved => CloseUnserved'
  BY DEF CloseUnserved
<1>3. Closing' => Closing
  BY DEF Closing
<1>4. CachesFresh'
  BY CachesKept DEF FreshInv
<1>5. AnswersFresh'
  BY AnswersKept DEF FreshInv
<1>6. ClosedForgotten'
  BY <1>1, ForgottenKept DEF FreshInv
<1>7. FileKnown'
  BY <1>2, <1>3, FileKept DEF FreshInv
<1> QED
  BY <1>4, <1>5, <1>6, <1>7 DEF FreshInv

LEMMA EndAtomicFresh ==
  ASSUME SInv, SInv', FreshInv, EndAtomic
  PROVE  FreshInv'
<1>1. Waiting /\ Images /\ Facts /\ Ending /\ Top.op = "atomic"
  BY Parts DEF EndAtomic, Dragging, Ending
<1>2. frames' = Front(frames) /\ Forget(delayed) /\ UNCHANGED <<server, pipes, modified>>
  BY DEF EndAtomic
<1>3. OnlyOld /\ OnlyOldFacts /\ \A p \in Page : p \in delayed => Current(p)'
  BY <1>1, <1>2, ForgottenOld
<1>4. FramesNested'
  BY <1>1, <1>2, FrontNested DEF FreshInv, Waiting, Ending
<1>5. \A k \in DOMAIN frames' : k \in DOMAIN frames /\ frames'[k] = frames[k]
  BY <1>1, <1>2, PopKeeps DEF pipes
<1>6. ~Closing /\ \A p \in Page : ~EditServed(p)
  BY <1>1, TopOutermost DEF FreshInv, Edits
<1> QED
  BY <1>2, <1>3, <1>4, <1>5, <1>6, PopFresh DEF server, pipes

LEMMA EditReturnsFresh ==
  ASSUME SInv, SInv', FreshInv, frames # <<>>, Top.answer # None, UNCHANGED <<stdout, fetching>>,
         Top.op = "edit", EditReturns
  PROVE  FreshInv'
<1>1. Waiting /\ Images /\ Facts /\ Ending
  BY Parts DEF Ending
<1>2. frames' = Front(frames) /\ UNCHANGED <<server, stdin, stdout>> /\ modified' = TRUE
  BY DEF EditReturns, Finish
<1>3. FramesNested'
  BY <1>1, <1>2, FrontNested DEF FreshInv, Waiting, Ending
<1>4. \A k \in DOMAIN frames' : k \in DOMAIN frames /\ frames'[k] = frames[k]
  BY <1>1, <1>2, PopKeeps
<1>5. ~Closing /\ \A p \in Page : EditServed(p) => p = Top.page
  BY <1>1, TopOutermost DEF FreshInv, Edits
<1>6. /\ OnlyOld /\ OnlyOldFacts
      /\ \A p \in Page : p \in delayed \/ p = Top.page => p \in delayed' \/ Current(p)'
  <2>1. CASE Joined
    <3>1. OnlyOld /\ OnlyOldFacts
      BY <1>1, <2>1, UnchangedCaches DEF EditReturns
    <3> QED
      BY <2>1, <3>1 DEF EditReturns
  <2>2. CASE ~Joined
    <3>1. Forget(delayed \cup {Top.page})
      BY <2>2 DEF EditReturns
    <3> QED
      BY <1>1, <3>1, ForgottenOld
  <2> QED
    BY <2>1, <2>2
<1> QED
  BY <1>2, <1>3, <1>4, <1>5, <1>6, PopFresh DEF server

LEMMA OptionsReturnFresh ==
  ASSUME SInv, SInv', FreshInv, frames # <<>>, Top.answer # None, UNCHANGED <<stdout, fetching>>,
         Top.op \in {"toggle", "enable"}, OptionsReturn
  PROVE  FreshInv'
<1>1. Waiting /\ Images /\ Facts /\ Ending
  BY Parts DEF Ending
<1>2. /\ frames' = Front(frames) /\ UNCHANGED <<server, stdin, stdout, data, buffer>>
      /\ images' = <<>> \/ images' = images
  BY DEF OptionsReturn, Finish
<1>3. FramesNested'
  BY <1>1, <1>2, FrontNested DEF FreshInv, Waiting, Ending
<1>4. \A k \in DOMAIN frames' : k \in DOMAIN frames /\ frames'[k] = frames[k]
  BY <1>1, <1>2, PopKeeps
<1>5. ~Closing /\ \A p \in Page : ~EditServed(p)
  BY <1>1, TopOutermost DEF FreshInv, Edits
<1>6. OnlyOld /\ OnlyOldFacts
  BY <1>1, <1>2 DEF OnlyOld, OnlyOldFacts
<1> QED
  BY <1>2, <1>3, <1>4, <1>5, <1>6, PopFresh DEF server, buffer

LEMMA ErrorReturnsFresh ==
  ASSUME SInv, SInv', FreshInv, frames # <<>>, Top.answer # None, UNCHANGED <<stdout, fetching>>,
         ~Top.answer.ok, ErrorReturns
  PROVE  FreshInv'
<1>1. Waiting /\ Images /\ Facts /\ Ending
  BY Parts DEF Ending
<1>2. UNCHANGED <<server, stdin, stdout, modified>>
  BY DEF ErrorReturns
<1>3. \A p \in Page : ~Edits(Top, Top.answer, p)
  BY DEF Edits
<1>4. CASE Joined
  <2>1. Top.op = "edit" /\ Len(frames) = 2
    <3>1. Top.op = "edit" /\ Len(frames) > 1
      BY <1>4 DEF Joined
    <3>2. Len(frames) = 1 \/ Len(frames) = 2
      BY <1>1, <3>1, TopOutermost DEF FreshInv
    <3> QED
      BY <3>1, <3>2
  <2>2. ~Closing /\ \A p \in Page : ~EditServed(p)
    BY <1>1, <1>3, <2>1, TopOutermost DEF FreshInv
  <2>3. frames' = Front(Front(frames))
    BY <1>4 DEF ErrorReturns
  <2>4. Len(frames') = 0 /\ DOMAIN frames' = {} /\ frames' \in Seq(Frame)
    <3> DEFINE fs == Front(frames)
    <3>1. fs \in Seq(Frame) /\ Len(fs) = 1
      <4>1. fs \in Seq(Frame) /\ Len(fs) = Len(frames) - 1
        BY <1>1, FrontProperties DEF Waiting
      <4> HIDE DEF fs
      <4> QED
        BY <2>1, <4>1
    <3> HIDE DEF fs
    <3>2. fs # <<>> /\ frames' = Front(fs)
      BY <2>3, <3>1 DEF fs
    <3>3. frames' \in Seq(Frame) /\ Len(frames') = 0
      BY <3>1, <3>2, FrontProperties
    <3> QED
      BY <3>3
  <2>5. FramesNested'
    BY <2>4, ShortNested
  <2>6. CASE UNCHANGED <<delayed, caches>>
    <3>1. OnlyOld /\ OnlyOldFacts
      BY <1>1, <2>6, UnchangedCaches
    <3> QED
      BY <1>2, <2>2, <2>4, <2>5, <2>6, <3>1, PopFresh DEF server
  <2>7. CASE delayed' = {} /\ Forget(delayed)
    <3>1. OnlyOld /\ OnlyOldFacts /\ \A p \in Page : p \in delayed => Current(p)'
      BY <1>1, <2>7, ForgottenOld
    <3> QED
      BY <1>2, <2>2, <2>4, <2>5, <3>1, PopFresh DEF server
  <2> QED
    BY <1>4, <2>6, <2>7 DEF ErrorReturns
<1>5. CASE ~Joined
  <2>1. frames' = Front(frames) /\ UNCHANGED <<delayed, caches>>
    BY <1>5 DEF ErrorReturns
  <2>2. OnlyOld /\ OnlyOldFacts
    BY <1>1, <2>1, UnchangedCaches
  <2>3. Top.op # "close"
    BY <1>1, TopProperties DEF Replied
  <2>4. FramesNested'
    BY <1>1, <2>1, FrontNested DEF FreshInv, Waiting, Ending
  <2>5. /\ \A k \in DOMAIN frames' : k \in DOMAIN frames /\ frames'[k] = frames[k]
        /\ Closing => Closing'
        /\ \A p \in Page : EditServed(p) => EditServed(p)'
    BY <1>1, <1>2, <1>3, <2>1, <2>3, PopKeeps
  <2> QED
    BY <1>2, <2>1, <2>2, <2>4, <2>5, PopFresh DEF server
<1> QED
  BY <1>4, <1>5

\* What a page answers is cached while it is current.
LEMMA RenderReturnsFresh ==
  ASSUME SInv, SInv', FreshInv, frames # <<>>, Top.answer # None, UNCHANGED <<stdout, fetching>>,
         Top.answer.ok, Top.op = "render", RenderReturns
  PROVE  FreshInv'
<1>1. Waiting /\ Images /\ Facts /\ Ending
  BY Parts DEF Ending
<1>2. /\ frames' = Front(frames) /\ UNCHANGED <<server, stdin, stdout, data, buffer>>
      /\ images' = Put(Top.page, Top.answer.shows)
  BY DEF RenderReturns, Finish
<1>3. FramesNested'
  BY <1>1, <1>2, FrontNested DEF FreshInv, Waiting, Ending
<1>4. /\ \A k \in DOMAIN frames' : k \in DOMAIN frames /\ frames'[k] = frames[k]
      /\ Closing => Closing'
      /\ Closing' => Closing
      /\ \A p \in Page : EditServed(p) => EditServed(p)'
  BY <1>1, <1>2, PopKeeps DEF Edits
<1>5. /\ Top.page \in Page /\ Top.answer.shows \in Shown
      /\ Top.answer.shows.pages[Top.page] \in Version
  BY <1>1, TopProperties DEF Named, Replied, Reading
<1>6. Fresh(doc, Top.answer, Top.page)
  <2>1. Top = frames[Len(frames)] /\ Len(frames) \in DOMAIN frames
    BY <1>1, TopProperties
  <2> QED
    BY <2>1 DEF FreshInv, AnswersFresh, Reading
<1>7. doc # None /\ Top.answer.shows.pages[Top.page] = Opened.pages[Top.page]
  BY <1>5, <1>6 DEF Fresh, Opened
<1>8. /\ images \in Seq(Image)
      /\ \A i \in DOMAIN images' :
           \/ images'[i].page = Top.page /\ images'[i].version = Opened.pages[Top.page]
           \/ \E j \in DOMAIN images : images'[i] = images[j]
  BY <1>1, <1>2, <1>5, <1>7, PutProperties DEF Images, Shown
<1>9. ASSUME NEW p \in Page, Current(p) PROVE Current(p)'
  <2>1. Opened' = Opened /\ data' = data
    BY <1>2 DEF Opened, server
  <2>2. ASSUME NEW i \in DOMAIN images', images'[i].page = p
        PROVE  images'[i].version = Opened.pages[p]
    BY <1>8, <1>9, <2>2 DEF Current
  <2> QED
    BY <1>9, <2>1, <2>2 DEF Current
<1>10. CachesFresh'
  <2>1. delayed' = delayed
    BY <1>2 DEF buffer
  <2> QED
    BY <1>4, <1>9, <2>1 DEF FreshInv, CachesFresh
<1>11. AnswersFresh'
  BY <1>2, <1>4, AnswersKept DEF FreshInv, server
<1>12. ClosedForgotten'
  BY <1>2, <1>7 DEF ClosedForgotten, server
<1>13. FileKnown'
  <2>1. CloseUnserved => CloseUnserved'
    BY <1>2 DEF CloseUnserved
  <2> QED
    BY <1>2, <1>4, <2>1, FileKept DEF FreshInv, server, buffer
<1> QED
  BY <1>3, <1>10, <1>11, <1>12, <1>13 DEF FreshInv

LEMMA DataReturnsFresh ==
  ASSUME SInv, SInv', FreshInv, frames # <<>>, Top.answer # None, UNCHANGED <<stdout, fetching>>,
         Top.answer.ok, Top.op = "data", DataReturns
  PROVE  FreshInv'
<1>1. Waiting /\ Images /\ Facts /\ Ending
  BY Parts DEF Ending
<1>2. /\ frames' = Front(frames) /\ UNCHANGED <<server, stdin, stdout, images, buffer>>
      /\ data' = [data EXCEPT ![Top.page] = Top.answer.shows.pages[Top.page]]
  BY DEF DataReturns, Finish
<1>3. FramesNested'
  BY <1>1, <1>2, FrontNested DEF FreshInv, Waiting, Ending
<1>4. /\ \A k \in DOMAIN frames' : k \in DOMAIN frames /\ frames'[k] = frames[k]
      /\ Closing => Closing'
      /\ Closing' => Closing
      /\ \A p \in Page : EditServed(p) => EditServed(p)'
  BY <1>1, <1>2, PopKeeps DEF Edits
<1>5. Top.page \in Page
  BY <1>1, TopProperties DEF Named
<1>6. Fresh(doc, Top.answer, Top.page)
  <2>1. Top = frames[Len(frames)] /\ Len(frames) \in DOMAIN frames
    BY <1>1, TopProperties
  <2> QED
    BY <2>1 DEF FreshInv, AnswersFresh, Reading
<1>7. doc # None /\ Top.answer.shows.pages[Top.page] = Opened.pages[Top.page]
  BY <1>5, <1>6 DEF Fresh, Opened
<1>8. \A p \in Page : data'[p] \in {data[p], Opened.pages[p]}
  BY <1>1, <1>2, <1>7 DEF Facts
<1>9. ASSUME NEW p \in Page, Current(p) PROVE Current(p)'
  <2>1. Opened' = Opened /\ images' = images
    BY <1>2 DEF Opened, server
  <2> QED
    BY <1>8, <1>9, <2>1 DEF Current
<1>10. CachesFresh'
  <2>1. delayed' = delayed
    BY <1>2 DEF buffer
  <2> QED
    BY <1>4, <1>9, <2>1 DEF FreshInv, CachesFresh
<1>11. AnswersFresh'
  BY <1>2, <1>4, AnswersKept DEF FreshInv, server
<1>12. ClosedForgotten'
  BY <1>2, <1>7 DEF ClosedForgotten, server
<1>13. FileKnown'
  <2>1. CloseUnserved => CloseUnserved'
    BY <1>2 DEF CloseUnserved
  <2> QED
    BY <1>2, <1>4, <2>1, FileKept DEF FreshInv, server, buffer
<1> QED
  BY <1>3, <1>10, <1>11, <1>12, <1>13 DEF FreshInv

\* A save writes what the document is, and then closes it.
LEMMA SaveReturnsFresh ==
  ASSUME SInv, SInv', FreshInv, frames # <<>>, Top.answer # None, UNCHANGED <<stdout, fetching>>,
         Top.answer.ok, Top.op = "save", SaveReturns
  PROVE  FreshInv'
<1> DEFINE f == NewFrame("close", None, Top.user)
           fs == Front(frames)
<1>1. Waiting /\ Plain /\ Ending
  BY Parts DEF Ending
<1>2. Len(frames) = 1
  BY <1>1, TopOutermost DEF FreshInv
<1>3. /\ Top.page = None /\ Top = frames[1] /\ 1 \in DOMAIN frames /\ Top \in Frame
      /\ Replied(Top, Top.answer)
  BY <1>1, <1>2, TopProperties DEF Named
<1>4. f \in Frame /\ f.op = "close" /\ f.answer = None
  BY <1>3 DEF NewFrame, Frame, FrameOp
<1>5. frames' = Append(fs, f) /\ UNCHANGED <<doc, stdout, delayed>> /\ disk' = Top.answer.shows.pages
  BY DEF SaveReturns, GoOn, buffer
<1>6. /\ frames' \in Seq(Frame) /\ Len(frames') = 1 /\ DOMAIN frames' = {1} /\ frames'[1] = f
  <2>1. fs \in Seq(Frame) /\ Len(fs) = 0
    <3>1. fs \in Seq(Frame) /\ Len(fs) = Len(frames) - 1
      BY <1>1, FrontProperties DEF Waiting, Ending
    <3> HIDE DEF fs
    <3> QED
      BY <1>2, <3>1
  <2> HIDE DEF f, fs
  <2>2. /\ frames' \in Seq(Frame) /\ Len(frames') = Len(fs) + 1 /\ frames'[Len(fs) + 1] = f
    BY <1>4, <1>5, <2>1, AppendProperties
  <2>3. Len(fs) + 1 = 1 /\ DOMAIN frames' = 1..(Len(fs) + 1)
    BY <2>1, <2>2
  <2> QED
    BY <2>2, <2>3
<1> HIDE DEF f, fs
<1>7. doc # None /\ \A p \in Page : Top.answer.shows.pages[p] = doc.pages[p]
  <2>1. Fresh(doc, Top.answer, None)
    BY <1>3 DEF FreshInv, AnswersFresh, Reading
  <2> QED
    BY <2>1 DEF Fresh
<1>8. disk' = doc.pages
  <2>1. Top.answer.shows \in Shown
    BY <1>3 DEF Replied, Reading
  <2>2. doc \in Document
    BY <1>1, <1>7 DEF Plain
  <2> QED
    BY <1>5, <1>7, <2>1, <2>2 DEF Shown, Document, Content
<1>9. FramesNested'
  BY <1>6, ShortNested
<1>10. CachesFresh'
  <2>1. Closing'
    BY <1>4, <1>6 DEF Closing
  <2> QED
    BY <2>1 DEF CachesFresh
<1>11. AnswersFresh'
  <2>1. \A k \in DOMAIN frames' : frames'[k].answer = None
    BY <1>4, <1>6
  <2> QED
    BY <1>5, <2>1, AnswersKept DEF FreshInv
<1>12. ClosedForgotten'
  BY <1>5, <1>7 DEF ClosedForgotten
<1>13. FileKnown'
  BY <1>5, <1>8 DEF FileKnown
<1> QED
  BY <1>9, <1>10, <1>11, <1>12, <1>13 DEF FreshInv

\* A close makes the caches forget everything.
LEMMA CloseReturnsFresh ==
  ASSUME SInv, SInv', FreshInv, frames # <<>>, Top.answer # None, UNCHANGED <<stdout, fetching>>,
         Top.op = "close", CloseReturns
  PROVE  FreshInv'
<1>1. Waiting /\ Images /\ Facts /\ Ending /\ Waiting' /\ Images' /\ Facts'
  BY Parts, PartsNext DEF Ending
<1>2. Len(frames) = 1 /\ Top = frames[1] /\ 1 \in DOMAIN frames
  BY <1>1, TopOutermost, TopProperties DEF FreshInv
<1>3. UNCHANGED <<doc, disk, changed, stdout, delayed>> /\ Forget(Page)
  BY DEF CloseReturns, server
<1>4. NoneCached'
  <2>1. /\ \A i \in DOMAIN images' : images'[i].page \notin Page
        /\ \A p \in Page : data'[p] = None
    BY <1>1, <1>3, ForgetProperties
  <2>2. images' \in Seq(Image)
    BY <1>1 DEF Images
  <2>3. ASSUME NEW i \in DOMAIN images' PROVE images'[i].page \in Page
    <3>1. images'[i] \in Image
      BY <2>2
    <3> QED
      BY <3>1 DEF Image
  <2>4. images' = <<>>
    BY <2>1, <2>2, <2>3
  <2> QED
    BY <2>1, <2>4 DEF NoneCached
<1>5. Len(frames') <= 1 /\ \A k \in DOMAIN frames' : frames'[k].answer = None /\ frames'[k].op # "close"
  <2> DEFINE fs == Front(frames)
             f == NewFrame("enable", None, Top.user)
  <2>1. fs \in Seq(Frame) /\ Len(fs) = 0
    <3>1. fs \in Seq(Frame) /\ Len(fs) = Len(frames) - 1
      BY <1>1, FrontProperties DEF Waiting, Ending
    <3> HIDE DEF fs
    <3> QED
      BY <1>2, <3>1
  <2>2. frames' = fs \/ frames' = Append(fs, f)
    BY DEF CloseReturns, GoOn, Finish
  <2>3. f \in Frame /\ f.op = "enable" /\ f.answer = None
    <3>1. Top \in Frame
      BY <1>1, TopProperties DEF Ending
    <3> QED
      BY <3>1 DEF NewFrame, Frame, FrameOp
  <2> HIDE DEF f, fs
  <2>4. CASE frames' = fs
    <3>1. DOMAIN fs = {}
      BY <2>1
    <3> QED
      BY <2>1, <2>4, <3>1
  <2>5. CASE frames' = Append(fs, f)
    <3>1. /\ frames' \in Seq(Frame) /\ Len(frames') = Len(fs) + 1 /\ frames'[Len(fs) + 1] = f
      BY <2>1, <2>3, <2>5, AppendProperties
    <3>2. Len(fs) + 1 = 1 /\ DOMAIN frames' = 1..(Len(fs) + 1)
      BY <2>1, <3>1
    <3> QED
      BY <2>3, <3>1, <3>2
  <2> QED
    BY <2>2, <2>4, <2>5
<1>6. FramesNested'
  BY <1>1, <1>5, ShortNested DEF Waiting
<1>7. CachesFresh'
  <2>1. ASSUME NEW p \in Page PROVE Current(p)'
    BY <1>4 DEF Current, NoneCached
  <2> QED
    BY <2>1 DEF CachesFresh
<1>8. AnswersFresh'
  BY <1>3, <1>5, AnswersKept DEF FreshInv
<1>9. ClosedForgotten'
  <2>1. OnlyOld /\ OnlyOldFacts
    BY <1>1, <1>3, ForgottenOld
  <2> QED
    BY <1>1, <1>3, <1>4, <2>1, ForgottenKept DEF FreshInv
<1>10. FileKnown'
  <2>1. Closing /\ ~CloseUnserved
    BY <1>1, <1>2, QuietFacts DEF Closing
  <2>2. ~(doc # None /\ ~changed /\ doc.pages # disk)
    BY <2>1 DEF FreshInv, FileKnown
  <2> QED
    BY <1>3, <2>2 DEF FileKnown
<1> QED
  BY <1>6, <1>7, <1>8, <1>9, <1>10 DEF FreshInv

LEMMA ReturnFresh ==
  ASSUME SInv, SInv', FreshInv, Return
  PROVE  FreshInv'
<1>1. frames # <<>> /\ Top.answer # None /\ UNCHANGED <<stdout, fetching>>
  BY DEF Return
<1>2. CASE ~Top.answer.ok /\ ErrorReturns
  BY <1>1, <1>2, ErrorReturnsFresh
<1>3. CASE Top.answer.ok /\ Top.op = "render" /\ RenderReturns
  BY <1>1, <1>3, RenderReturnsFresh
<1>4. CASE Top.answer.ok /\ Top.op = "data" /\ DataReturns
  BY <1>1, <1>4, DataReturnsFresh
<1>5. CASE Top.op = "edit" /\ EditReturns
  BY <1>1, <1>5, EditReturnsFresh
<1>6. CASE Top.answer.ok /\ Top.op = "save" /\ SaveReturns
  BY <1>1, <1>6, SaveReturnsFresh
<1>7. CASE Top.op = "close" /\ CloseReturns
  BY <1>1, <1>7, CloseReturnsFresh
<1>8. CASE Top.op \in {"toggle", "enable"} /\ OptionsReturn
  BY <1>1, <1>8, OptionsReturnFresh
<1> QED
  BY <1>2, <1>3, <1>4, <1>5, <1>6, <1>7, <1>8 DEF Return

-----------------------------------------------------------------------------
(* Fresh caches: answers arrive.                                           *)

\* Reading the first answer moves the others up.
LEMMA TailMoves ==
  ASSUME stdout \in Seq(Reply), stdout # <<>>, stdout' = Tail(stdout)
  PROVE  /\ 1 \in DOMAIN stdout /\ stdout[1] = Head(stdout)
         /\ \A i \in DOMAIN stdout' : i + 1 \in DOMAIN stdout /\ stdout'[i] = stdout[i + 1]
         /\ \A j \in DOMAIN stdout :
              j = 1 \/ (j - 1 \in DOMAIN stdout' /\ stdout'[j - 1] = stdout[j] /\ j > 1)
         /\ stdout' = <<>> \/ stdout'[Len(stdout')] = stdout[Len(stdout)]
         /\ \A i \in DOMAIN stdout', p \in Page \cup {None} :
              NewsBehind(stdout, i + 1, p) => NewsBehind(stdout', i, p)
<1>1. /\ stdout' \in Seq(Reply) /\ Len(stdout') = Len(stdout) - 1 /\ Len(stdout) \in Nat \ {0}
      /\ Head(stdout) = stdout[1]
      /\ \A i \in 1..(Len(stdout) - 1) : stdout'[i] = stdout[i + 1]
  BY TailProperties
<1>2. DOMAIN stdout' = 1..(Len(stdout) - 1) /\ DOMAIN stdout = 1..Len(stdout)
  BY <1>1
<1>3. 1 \in DOMAIN stdout
  BY <1>1, <1>2
<1>4. \A i \in DOMAIN stdout' : i + 1 \in DOMAIN stdout /\ stdout'[i] = stdout[i + 1]
  BY <1>1, <1>2
<1>5. ASSUME NEW j \in DOMAIN stdout, j # 1
      PROVE  j - 1 \in DOMAIN stdout' /\ stdout'[j - 1] = stdout[j] /\ j > 1
  <2>1. j - 1 \in 1..(Len(stdout) - 1) /\ (j - 1) + 1 = j /\ j > 1
    BY <1>1, <1>2, <1>5
  <2> QED
    BY <1>1, <1>2, <2>1
<1>6. stdout' = <<>> \/ stdout'[Len(stdout')] = stdout[Len(stdout)]
  <2>1. CASE Len(stdout) = 1
    <3>1. Len(stdout') = 0
      BY <1>1, <2>1
    <3> QED
      BY <1>1, <3>1
  <2>2. CASE Len(stdout) # 1
    <3>1. Len(stdout') \in 1..(Len(stdout) - 1) /\ Len(stdout') + 1 = Len(stdout)
      BY <1>1, <2>2
    <3> QED
      BY <1>1, <3>1
  <2> QED
    BY <2>1, <2>2
<1>7. ASSUME NEW i \in DOMAIN stdout', NEW p \in Page \cup {None}, NewsBehind(stdout, i + 1, p)
      PROVE  NewsBehind(stdout', i, p)
  <2>1. PICK j \in DOMAIN stdout :
          /\ i + 1 < j
          /\ stdout[j].request.op = "close" \/ Edits(stdout[j].request, stdout[j].answer, p)
    BY <1>7 DEF NewsBehind
  <2>2. j # 1 /\ i < j - 1
    BY <1>1, <1>2, <2>1
  <2>3. j - 1 \in DOMAIN stdout' /\ stdout'[j - 1] = stdout[j]
    BY <1>5, <2>2
  <2> QED
    BY <2>1, <2>2, <2>3 DEF NewsBehind
<1> QED
  BY <1>1, <1>3, <1>4, <1>5, <1>6, <1>7

\* The answers that stay behind stay fresh, or the news behind them.
LEMMA TailFresh ==
  ASSUME Waiting, AnswersFresh, stdout # <<>>, stdout' = Tail(stdout), UNCHANGED doc,
         NEW i \in DOMAIN stdout', stdout'[i].request.op \in Reading, stdout'[i].answer.ok
  PROVE  \/ Fresh(doc', stdout'[i].answer, stdout'[i].request.page)
         \/ stdout'[i].request.by = 0 /\ NewsBehind(stdout', i, stdout'[i].request.page)
<1>1. stdout \in Seq(Reply)
  BY DEF Waiting
<1>2. i + 1 \in DOMAIN stdout /\ stdout'[i] = stdout[i + 1]
  BY <1>1, TailMoves
<1>3. \/ Fresh(doc, stdout[i + 1].answer, stdout[i + 1].request.page)
      \/ stdout[i + 1].request.by = 0 /\ NewsBehind(stdout, i + 1, stdout[i + 1].request.page)
  BY <1>2 DEF AnswersFresh
<1>4. stdout[i + 1].request.page \in Page \cup {None}
  <2>1. stdout[i + 1] \in Reply
    BY <1>1, <1>2
  <2>2. stdout[i + 1].request \in Request
    BY <2>1 DEF Reply
  <2> QED
    BY <2>2 DEF Request
<1> QED
  BY <1>1, <1>2, <1>3, <1>4, TailMoves

\* The answer goes to the code that waits for it.
LEMMA AnswerFresh ==
  ASSUME SInv, SInv', FreshInv, stdout # <<>>, stdout' = Tail(stdout),
         Head(stdout).request.by # 0,
         frames' = [frames EXCEPT ![Head(stdout).request.by].answer = Head(stdout).answer],
         UNCHANGED <<server, stdin, caches, buffer, fetching>>
  PROVE  FreshInv'
<1> DEFINE r == Head(stdout).request
           a == Head(stdout).answer
           k == r.by
<1>1. Waiting /\ Images /\ Facts /\ Images'
  BY Parts, PartsNext
<1>2. stdout \in Seq(Reply) /\ frames \in Seq(Frame) /\ 1 \in DOMAIN stdout /\ stdout[1] = Head(stdout)
  BY <1>1, TailMoves DEF Waiting
<1>3. Expected(stdout[1].request)
  BY <1>1, <1>2, AllExpected
<1>4. k \in DOMAIN frames /\ frames[k].op = r.op /\ frames[k].page = r.page /\ frames[k].answer = None
  BY <1>2, <1>3 DEF Expected
<1> HIDE DEF r, a, k
<1>5. /\ DOMAIN frames' = DOMAIN frames
      /\ \A j \in DOMAIN frames : j # k => frames'[j] = frames[j]
      /\ \A j \in DOMAIN frames : frames'[j].op = frames[j].op /\ frames'[j].page = frames[j].page
      /\ frames'[k].answer = a
  <2>1. frames' = [frames EXCEPT ![k] = [frames[k] EXCEPT !.answer = a]]
    BY DEF k, r, a
  <2>2. /\ DOMAIN frames' = DOMAIN frames
        /\ \A j \in DOMAIN frames : j # k => frames'[j] = frames[j]
        /\ frames'[k] = [frames[k] EXCEPT !.answer = a]
    BY <1>2, <1>4, <2>1
  <2>3. frames[k] \in Frame
    BY <1>2, <1>4
  <2>4. /\ [frames[k] EXCEPT !.answer = a].op = frames[k].op
        /\ [frames[k] EXCEPT !.answer = a].page = frames[k].page
        /\ [frames[k] EXCEPT !.answer = a].answer = a
    BY <2>3 DEF Frame
  <2> QED
    BY <2>2, <2>4
<1>6. a # None
  <2>1. a \in Answer
    BY <1>1, HeadProperties DEF a
  <2> QED
    BY <2>1, NoneAssumption
<1>7. FramesNested'
  BY <1>2, <1>5 DEF FreshInv, FramesNested
<1>8. Closing' <=> Closing
  BY <1>5 DEF Closing
<1>9. ASSUME NEW p \in Page, EditServed(p) PROVE EditServed(p)'
  <2>1. ASSUME NEW j \in DOMAIN frames, frames[j].answer # None,
               Edits(frames[j], frames[j].answer, p)
        PROVE  EditServed(p)'
    <3>1. j # k
      BY <1>4, <2>1
    <3> QED
      BY <1>5, <2>1, <3>1 DEF EditServed
  <2>2. ASSUME NEW i \in DOMAIN stdout, Edits(stdout[i].request, stdout[i].answer, p)
        PROVE  EditServed(p)'
    <3>1. CASE i = 1
      <4>1. frames'[k].op = "edit" /\ frames'[k].page = p /\ a.ok
        BY <1>2, <1>4, <1>5, <2>2, <3>1 DEF Edits, r, a
      <4> QED
        BY <1>4, <1>5, <1>6, <4>1 DEF EditServed, Edits
    <3>2. CASE i # 1
      <4>1. i - 1 \in DOMAIN stdout' /\ stdout'[i - 1] = stdout[i]
        BY <1>2, <3>2, TailMoves
      <4> QED
        BY <2>2, <4>1 DEF EditServed
    <3> QED
      BY <3>1, <3>2
  <2> QED
    BY <1>9, <2>1, <2>2 DEF EditServed
<1>10. OnlyOld /\ OnlyOldFacts
  BY <1>1, UnchangedCaches
<1>11. CachesFresh'
  BY <1>8, <1>9, <1>10, CachesKept DEF FreshInv, server, buffer
<1>12. AnswersFresh'
  <2>1. ASSUME NEW j \in DOMAIN frames', frames'[j].op \in Reading, frames'[j].answer # None,
               frames'[j].answer.ok
        PROVE  Fresh(doc', frames'[j].answer, frames'[j].page)
    <3>1. doc' = doc
      BY DEF server
    <3>2. CASE j # k
      BY <1>5, <2>1, <3>1, <3>2 DEF FreshInv, AnswersFresh
    <3>3. CASE j = k
      <4>1. /\ stdout[1].request.op \in Reading /\ stdout[1].answer.ok
            /\ stdout[1].request.by # 0
        BY <1>2, <1>4, <1>5, <2>1, <3>3 DEF r, a
      <4>2. Fresh(doc, stdout[1].answer, stdout[1].request.page)
        BY <1>2, <4>1 DEF FreshInv, AnswersFresh
      <4> QED
        BY <1>2, <1>4, <1>5, <3>1, <3>3, <4>2 DEF r, a
    <3> QED
      BY <3>2, <3>3
  <2>2. ASSUME NEW i \in DOMAIN stdout', stdout'[i].request.op \in Reading, stdout'[i].answer.ok
        PROVE  \/ Fresh(doc', stdout'[i].answer, stdout'[i].request.page)
               \/ stdout'[i].request.by = 0 /\ NewsBehind(stdout', i, stdout'[i].request.page)
    BY <1>1, <2>2, TailFresh DEF FreshInv, server
  <2> QED
    BY <2>1, <2>2 DEF AnswersFresh
<1>13. ClosedForgotten'
  <2>1. NoneCached => NoneCached'
    BY DEF NoneCached, caches
  <2>2. stdout' = <<>> \/ stdout'[Len(stdout')] = stdout[Len(stdout)]
    BY <1>2, TailMoves
  <2>3. doc' = doc
    BY DEF server
  <2> QED
    BY <1>8, <2>1, <2>2, <2>3 DEF FreshInv, ClosedForgotten, NoneCached
<1>14. FileKnown'
  <2>1. CloseUnserved' <=> CloseUnserved
    BY DEF CloseUnserved
  <2> QED
    BY <1>8, <1>9, <2>1, FileKept DEF FreshInv, server, buffer
<1> QED
  BY <1>7, <1>11, <1>12, <1>13, <1>14 DEF FreshInv

\* A prefetched image arrives, with whatever news come behind it.
LEMMA PrefetchCallbackFresh ==
  ASSUME SInv, SInv', FreshInv, stdout # <<>>, stdout' = Tail(stdout),
         Head(stdout).request.by = 0,
         PrefetchCallback(Head(stdout).request.page, Head(stdout).answer)
  PROVE  FreshInv'
<1> DEFINE a == Head(stdout).answer
<1>1. Waiting /\ Images /\ Facts /\ Images' /\ Waiting'
  BY Parts, PartsNext
<1>2. stdout \in Seq(Reply) /\ frames \in Seq(Frame) /\ 1 \in DOMAIN stdout /\ stdout[1] = Head(stdout)
  BY <1>1, TailMoves DEF Waiting
<1>3. Head(stdout).request.op = "render"
  <2>1. Expected(stdout[1].request)
    BY <1>1, <1>2, AllExpected
  <2> QED
    BY <1>2, <2>1 DEF Expected
<1>4. PICK q \in Page : /\ q = Head(stdout).request.page
                        /\ a.ok => a.shows \in Shown /\ a.shows.pages[q] \in Version
  BY <1>1, <1>3, HeadProperties DEF Named, Replied, Reading
<1> DEFINE f == NewFrame("render", q, FALSE)
<1>5. f \in Frame /\ f.op = "render" /\ f.answer = None
  BY <1>4 DEF NewFrame, Frame, FrameOp
<1>6. a.ok => Fresh(doc, a, q) \/ NewsBehind(stdout, 1, q)
  BY <1>2, <1>3, <1>4 DEF FreshInv, AnswersFresh, Reading
<1>7. /\ UNCHANGED <<server, data, buffer>>
      /\ images' = images \/ (a.ok /\ images' = Put(q, a.shows))
      /\ UNCHANGED <<stdin, frames>> \/ (/\ frames' = Append(frames, f)
                                         /\ stdin' = Append(stdin, Query("render", q, Len(frames) + 1)))
  BY <1>4 DEF PrefetchCallback
<1> HIDE DEF a, f
<1>8. /\ \A k \in DOMAIN frames : k \in DOMAIN frames' /\ frames'[k] = frames[k]
      /\ \A k \in DOMAIN frames' :
           (k \in DOMAIN frames /\ frames'[k] = frames[k]) \/ frames'[k] = f
  <2>1. CASE frames' = frames
    BY <2>1
  <2>2. CASE frames' = Append(frames, f)
    <3>1. /\ Append(frames, f) \in Seq(Frame) /\ Len(Append(frames, f)) = Len(frames) + 1
          /\ Len(frames) \in Nat
          /\ \A k \in 1..Len(frames) : Append(frames, f)[k] = frames[k]
          /\ Append(frames, f)[Len(frames) + 1] = f
      BY <1>2, <1>5, AppendProperties
    <3>2. DOMAIN frames = 1..Len(frames) /\ DOMAIN frames' = 1..(Len(frames) + 1)
      BY <1>2, <2>2, <3>1
    <3>3. \A k \in 1..(Len(frames) + 1) : k \in 1..Len(frames) \/ k = Len(frames) + 1
      BY <3>1
    <3>4. \A k \in 1..Len(frames) : k \in 1..(Len(frames) + 1)
      BY <3>1
    <3> QED
      BY <2>2, <3>1, <3>2, <3>3, <3>4
  <2> QED
    BY <1>7, <2>1, <2>2
<1>9. FramesNested'
  BY <1>2, <1>5, <1>7, StaysNested, PushNested DEF FreshInv
<1>10. Closing' <=> Closing
  BY <1>5, <1>8 DEF Closing
<1>11. ASSUME NEW p \in Page, EditServed(p) PROVE EditServed(p)'
  <2>1. ASSUME NEW j \in DOMAIN frames, frames[j].answer # None,
               Edits(frames[j], frames[j].answer, p)
        PROVE  EditServed(p)'
    BY <1>8, <2>1 DEF EditServed
  <2>2. ASSUME NEW i \in DOMAIN stdout, Edits(stdout[i].request, stdout[i].answer, p)
        PROVE  EditServed(p)'
    <3>1. i # 1
      BY <1>2, <1>3, <2>2 DEF Edits
    <3>2. i - 1 \in DOMAIN stdout' /\ stdout'[i - 1] = stdout[i]
      BY <1>2, <3>1, TailMoves
    <3> QED
      BY <2>2, <3>2 DEF EditServed
  <2> QED
    BY <1>11, <2>1, <2>2 DEF EditServed
\* A prefetched image that is stale has the close or the edit behind it.
<1>12. ASSUME NewsBehind(stdout, 1, q) PROVE Closing \/ EditServed(q)'
  <2>1. PICK j \in DOMAIN stdout :
          1 < j /\ (stdout[j].request.op = "close" \/ Edits(stdout[j].request, stdout[j].answer, q))
    BY <1>12 DEF NewsBehind
  <2>2. CASE stdout[j].request.op = "close"
    BY <1>1, <2>2, ServedKnown
  <2>3. CASE Edits(stdout[j].request, stdout[j].answer, q)
    <3>1. j - 1 \in DOMAIN stdout' /\ stdout'[j - 1] = stdout[j]
      BY <1>2, <2>1, TailMoves
    <3> QED
      BY <2>3, <3>1 DEF EditServed
  <2> QED
    BY <2>1, <2>2, <2>3
<1>13. UNCHANGED <<doc, disk, changed, delayed, modified>> /\ Opened' = Opened
  BY <1>7 DEF server, buffer, Opened
<1>14. ASSUME NEW p \in Page, Current(p) PROVE Closing' \/ EditServed(p)' \/ Current(p)'
  <2>1. CASE images' = images
    BY <1>7, <1>13, <1>14, <2>1 DEF Current
  <2>2. CASE a.ok /\ images' = Put(q, a.shows)
    <3>1. /\ images \in Seq(Image)
          /\ \A i \in DOMAIN images' :
               \/ images'[i].page = q /\ images'[i].version = a.shows.pages[q]
               \/ \E j \in DOMAIN images : images'[i] = images[j]
      <4>1. images \in Seq(Image) /\ a.shows.pages[q] \in Version /\ a.shows.dark \in BOOLEAN
        BY <1>1, <1>4, <2>2 DEF Images, Shown, a
      <4> QED
        BY <2>2, <4>1, PutProperties
    <3>2. CASE p # q \/ a.shows.pages[q] = Opened.pages[q]
      <4>1. ASSUME NEW i \in DOMAIN images', images'[i].page = p
            PROVE  images'[i].version = Opened.pages[p]
        BY <1>14, <3>1, <3>2, <4>1 DEF Current
      <4> QED
        BY <1>7, <1>13, <1>14, <4>1 DEF Current
    <3>3. CASE p = q /\ a.shows.pages[q] # Opened.pages[q]
      <4>1. ~Fresh(doc, a, q)
        BY <1>4, <3>3 DEF Fresh, Opened
      <4> QED
        BY <1>6, <1>10, <1>12, <2>2, <3>3, <4>1
    <3> QED
      BY <3>2, <3>3
  <2> QED
    BY <1>7, <2>1, <2>2
<1>15. CachesFresh'
  BY <1>10, <1>11, <1>13, <1>14 DEF FreshInv, CachesFresh
<1>16. AnswersFresh'
  <2>1. ASSUME NEW j \in DOMAIN frames', frames'[j].op \in Reading, frames'[j].answer # None,
               frames'[j].answer.ok
        PROVE  Fresh(doc', frames'[j].answer, frames'[j].page)
    BY <1>5, <1>8, <1>13, <2>1 DEF FreshInv, AnswersFresh
  <2>2. ASSUME NEW i \in DOMAIN stdout', stdout'[i].request.op \in Reading, stdout'[i].answer.ok
        PROVE  \/ Fresh(doc', stdout'[i].answer, stdout'[i].request.page)
               \/ stdout'[i].request.by = 0 /\ NewsBehind(stdout', i, stdout'[i].request.page)
    BY <1>1, <1>13, <2>2, TailFresh DEF FreshInv
  <2> QED
    BY <2>1, <2>2 DEF AnswersFresh
<1>17. ClosedForgotten'
  <2> SUFFICES ASSUME doc = None
               PROVE  /\ stdout' = <<>> \/ stdout'[Len(stdout')].request.op = "close"
                      /\ Closing' \/ (images' = <<>> /\ \A p \in Page : data'[p] = None)
    BY <1>13 DEF ClosedForgotten
  <2>1. stdout[Len(stdout)].request.op = "close"
    BY DEF FreshInv, ClosedForgotten
  <2>2. Closing
    <3>1. Len(stdout) \in DOMAIN stdout
      BY <1>2
    <3> QED
      BY <1>1, <2>1, <3>1, ServedKnown
  <2>3. stdout' = <<>> \/ stdout'[Len(stdout')] = stdout[Len(stdout)]
    BY <1>2, TailMoves
  <2> QED
    BY <1>10, <2>1, <2>2, <2>3
<1>18. FileKnown'
  <2>1. CloseUnserved => CloseUnserved'
    <3>1. stdin \in Seq(Request)
      BY <1>1 DEF Waiting
    <3>2. \A i \in DOMAIN stdin : i \in DOMAIN stdin' /\ stdin'[i] = stdin[i]
      <4>1. CASE stdin' = stdin
        BY <4>1
      <4>2. ASSUME NEW e, stdin' = Append(stdin, e)
            PROVE  \A i \in DOMAIN stdin : i \in DOMAIN stdin' /\ stdin'[i] = stdin[i]
        BY <3>1, <4>2
      <4> QED
        BY <1>7, <4>1, <4>2
    <3> QED
      BY <3>2 DEF CloseUnserved
  <2> QED
    BY <1>10, <1>11, <1>13, <2>1, FileKept DEF FreshInv
<1> QED
  BY <1>9, <1>15, <1>16, <1>17, <1>18 DEF FreshInv

LEMMA FilterFresh ==
  ASSUME SInv, SInv', FreshInv, Filter
  PROVE  FreshInv'
<1>1. CASE Head(stdout).request.by = 0
  BY <1>1, PrefetchCallbackFresh DEF Filter
<1>2. CASE Head(stdout).request.by # 0
  BY <1>2, AnswerFresh DEF Filter
<1> QED
  BY <1>1, <1>2

-----------------------------------------------------------------------------
(* Fresh caches: the server serves, other programs write.                  *)

\* Another program writes the file: it is read the next time the document is opened.
LEMMA CompileFresh ==
  ASSUME SInv, SInv', FreshInv, Compile
  PROVE  FreshInv'
<1>1. UNCHANGED <<doc, stdin, stdout, frames, images, data, delayed>> /\ changed' = TRUE
  BY DEF Compile, pipes, caches, buffer
<1>2. FramesNested'
  BY <1>1 DEF FreshInv, FramesNested
<1>3. Closing' <=> Closing
  BY <1>1 DEF Closing
<1>4. CachesFresh'
  <2> SUFFICES ASSUME NEW p \in Page PROVE Closing' \/ p \in delayed' \/ EditServed(p)' \/ Current(p)'
    BY DEF CachesFresh
  <2>1. EditServed(p)' <=> EditServed(p)
    BY <1>1 DEF EditServed
  <2>2. CASE doc # None
    <3>1. Opened' = Opened
      BY <1>1, <2>2 DEF Opened
    <3>2. Current(p)' <=> Current(p)
      BY <1>1, <3>1 DEF Current
    <3> QED
      BY <1>1, <1>3, <2>1, <3>2 DEF FreshInv, CachesFresh
  <2>3. CASE doc = None
    <3>1. Closing \/ (images' = <<>> /\ \A q \in Page : data'[q] = None)
      BY <1>1, <2>3 DEF FreshInv, ClosedForgotten
    <3> QED
      BY <1>3, <3>1 DEF Current
  <2> QED
    BY <2>2, <2>3
<1>5. AnswersFresh'
  BY <1>1, AnswersKept DEF FreshInv
<1>6. ClosedForgotten'
  BY <1>1, <1>3 DEF FreshInv, ClosedForgotten
<1>7. FileKnown'
  BY <1>1 DEF FileKnown
<1> QED
  BY <1>2, <1>4, <1>5, <1>6, <1>7 DEF FreshInv

\* What serving the request r does to the pipes.
LEMMA ServedMoves ==
  ASSUME stdin \in Seq(Request), stdout \in Seq(Reply), stdin # <<>>, NEW reply \in Reply,
         stdin' = Tail(stdin), stdout' = Append(stdout, reply)
  PROVE  /\ \A i \in DOMAIN stdout : i \in DOMAIN stdout' /\ stdout'[i] = stdout[i] /\ i < Len(stdout) + 1
         /\ \A i \in DOMAIN stdout' : i \in DOMAIN stdout \/ i = Len(stdout) + 1
         /\ Len(stdout) + 1 \in DOMAIN stdout' /\ stdout'[Len(stdout) + 1] = reply
         /\ Len(stdout') = Len(stdout) + 1
         /\ \A i \in DOMAIN stdin : stdin[i] = Head(stdin) \/ \E j \in DOMAIN stdin' : stdin'[j] = stdin[i]
         /\ \A i \in DOMAIN stdout, p \in Page \cup {None} :
              NewsBehind(stdout, i, p) => NewsBehind(stdout', i, p)
<1>1. /\ stdout' \in Seq(Reply) /\ Len(stdout') = Len(stdout) + 1 /\ Len(stdout) \in Nat
      /\ \A i \in 1..Len(stdout) : stdout'[i] = stdout[i]
      /\ stdout'[Len(stdout) + 1] = reply
  BY AppendProperties
<1>2. DOMAIN stdout' = 1..(Len(stdout) + 1) /\ DOMAIN stdout = 1..Len(stdout)
  BY <1>1
<1>3. \A i \in DOMAIN stdout : i \in DOMAIN stdout' /\ stdout'[i] = stdout[i] /\ i < Len(stdout) + 1
  BY <1>1, <1>2
<1>4. \A i \in DOMAIN stdout' : i \in DOMAIN stdout \/ i = Len(stdout) + 1
  BY <1>1, <1>2
<1>5. ASSUME NEW i \in DOMAIN stdin, stdin[i] # Head(stdin)
      PROVE  \E j \in DOMAIN stdin' : stdin'[j] = stdin[i]
  <2>1. /\ stdin' \in Seq(Request) /\ Len(stdin') = Len(stdin) - 1 /\ Len(stdin) \in Nat \ {0}
        /\ Head(stdin) = stdin[1]
        /\ \A j \in 1..(Len(stdin) - 1) : stdin'[j] = stdin[j + 1]
    BY TailProperties
  <2>2. i # 1 /\ i \in 1..Len(stdin)
    BY <1>5, <2>1
  <2>3. i - 1 \in 1..(Len(stdin) - 1) /\ (i - 1) + 1 = i
    BY <2>1, <2>2
  <2>4. i - 1 \in DOMAIN stdin' /\ stdin'[i - 1] = stdin[i]
    BY <2>1, <2>3
  <2> QED
    BY <2>4
<1>6. ASSUME NEW i \in DOMAIN stdout, NEW p \in Page \cup {None}, NewsBehind(stdout, i, p)
      PROVE  NewsBehind(stdout', i, p)
  BY <1>3, <1>6 DEF NewsBehind
<1>7. Len(stdout) + 1 \in DOMAIN stdout'
  BY <1>1, <1>2
<1> QED
  BY <1>1, <1>3, <1>4, <1>5, <1>6, <1>7

LEMMA ServeFresh ==
  ASSUME SInv, SInv', FreshInv, Serve
  PROVE  FreshInv'
<1>1. Waiting /\ Images /\ Facts /\ Plain /\ stdin \in Seq(Request) /\ stdout \in Seq(Reply)
  BY Parts DEF Waiting
<1>2. PICK ok \in BOOLEAN, r \in Request, reply \in Reply :
        /\ r = Head(stdin) /\ Named(r)
        /\ reply.request = r /\ reply.answer.ok = ok
        /\ ok /\ r.op \in Reading => reply.answer.shows = Show(Opened, r.page) /\ doc' = Opened
        /\ doc' = IF ok THEN Executed(r) ELSE Opened
        /\ ok /\ r.op = "edit" => doc' \in Document
        /\ stdin # <<>> /\ stdin' = Tail(stdin) /\ stdout' = Append(stdout, reply)
  BY ServeProperties
<1>3. /\ UNCHANGED <<disk, frames, images, data, modified, delayed>>
      /\ changed' = (changed /\ doc # None)
  BY DEF Serve, caches, buffer
<1>4. /\ \A i \in DOMAIN stdout : i \in DOMAIN stdout' /\ stdout'[i] = stdout[i] /\ i < Len(stdout) + 1
      /\ \A i \in DOMAIN stdout' : i \in DOMAIN stdout \/ i = Len(stdout) + 1
      /\ Len(stdout) + 1 \in DOMAIN stdout' /\ stdout'[Len(stdout) + 1] = reply
      /\ Len(stdout') = Len(stdout) + 1
      /\ \A i \in DOMAIN stdin : stdin[i] = r \/ \E j \in DOMAIN stdin' : stdin'[j] = stdin[i]
      /\ \A i \in DOMAIN stdout, p \in Page \cup {None} :
           NewsBehind(stdout, i, p) => NewsBehind(stdout', i, p)
  BY <1>1, <1>2, ServedMoves
<1>5. FramesNested' /\ (Closing' <=> Closing)
  BY <1>3 DEF FreshInv, FramesNested, Closing
<1>6. ASSUME NEW p \in Page, EditServed(p) PROVE EditServed(p)'
  BY <1>3, <1>4, <1>6 DEF EditServed
<1>7. Opened \in Document /\ Opened.pages \in Content /\ Opened # None
  BY <1>1, OpenedType, NoneAssumption
<1>8. \A i \in DOMAIN stdout : stdout[i].request \in Request /\ stdout[i].request.page \in Page \cup {None}
  <2> SUFFICES ASSUME NEW i \in DOMAIN stdout
               PROVE  stdout[i].request \in Request /\ stdout[i].request.page \in Page \cup {None}
    OBVIOUS
  <2>1. stdout[i] \in Reply
    BY <1>1
  <2>2. stdout[i].request \in Request
    BY <2>1 DEF Reply
  <2> QED
    BY <2>2 DEF Request
\* The document keeps its pages: fresh answers stay fresh, and the answer is.
<1>9. CASE doc' # None /\ doc'.pages = Opened.pages /\ r.op # "close"
  <2>1. CachesFresh'
    <3> SUFFICES ASSUME NEW p \in Page
                 PROVE  Closing' \/ p \in delayed' \/ EditServed(p)' \/ Current(p)'
      BY DEF CachesFresh
    <3>1. Opened'.pages = Opened.pages
      BY <1>9 DEF Opened
    <3>2. Current(p) => Current(p)'
      BY <1>3, <3>1 DEF Current
    <3> QED
      BY <1>3, <1>5, <1>6, <3>2 DEF FreshInv, CachesFresh
  <2>2. ASSUME NEW a, NEW page, Fresh(doc, a, page) PROVE Fresh(doc', a, page)
    BY <1>9, <2>2 DEF Fresh, Opened
  <2>3. AnswersFresh'
    <3>1. ASSUME NEW j \in DOMAIN frames', frames'[j].op \in Reading, frames'[j].answer # None,
                 frames'[j].answer.ok
          PROVE  Fresh(doc', frames'[j].answer, frames'[j].page)
      BY <1>3, <2>2, <3>1 DEF FreshInv, AnswersFresh
    <3>2. ASSUME NEW i \in DOMAIN stdout', stdout'[i].request.op \in Reading, stdout'[i].answer.ok
          PROVE  \/ Fresh(doc', stdout'[i].answer, stdout'[i].request.page)
                 \/ stdout'[i].request.by = 0 /\ NewsBehind(stdout', i, stdout'[i].request.page)
      <4>1. CASE i \in DOMAIN stdout
        BY <1>4, <1>8, <2>2, <3>2, <4>1 DEF FreshInv, AnswersFresh
      <4>2. CASE i = Len(stdout) + 1
        <5>1. ok /\ r.op \in Reading /\ stdout'[i] = reply
          BY <1>2, <1>4, <3>2, <4>2
        <5>2. doc' = Opened /\ reply.answer.shows = Show(doc', r.page) /\ reply.request.page = r.page
          BY <1>2, <5>1
        <5>3. doc' \in Document
          BY <1>7, <5>2
        <5>4. \A p \in Page : r.page \in {p, None} => Show(doc', r.page).pages[p] = doc'.pages[p]
          BY <5>3 DEF Show, Document
        <5> QED
          BY <1>9, <5>1, <5>2, <5>4 DEF Fresh
      <4> QED
        BY <1>4, <4>1, <4>2
    <3> QED
      BY <3>1, <3>2 DEF AnswersFresh
  <2>4. ClosedForgotten'
    BY <1>9 DEF ClosedForgotten
  <2>5. FileKnown'
    <3> SUFFICES ASSUME ~changed', doc'.pages # disk'
                 PROVE  /\ modified' \/ CloseUnserved' \/ \E p \in Page : EditServed(p)'
                        /\ Closing' => CloseUnserved'
      BY DEF FileKnown
    <3>1. doc # None /\ ~changed /\ doc.pages # disk
      BY <1>3, <1>9 DEF Opened
    <3>2. CloseUnserved => CloseUnserved'
      BY <1>4, <1>9 DEF CloseUnserved
    <3> QED
      BY <1>3, <1>5, <1>6, <3>1, <3>2 DEF FreshInv, FileKnown
  <2> QED
    BY <1>5, <2>1, <2>3, <2>4, <2>5 DEF FreshInv
\* The document is edited: nobody has an answer, and prefetches get the news.
<1>10. CASE ok /\ r.op = "edit"
  <2>1. /\ \A i \in DOMAIN stdout : stdout[i].request.by = 0
        /\ \A k \in DOMAIN frames : frames[k].answer = None
        /\ ~Closing
    BY <1>1, <1>2, <1>10, CommandServed DEF FreshInv
  <2>2. r.page \in Page
    BY <1>2, <1>10 DEF Named
  <2>3. doc' = [Opened EXCEPT !.pages[r.page] = clock + 1]
    BY <1>2, <1>10 DEF Executed
  <2>4. /\ doc' # None
        /\ \A p \in Page : p # r.page => doc'.pages[p] = Opened.pages[p]
    <3>1. doc' \in Document
      BY <1>2, <1>10
    <3> QED
      BY <1>7, <2>2, <2>3, <3>1, NoneAssumption DEF Document, Content
  <2>5. EditServed(r.page)'
    <3>1. Edits(reply.request, reply.answer, r.page)
      BY <1>2, <1>10 DEF Edits
    <3> QED
      BY <1>4, <3>1 DEF EditServed
  <2>6. CachesFresh'
    <3> SUFFICES ASSUME NEW p \in Page, p # r.page
                 PROVE  Closing' \/ p \in delayed' \/ EditServed(p)' \/ Current(p)'
      BY <2>5 DEF CachesFresh
    <3>1. Opened'.pages[p] = Opened.pages[p]
      BY <2>4 DEF Opened
    <3>2. Current(p) => Current(p)'
      BY <1>3, <3>1 DEF Current
    <3> QED
      BY <1>3, <1>5, <1>6, <3>2 DEF FreshInv, CachesFresh
  <2>7. AnswersFresh'
    <3>1. \A k \in DOMAIN frames' : frames'[k].answer = None
      BY <1>3, <2>1
    <3>2. ASSUME NEW i \in DOMAIN stdout', stdout'[i].request.op \in Reading, stdout'[i].answer.ok
          PROVE  \/ Fresh(doc', stdout'[i].answer, stdout'[i].request.page)
                 \/ stdout'[i].request.by = 0 /\ NewsBehind(stdout', i, stdout'[i].request.page)
      <4>1. i \in DOMAIN stdout /\ stdout'[i] = stdout[i] /\ i < Len(stdout) + 1
        BY <1>2, <1>4, <1>10, <3>2 DEF Reading
      <4>2. stdout[i].request.by = 0
        BY <2>1, <4>1
      <4>3. stdout[i].request.page \in Page
        <5>1. stdout[i].request.op = "render" /\ i \in DOMAIN Line /\ Line[i] = stdout[i].request
          BY <1>1, <4>1, <4>2, AllExpected, LineFacts DEF Expected
        <5>2. Named(Line[i])
          BY <1>1, <5>1 DEF Waiting, Orderly, LineOrderly
        <5> QED
          BY <5>1, <5>2 DEF Named
      <4>4. CASE stdout[i].request.page = r.page
        <5>1. NewsBehind(stdout', i, r.page)
          <6>1. Edits(stdout'[Len(stdout) + 1].request, stdout'[Len(stdout) + 1].answer, r.page)
            BY <1>2, <1>4, <1>10 DEF Edits
          <6> QED
            BY <1>4, <4>1, <6>1 DEF NewsBehind
        <5> QED
          BY <4>1, <4>2, <4>4, <5>1
      <4>5. CASE stdout[i].request.page # r.page
        <5>1. \/ Fresh(doc, stdout[i].answer, stdout[i].request.page)
              \/ NewsBehind(stdout, i, stdout[i].request.page)
          BY <3>2, <4>1 DEF FreshInv, AnswersFresh
        <5>2. Fresh(doc, stdout[i].answer, stdout[i].request.page)
                => Fresh(doc', stdout[i].answer, stdout[i].request.page)
          BY <2>4, <4>3, <4>5, CacheAssumption DEF Fresh, Opened
        <5> QED
          BY <1>4, <1>8, <4>1, <4>2, <5>1, <5>2
      <4> QED
        BY <4>4, <4>5
    <3> QED
      BY <3>1, <3>2 DEF AnswersFresh
  <2>8. ClosedForgotten'
    BY <2>4 DEF ClosedForgotten
  <2>9. FileKnown'
    BY <1>5, <2>1, <2>2, <2>5 DEF FileKnown
  <2> QED
    BY <1>5, <2>6, <2>7, <2>8, <2>9 DEF FreshInv
\* The document is closed.
<1>11. CASE r.op = "close"
  <2>1. /\ \A i \in DOMAIN stdout : stdout[i].request.by = 0
        /\ \A k \in DOMAIN frames : frames[k].answer = None
    BY <1>1, <1>2, <1>11, CommandServed DEF FreshInv
  <2>2. Closing
    <3>1. Head(stdin) \in {stdin[i] : i \in DOMAIN stdin}
      BY <1>1, <1>2
    <3>2. CloseUnserved
      BY <1>2, <1>11, <3>1 DEF CloseUnserved
    <3> QED
      BY <1>1, <3>2, ServedKnown
  <2>3. doc' = None
    <3>1. ok
      BY <1>11, ServeProperties, <1>2 DEF Serve
    <3> QED
      BY <1>2, <1>11, <3>1 DEF Executed
  <2>4. CachesFresh'
    BY <1>5, <2>2 DEF CachesFresh
  <2>5. AnswersFresh'
    <3>1. \A k \in DOMAIN frames' : frames'[k].answer = None
      BY <1>3, <2>1
    <3>2. ASSUME NEW i \in DOMAIN stdout', stdout'[i].request.op \in Reading, stdout'[i].answer.ok
          PROVE  stdout'[i].request.by = 0 /\ NewsBehind(stdout', i, stdout'[i].request.page)
      <4>1. i \in DOMAIN stdout /\ stdout'[i] = stdout[i] /\ i < Len(stdout) + 1
        BY <1>2, <1>4, <1>11, <3>2 DEF Reading
      <4>2. stdout'[Len(stdout) + 1].request.op = "close"
        BY <1>2, <1>4, <1>11
      <4> QED
        BY <1>4, <2>1, <4>1, <4>2 DEF NewsBehind
    <3> QED
      BY <3>1, <3>2 DEF AnswersFresh
  <2>6. ClosedForgotten'
    BY <1>2, <1>4, <1>5, <1>11, <2>2 DEF ClosedForgotten
  <2>7. FileKnown'
    BY <2>3 DEF FileKnown
  <2> QED
    BY <1>5, <2>4, <2>5, <2>6, <2>7 DEF FreshInv
<1>12. (doc' # None /\ doc'.pages = Opened.pages /\ r.op # "close")
         \/ (ok /\ r.op = "edit") \/ r.op = "close"
  <2> SUFFICES ASSUME ~(ok /\ r.op = "edit"), r.op # "close"
               PROVE  doc' # None /\ doc'.pages = Opened.pages
    OBVIOUS
  <2>1. CASE ok /\ r.op \in {"toggle", "enable"}
    <3>1. doc' = [Opened EXCEPT !.dark = r.dark]
      BY <1>2, <2>1 DEF Executed
    <3>2. r.dark \in BOOLEAN
      BY DEF Request
    <3>3. doc' \in Document /\ doc'.pages = Opened.pages
      BY <1>7, <3>1, <3>2 DEF Document
    <3> QED
      BY <3>3, NoneAssumption
  <2>2. CASE ~(ok /\ r.op \in {"toggle", "enable"})
    <3>1. doc' = Opened
      BY <1>2, <2>2 DEF Executed
    <3> QED
      BY <1>7, <3>1
  <2> QED
    BY <2>1, <2>2
<1> QED
  BY <1>9, <1>10, <1>11, <1>12

-----------------------------------------------------------------------------
(* What the caches promise holds.                                          *)

LEMMA InitFresh == Init => FreshInv
<1> SUFFICES ASSUME Init PROVE FreshInv
  OBVIOUS
<1>1. DOMAIN <<>> = {}
  OBVIOUS
<1>2. frames = <<>> /\ stdout = <<>> /\ stdin = <<>> /\ images = <<>> /\ doc = None
      /\ \A p \in Page : data[p] = None
  BY DEF Init
<1>3. FramesNested
  BY <1>1, <1>2 DEF FramesNested
<1>4. CachesFresh
  BY <1>1, <1>2 DEF CachesFresh, Current
<1>5. AnswersFresh
  BY <1>1, <1>2 DEF AnswersFresh
<1>6. ClosedForgotten
  BY <1>2 DEF ClosedForgotten
<1>7. FileKnown
  BY <1>2 DEF FileKnown
<1> QED
  BY <1>3, <1>4, <1>5, <1>6, <1>7 DEF FreshInv

LEMMA NextFresh ==
  ASSUME ~RevertNests
  PROVE  SInv /\ SInv' /\ FreshInv /\ [Next]_vars => FreshInv'
<1> SUFFICES ASSUME SInv, SInv', FreshInv, [Next]_vars PROVE FreshInv'
  OBVIOUS
<1>1. ASSUME NEW p \in Page, RenderPage(p) \/ ReadData(p) \/ Edit(p) PROVE FreshInv'
  BY <1>1, RenderPageFresh, ReadFresh, EditFresh DEF ReadData
<1>2. CASE BeginAtomic \/ EndAtomic \/ Save \/ Revert \/ ToggleMidnight
  BY <1>2, BeginAtomicFresh, EndAtomicFresh, SaveFresh, RevertFresh, ToggleFresh
<1>3. CASE Return \/ Filter \/ PrefetchStart \/ PrefetchTimer
  BY <1>3, ReturnFresh, FilterFresh, PrefetchStartFresh, PrefetchTimerFresh
<1>4. CASE Serve \/ Compile
  BY <1>4, ServeFresh, CompileFresh
<1>5. CASE UNCHANGED vars
  <2>1. OnlyOld /\ OnlyOldFacts
    BY <1>5, Parts, UnchangedCaches DEF vars
  <2>2. CloseUnserved => CloseUnserved'
    BY <1>5 DEF vars, pipes, CloseUnserved
  <2> QED
    BY <1>5, <2>1, <2>2, SameFresh DEF vars, server, pipes, buffer
<1> QED
  BY <1>1, <1>2, <1>3, <1>4, <1>5 DEF Next

\* Unless a sentinel reverts the buffer while other Lisp code waits, whatever is
\* cached, on its way or about to be cached is what the server would answer, or news
\* of its change are on their way behind it.
THEOREM FreshInvariant ==
  ASSUME ~RevertNests
  PROVE  Spec => []IInv
<1>1. Init => IInv
  BY InitSafe, InitFresh DEF IInv
<1>2. IInv /\ [Next]_vars => IInv'
  BY NextSafe, NextFresh DEF IInv
<1> QED
  BY <1>1, <1>2, PTL DEF Spec

\* PagesCurrent: unless a sentinel reverts the buffer while other Lisp code waits, a
\* cached image or fact of a page is what the server would answer, except between an
\* edit of that page and the hooks of pdf-annot.el, or while the document is closed.
THEOREM PagesStayCurrent ==
  ASSUME ~RevertNests
  PROVE  Spec => []PagesCurrent
<1>1. IInv => PagesCurrent
  <2> SUFFICES ASSUME IInv, NEW p \in Page PROVE Closing \/ Modified(p) \/ Current(p)
    BY DEF PagesCurrent
  <2>1. Waiting /\ CachesFresh
    BY Parts DEF IInv, FreshInv
  <2>2. EditServed(p) => Modified(p)
    BY <2>1, ServedKnown
  <2> QED
    BY <2>1, <2>2 DEF CachesFresh, Modified
<1> QED
  BY <1>1, FreshInvariant, PTL

\* UnmodifiedIsFile, for a file the server reads itself and not through a local copy:
\* unless a sentinel reverts the buffer while other Lisp code waits, what a buffer
\* shows that is neither modified nor being edited or closed is the file, if no other
\* program wrote it since it was read (pdf-view--write-contents-function, the part
\* before pdf-view.el:499).
THEOREM UnmodifiedStaysFile ==
  ASSUME ~RevertNests
  PROVE  Spec => []UnmodifiedIsFile
<1>1. IInv => UnmodifiedIsFile
  <2> SUFFICES ASSUME IInv, doc # None, ~modified, ~changed, ~Closing, \A p \in Page : ~Modified(p)
               PROVE  doc.pages = disk
    BY DEF UnmodifiedIsFile
  <2>1. Waiting /\ FileKnown
    BY Parts DEF IInv, FreshInv
  <2>2. ~CloseUnserved /\ \A p \in Page : ~EditServed(p)
    BY <2>1, ServedKnown
  <2> QED
    BY <2>1, <2>2 DEF FileKnown
<1> QED
  BY <1>1, FreshInvariant, PTL
=============================================================================
