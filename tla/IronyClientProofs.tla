------------------------- MODULE IronyClientProofs -------------------------
(***************************************************************************)
(* What holds of the client of irony-server in every reachable state, for  *)
(* any number of requests, processes and changes of the buffer: IInv of    *)
(* IronyClientQueue is kept by every action, and with it the properties of *)
(* IronyClient.                                                            *)
(***************************************************************************)
EXTENDS IronyClientQueue

----------------------------------------------------------------------------
(* Every action keeps the invariant.                                        *)

LEMMA OneCall ==
  ASSUME NEW call \in CallSet
  PROVE  /\ <<call>> \in Seq(CallSet) /\ Len(<<call>>) = 1 /\ <<call>> # <<>>
         /\ Head(<<call>>) = call /\ DOMAIN <<call>> = {1} /\ <<call>>[1] = call
BY DEF CallSet

LEMMA FewCalls ==
  ASSUME NEW st \in StateSet, Len(st.calls) <= 1
  PROVE  Measure(st) <= MaxCalls
<1> DEFINE n == Cardinality(Over(st.emacs))
           l == Len(st.calls)
           x == IF Chosen(st.calls) = {} THEN 0 ELSE 1
<1>1. n \in Nat /\ MaxRequest \in Nat
  BY OverBounded, NatBounds
<1>2. l \in Nat /\ l <= 1
  BY DEF StateSet
<1>3. x \in 0..1
  OBVIOUS
<1>4. Measure(st) = 4 * (MaxRequest - n) + 2 * l - x /\ MaxCalls = 4 * MaxRequest + 2
  BY DEF Measure, MaxCalls
<1> HIDE DEF n, l, x
<1> QED
  BY <1>1, <1>2, <1>3, <1>4

(* irony-iotask-schedule, when no process is idle.                          *)
LEMMA ScheduledGood ==
  ASSUME NEW s, NEW srv, Inv(s, srv, buffer, disk, {}), Agree(srv), MayAsk(s), \A p \in Process : ~Idle(s, p)
  PROVE  Good(Schedule(s), srv) /\ Measure(Schedule(s)) <= MaxCalls
<1> DEFINE st == Schedule(s)
           t == st.emacs
           c == st.calls
<1>1. Inv(t, srv, buffer, disk, {}) /\ Added(s, st) /\ st = Remains(t, c)
  BY Scheduled
<1> HIDE DEF st
<1>2. t \in EmacsSet
  BY <1>1 DEF Inv, Types
<1>3. \/ c = <<>> /\ \A q \in Process : ~Idle(t, q)
      \/ /\ c = <<Call("schedule", t.made)>> /\ t.made \in Process /\ Idle(t, t.made)
         /\ \A q \in Process : Idle(t, q) => q = t.made
  BY <1>1 DEF Added
<1>4. CASE c = <<>> /\ \A q \in Process : ~Idle(t, q)
  <2>1. st \in StateSet /\ Len(c) = 0
    <3>1. c \in Seq(CallSet) /\ Len(c) = 0
      BY <1>4
    <3> QED
      BY <1>1, <1>2, <3>1 DEF Remains, StateSet
  <2>2. Chosen(c) = {} /\ Callable(t, srv, c) /\ Clear(t, c)
    BY <1>4 DEF Chosen, Callable, Clear
  <2>3. Good(st, srv)
    BY <1>1, <1>4, <2>1, <2>2 DEF Good
  <2>4. Measure(st) <= MaxCalls
    BY <2>1, FewCalls
  <2> QED
    BY <2>3, <2>4 DEF st
<1>5. CASE /\ c = <<Call("schedule", t.made)>> /\ t.made \in Process /\ Idle(t, t.made)
           /\ \A q \in Process : Idle(t, q) => q = t.made
  <2> DEFINE call == Call("schedule", t.made)
  <2>1. call \in CallSet /\ call.by = "schedule" /\ call.process = t.made
    BY <1>5 DEF Call, CallSet
  <2>2. /\ c \in Seq(CallSet) /\ Len(c) = 1 /\ c # <<>> /\ Head(c) = call /\ DOMAIN c = {1} /\ c[1] = call
    BY <1>5, <2>1, OneCall
  <2> HIDE DEF call
  <2>3. st \in StateSet
    BY <1>1, <1>2, <2>2 DEF Remains, StateSet
  <2>4. Chosen(c) = {} /\ Callable(t, srv, c)
    BY <1>5, <2>1, <2>2 DEF Chosen, Callable
  <2>5. Clear(t, c)
    BY <1>5, <2>4 DEF Clear, Idle, Quiet
  <2>6. Good(st, srv)
    BY <1>1, <1>5, <2>1, <2>2, <2>3, <2>4, <2>5 DEF Good
  <2>7. Measure(st) <= MaxCalls
    <3>1. Len(st.calls) <= 1
      BY <2>2 DEF c
    <3> QED
      BY <2>3, <3>1, FewCalls
  <2> QED
    BY <2>6, <2>7 DEF st
<1> QED
  BY <1>3, <1>4, <1>5

LEMMA KeptByRunTask == IInv /\ RunTask => IInv'
<1> SUFFICES ASSUME IInv, RunTask PROVE IInv'
  OBVIOUS
<1>1. Inv(emacs, server, buffer, disk, {}) /\ \A p \in Process : ~Idle(emacs, p)
  BY DEF IInv
<1>2. /\ MayAsk(emacs) /\ emacs' = Returned(Schedule(emacs))
      /\ buffer' = buffer /\ disk' = disk /\ server' = server
  BY DEF RunTask
<1>3. Agree(server)
  BY DEF Agree
<1>4. Good(Schedule(emacs), server) /\ Measure(Schedule(emacs)) <= MaxCalls
  BY <1>1, <1>2, <1>3, ScheduledGood
<1>5. /\ Inv(Returned(Schedule(emacs)), server, buffer, disk, {})
      /\ \A p \in Process : ~Idle(Returned(Schedule(emacs)), p)
  BY <1>3, <1>4, AllReturned
<1>6. Inv(emacs', server', buffer', disk', {}) /\ \A p \in Process : ~Idle(emacs', p)
  BY <1>2, <1>5
<1> QED
  BY <1>6 DEF IInv

(* A request or two more may be made, once one is over.                     *)
LEMMA OneOver ==
  ASSUME NEW st \in StateSet, Len(st.calls) <= 2, NEW s,
         NEW r \in Request \ Over(s), Over(st.emacs) = Over(s) \cup {r}
  PROVE  Measure(st) <= MaxCalls
<1> DEFINE n == Cardinality(Over(st.emacs))
           k == Cardinality(Over(s))
           l == Len(st.calls)
           x == IF Chosen(st.calls) = {} THEN 0 ELSE 1
<1>1. n \in Nat /\ k \in Nat /\ n = k + 1 /\ MaxRequest \in Nat
  BY OverBounded, NatBounds
<1>2. l \in Nat /\ l <= 2
  BY DEF StateSet
<1>3. x \in 0..1
  OBVIOUS
<1>4. Measure(st) = 4 * (MaxRequest - n) + 2 * l - x /\ MaxCalls = 4 * MaxRequest + 2
  BY DEF Measure, MaxCalls
<1> HIDE DEF n, k, l, x
<1> QED
  BY <1>1, <1>2, <1>3, <1>4

----------------------------------------------------------------------------
(* What does not concern the last process made.                             *)

Same(srv, srv2, p) ==
  /\ srv2[p].alive = srv[p].alive /\ srv2[p].text = srv[p].text /\ srv2[p].busy = srv[p].busy
  /\ srv2[p].out = srv[p].out /\ srv2[p].unread = srv[p].unread

LEMMA FlowKept ==
  ASSUME NEW s, NEW t, NEW srv, NEW srv2, NEW X, Flow(s, srv, X),
         t.made = s.made, t.mark = s.mark, t.output = s.output, t.queue = s.queue,
         s.made # 0 => t.pipe[s.made] = s.pipe[s.made] /\ Same(srv, srv2, s.made)
  PROVE  Flow(t, srv2, X)
<1> DEFINE m == s.made
<1> SUFFICES ASSUME m # 0 PROVE Flow(t, srv2, X)
  BY DEF Flow
<1>1. /\ s.mark[m] = Len(s.output)
      /\ Quiet(s, m, X) => s.pipe[m] = <<>> /\ srv[m].out = <<>> /\ srv[m].busy = Nothing
      /\ ~Quiet(s, m, X) => Sent(s, srv, m) \/ Answering(s, srv, m) \/ Cut(s, srv, m)
  BY DEF Flow
<1>2. Quiet(t, m, X) <=> Quiet(s, m, X)
  BY DEF Quiet
<1>3. Task(t, m) = Task(s, m)
  BY DEF Task
<1>4. t.pipe[m] = s.pipe[m] /\ Same(srv, srv2, m)
  OBVIOUS
<1>5. Sent(s, srv, m) => Sent(t, srv2, m)
  BY <1>3, <1>4 DEF Sent, Same
<1>6. Cut(s, srv, m) => Cut(t, srv2, m)
  BY <1>4 DEF Cut, Same
<1>7. Answering(s, srv, m) => Answering(t, srv2, m)
  <2>1. ASSUME NEW reply PROVE Right(s, srv, m, reply) => Right(t, srv2, m, reply)
    BY <1>3, <1>4 DEF Right, Same
  <2> QED
    BY <1>4, <2>1 DEF Answering, Same
<1> HIDE DEF m
<1>8. /\ t.mark[m] = Len(t.output)
      /\ Quiet(t, m, X) => t.pipe[m] = <<>> /\ srv2[m].out = <<>> /\ srv2[m].busy = Nothing
      /\ ~Quiet(t, m, X) => Sent(t, srv2, m) \/ Answering(t, srv2, m) \/ Cut(t, srv2, m)
  BY <1>1, <1>2, <1>4, <1>5, <1>6, <1>7 DEF Same
<1> QED
  BY <1>8 DEF Flow, m

LEMMA ToldKept ==
  ASSUME NEW s, NEW t, NEW srv, NEW srv2, NEW b, NEW d, Told(s, srv, b, d),
         t.made = s.made, t.unsaved = s.unsaved, t.queue = s.queue,
         s.made # 0 => /\ t.pipe[s.made] = s.pipe[s.made] /\ srv2[s.made].alive = srv[s.made].alive
                       /\ srv2[s.made].text = srv[s.made].text /\ srv2[s.made].unread = srv[s.made].unread
  PROVE  Told(t, srv2, b, d)
<1> DEFINE m == s.made
<1> SUFFICES ASSUME m # 0 PROVE Told(t, srv2, b, d)
  BY DEF Told
<1>1. Ranked(s, m, b) /\ OnRecord(s, srv, m) /\ (srv[m].unread \/ \A i \in DOMAIN s.queue[m] : Promised(s, m, i, d))
  BY DEF Told
<1>2. Ranked(t, m, b)
  BY <1>1 DEF Ranked
<1>3. Task(t, m) = Task(s, m)
  BY DEF Task
<1>4. OnRecord(t, srv2, m)
  BY <1>1, <1>3 DEF OnRecord
<1>5. srv2[m].unread \/ \A i \in DOMAIN t.queue[m] : Promised(t, m, i, d)
  <2>1. ASSUME NEW i, Promised(s, m, i, d) PROVE Promised(t, m, i, d)
    BY <2>1 DEF Promised
  <2>2. srv2[m].unread = srv[m].unread /\ t.queue[m] = s.queue[m]
    OBVIOUS
  <2> QED
    BY <1>1, <2>1, <2>2
<1> QED
  BY <1>2, <1>4, <1>5 DEF Told

LEMMA AnsweredKept ==
  ASSUME NEW s, NEW t, NEW srv, NEW srv2, Answered(s, srv), t.done = s.done,
         \A p \in Process : srv[p].unread => srv2[p].unread
  PROVE  Answered(t, srv2)
BY DEF Answered

LEMMA OrderedKept ==
  ASSUME NEW s, NEW t, Ordered(s), t.queue = s.queue, t.done = s.done, t.requests = s.requests
  PROVE  Ordered(t)
<1>1. \A p : QueueIds(t, p) = QueueIds(s, p) /\ DoneIds(t, p) = DoneIds(s, p) /\ Ids(t, p) = Ids(s, p)
  BY DEF QueueIds, DoneIds, Ids
<1> QED
  BY <1>1 DEF Ordered

LEMMA TempFilesKept ==
  ASSUME NEW s, NEW t, TempFiles(s), t.queue = s.queue, t.done = s.done, t.temp = s.temp
  PROVE  TempFiles(t)
<1>1. \A p : Task(t, p) = Task(s, p)
  BY DEF Task
<1> QED
  BY <1>1 DEF TempFiles

LEMMA IdleKept ==
  ASSUME NEW s, NEW t, t.queue = s.queue
  PROVE  \A p : Idle(t, p) <=> Idle(s, p)
BY DEF Idle

(* Emacs learns of the end of a process, or closes it.                      *)
LEMMA ServersKept ==
  ASSUME NEW s, NEW srv, NEW srv2, NEW b, NEW d, NEW X, Inv(s, srv, b, d, X), srv2 \in ServerSet,
         \A p \in Process : Same(srv, srv2, p) /\ (srv2[p].noticed => ~srv2[p].alive)
  PROVE  Inv(s, srv2, b, d, X)
<1>1. Types(s, srv2)
  BY DEF Inv, Types
<1>2. Processes(s, srv2)
  BY DEF Inv, Processes, Same
<1>3. s.made # 0 => s.made \in Process
  BY NatBounds DEF Inv, Types, EmacsSet, Process
<1>4. ~s.mixed => Flow(s, srv2, X) /\ Told(s, srv2, b, d) /\ Answered(s, srv2)
  <2> SUFFICES ASSUME ~s.mixed PROVE Flow(s, srv2, X) /\ Told(s, srv2, b, d) /\ Answered(s, srv2)
    OBVIOUS
  <2>1. Flow(s, srv, X) /\ Told(s, srv, b, d) /\ Answered(s, srv)
    BY DEF Inv
  <2>2. Flow(s, srv2, X)
    BY <1>3, <2>1, FlowKept
  <2>3. Told(s, srv2, b, d)
    BY <1>3, <2>1, ToldKept DEF Same
  <2>4. Answered(s, srv2)
    BY <2>1, AnsweredKept DEF Same
  <2> QED
    BY <2>2, <2>3, <2>4
<1> QED
  BY <1>1, <1>2, <1>4 DEF Inv

LEMMA KeptByNotice ==
  ASSUME NEW p \in Process
  PROVE  IInv /\ Notice(p) => IInv'
<1> SUFFICES ASSUME IInv, Notice(p) PROVE IInv'
  OBVIOUS
<1>1. Inv(emacs, server, buffer, disk, {}) /\ \A q \in Process : ~Idle(emacs, q)
  BY DEF IInv
<1>2. /\ ~server[p].alive /\ server' = [server EXCEPT ![p].noticed = TRUE]
      /\ buffer' = buffer /\ disk' = disk /\ emacs' = emacs
  BY DEF Notice
<1>3. server \in ServerSet
  BY <1>1 DEF Inv, Types
<1>4. server' \in ServerSet
  BY <1>2, <1>3 DEF ServerSet
<1>5. ASSUME NEW q \in Process
      PROVE  Same(server, server', q) /\ (server'[q].noticed => ~server'[q].alive)
  <2>1. server[q].noticed => ~server[q].alive
    BY <1>1 DEF Inv, Processes
  <2> QED
    BY <1>2, <1>3, <2>1 DEF ServerSet, Same
<1>6. Inv(emacs, server', buffer, disk, {})
  BY <1>1, <1>4, <1>5, ServersKept
<1> QED
  BY <1>1, <1>2, <1>6 DEF IInv

(* irony-iotask--abort-all on a process that has ended.                     *)
LEMMA AbortedGood ==
  ASSUME NEW s, NEW srv, Inv(s, srv, buffer, disk, {}), Agree(srv), NEW p \in Process, Gone(srv, p),
         \A q \in Process : ~Idle(s, q)
  PROVE  Good(AbortAll(s, p), srv) /\ Measure(AbortAll(s, p)) <= MaxCalls
<1> DEFINE call == Call("abort-all", p)
           c == <<call>>
           st == [emacs |-> s, calls |-> c]
           made == AbortAll(s, p)
<1>1. call \in CallSet /\ call.by = "abort-all" /\ call.process = p
  BY DEF Call, CallSet
<1>2. s \in EmacsSet
  BY DEF Inv, Types
<1> HIDE DEF call
<1>3. /\ c \in Seq(CallSet) /\ Len(c) = 1 /\ c # <<>> /\ Head(c) = call /\ DOMAIN c = {1} /\ c[1] = call
      /\ Tail(c) = <<>>
  BY <1>1, OneCall
<1>4. st \in StateSet /\ st.emacs = s /\ st.calls = c
  BY <1>2, <1>3, StateMade
<1> HIDE DEF c, st, made
<1>5. Good(st, srv)
  <2>1. Chosen(c) = {} /\ Callable(s, srv, c) /\ Clear(s, c)
    BY <1>1, <1>3 DEF Chosen, Callable, Clear
  <2> QED
    BY <1>4, <2>1 DEF Good
<1>6. MadeCall(st, srv, made)
  <2>1. Head(st.calls).by = "abort-all" /\ st.calls # <<>> /\ Head(st.calls).process = p
    BY <1>1, <1>3, <1>4
  <2>2. MadeCall(st, srv, AbortAll(st.emacs, Head(st.calls).process))
    BY <1>5, <2>1, Aborted
  <2> QED
    BY <1>4, <2>1, <2>2 DEF made
<1>7. made \in StateSet
  BY <1>6 DEF MadeCall
<1>8. made = [made EXCEPT !.calls = @ \o Tail(st.calls)]
  <2>1. made.calls \in Seq(CallSet)
    BY <1>7 DEF StateSet
  <2>2. made.calls \o Tail(st.calls) = made.calls
    BY <1>3, <1>4, <2>1, ConcatEmptySeq
  <2> QED
    BY <1>7, <2>2 DEF StateSet
<1>9. Good(made, srv)
  BY <1>3, <1>4, <1>5, <1>6, <1>8, GoodAfterCall
<1>10. Measure(made) <= MaxCalls
  <2>1. CASE made.calls = <<>>
    <3>1. Len(made.calls) <= 1
      BY <2>1
    <3> QED
      BY <1>7, <3>1, FewCalls
  <2>2. CASE Len(made.calls) = 1
    <3>1. Len(made.calls) <= 1
      BY <2>2
    <3> QED
      BY <1>7, <3>1, FewCalls
  <2>3. CASE Len(made.calls) <= 2 /\ \E r \in Request \ Over(st.emacs) : Over(made.emacs) = Over(st.emacs) \cup {r}
    BY <1>7, <2>3, OneOver
  <2> QED
    BY <1>6, <2>1, <2>2, <2>3 DEF MadeCall
<1> QED
  BY <1>9, <1>10 DEF made

LEMMA KeptByProcessSentinel ==
  ASSUME NEW p \in Process
  PROVE  IInv /\ ProcessSentinel(p) => IInv'
<1> SUFFICES ASSUME IInv, ProcessSentinel(p) PROVE IInv'
  OBVIOUS
<1>1. Inv(emacs, server, buffer, disk, {}) /\ \A q \in Process : ~Idle(emacs, q)
  BY DEF IInv
<1>2. /\ server[p].noticed /\ server[p].out = <<>> /\ emacs' = Returned(AbortAll(emacs, p))
      /\ server' = [server EXCEPT ![p].closed = TRUE] /\ buffer' = buffer /\ disk' = disk
  BY DEF ProcessSentinel
<1>3. server \in ServerSet
  BY <1>1 DEF Inv, Types
<1>4. server' \in ServerSet
  BY <1>2, <1>3 DEF ServerSet
<1>5. ASSUME NEW q \in Process
      PROVE  /\ Same(server, server', q) /\ (server'[q].noticed => ~server'[q].alive)
             /\ server'[q].alive = server[q].alive /\ server'[q].noticed = server[q].noticed
  <2>1. server[q].noticed => ~server[q].alive
    BY <1>1 DEF Inv, Processes
  <2> QED
    BY <1>2, <1>3, <2>1 DEF ServerSet, Same
<1>6. PICK srv : srv = server'
  OBVIOUS
<1>7. Inv(emacs, srv, buffer, disk, {}) /\ Agree(srv)
  BY <1>1, <1>4, <1>5, <1>6, ServersKept DEF Agree
<1>8. Gone(srv, p)
  BY <1>1, <1>2, <1>5, <1>6 DEF Inv, Processes, Gone, Same
<1>9. Good(AbortAll(emacs, p), srv) /\ Measure(AbortAll(emacs, p)) <= MaxCalls
  BY <1>1, <1>7, <1>8, AbortedGood
<1>10. /\ Inv(Returned(AbortAll(emacs, p)), srv, buffer, disk, {})
       /\ \A q \in Process : ~Idle(Returned(AbortAll(emacs, p)), q)
  BY <1>7, <1>9, AllReturned
<1>11. Inv(emacs', server', buffer', disk', {}) /\ \A q \in Process : ~Idle(emacs', q)
  BY <1>2, <1>6, <1>10
<1> QED
  BY <1>11 DEF IInv

----------------------------------------------------------------------------
(* A part of a reply is put into the process buffer.                        *)

IsInserted(s, t, p, part) ==
  /\ t \in EmacsSet /\ \A q \in Process : t.mark[q] <= Len(t.output)
  /\ t.queue = s.queue /\ t.done = s.done /\ t.unsaved = s.unsaved /\ t.temp = s.temp /\ t.pipe = s.pipe
  /\ t.process = s.process /\ t.made = s.made /\ t.requests = s.requests /\ t.gone = s.gone
  /\ t.mixed = (s.mixed \/ p # s.made) /\ Len(t.output) >= 1
  /\ s.mark[p] = Len(s.output) =>
       /\ s.output = <<>> => t.output = <<part>>
       /\ \A first \in PartSet : s.output = <<first>> => t.output = <<first, part>>
       /\ t.mark[p] = Len(t.output)

LEMMA InsertFields ==
  ASSUME NEW s, NEW srv, Types(s, srv), NEW p \in Process, NEW part \in PartSet
  PROVE  IsInserted(s, Insert(s, p, part), p, part)
<1> DEFINE m == s.mark[p]
           o == s.output
           before == SubSeq(o, 1, m)
           after == SubSeq(o, m + 1, Len(o))
           output == before \o <<part>> \o after
           mark == [q \in Process |-> IF q = p \/ s.mark[q] > m THEN s.mark[q] + 1 ELSE s.mark[q]]
           mixed == s.mixed \/ p # s.made
           t == Insert(s, p, part)
<1>1. /\ s \in EmacsSet /\ o \in Seq(PartSet) /\ Len(o) \in Nat /\ s.mark \in [Process -> Nat]
      /\ m \in Nat /\ m <= Len(o) /\ \A q \in Process : s.mark[q] \in Nat /\ s.mark[q] <= Len(o)
  BY EmacsParts DEF Types
<1>2. \A i \in 1..Len(o) : o[i] \in PartSet
  BY <1>1, SeqElement
<1>3. before \in Seq(PartSet) /\ Len(before) = m
  <2> HIDE DEF m, o
  <2>1. /\ SubSeq(o, 1, m) \in Seq(PartSet)
        /\ Len(SubSeq(o, 1, m)) = IF 1 <= m THEN m - 1 + 1 ELSE 0
    BY <1>1, <1>2, SubSeqProperties
  <2> QED
    BY <1>1, <2>1
<1>4. after \in Seq(PartSet) /\ Len(after) = Len(o) - m
  <2> HIDE DEF m, o
  <2>1. m + 1 \in Int /\ Len(o) \in Int /\ \A i \in (m + 1)..Len(o) : o[i] \in PartSet
    BY <1>1, <1>2
  <2>2. /\ SubSeq(o, m + 1, Len(o)) \in Seq(PartSet)
        /\ Len(SubSeq(o, m + 1, Len(o))) = IF m + 1 <= Len(o) THEN Len(o) - (m + 1) + 1 ELSE 0
    BY <2>1, SubSeqProperties
  <2> QED
    BY <1>1, <2>2
<1>5. output \in Seq(PartSet) /\ Len(output) = Len(o) + 1
  <2> HIDE DEF m, o, before, after
  <2>1. <<part>> \in Seq(PartSet) /\ Len(<<part>>) = 1
    OBVIOUS
  <2>2. before \o <<part>> \in Seq(PartSet) /\ Len(before \o <<part>>) = m + 1
    BY <1>1, <1>3, <2>1, ConcatProperties
  <2> DEFINE two == before \o <<part>>
  <2>3. output = two \o after
    OBVIOUS
  <2> HIDE DEF output, two
  <2>4. two \in Seq(PartSet) /\ Len(two) = m + 1
    BY <2>2 DEF two
  <2>5. output \in Seq(PartSet) /\ Len(output) = Len(two) + Len(after)
    BY <1>4, <2>3, <2>4, ConcatProperties
  <2> QED
    BY <1>1, <1>4, <2>4, <2>5
<1>6. m = Len(o) => output = o \o <<part>>
  <2> SUFFICES ASSUME m = Len(o) PROVE output = o \o <<part>>
    OBVIOUS
  <2>1. before = o
    <3> HIDE DEF o
    <3> QED
      BY <1>1, SubSeqFull
  <2>2. after = <<>>
    <3> HIDE DEF o, m
    <3> QED
      BY <1>1, SubSeqEmpty
  <2>3. o \o <<part>> \in Seq(PartSet)
    BY <1>1, ConcatProperties
  <2> HIDE DEF before, after, o
  <2> QED
    BY <2>1, <2>2, <2>3, ConcatEmptySeq
<1>7. mark \in [Process -> Nat] /\ mark[p] = m + 1 /\ \A q \in Process : mark[q] <= Len(o) + 1
  BY <1>1
<1>8. mixed \in BOOLEAN
  OBVIOUS
<1>9. t = [s EXCEPT !.output = output, !.mark = mark, !.mixed = mixed]
  BY <1>1 DEF Insert, EmacsSet
<1> HIDE DEF output, mark, mixed, t
<1>10. /\ t.queue = s.queue /\ t.done = s.done /\ t.unsaved = s.unsaved /\ t.temp = s.temp /\ t.pipe = s.pipe
       /\ t.process = s.process /\ t.made = s.made /\ t.requests = s.requests /\ t.gone = s.gone
       /\ t.output = output /\ t.mark = mark /\ t.mixed = mixed
  BY <1>1, <1>9 DEF EmacsSet
<1>11. t \in EmacsSet
  BY <1>1, <1>5, <1>7, <1>8, <1>9 DEF EmacsSet
<1>12. m = Len(o) =>
         /\ s.output = <<>> => t.output = <<part>>
         /\ \A first \in PartSet : s.output = <<first>> => t.output = <<first, part>>
  <2>1. <<part>> \in Seq(PartSet) /\ <<>> \o <<part>> = <<part>>
    BY ConcatEmptySeq
  <2>2. ASSUME NEW first \in PartSet PROVE <<first>> \o <<part>> = <<first, part>>
    <3> DEFINE x == <<first>>
               y == <<part>>
               z == <<first, part>>
    <3>1. /\ x \in Seq(PartSet) /\ Len(x) = 1 /\ x[1] = first
          /\ y \in Seq(PartSet) /\ Len(y) = 1 /\ y[1] = part
          /\ z \in Seq(PartSet) /\ Len(z) = 2 /\ z[1] = first /\ z[2] = part
      OBVIOUS
    <3> HIDE DEF x, y, z
    <3>2. x \o y \in Seq(PartSet) /\ Len(x \o y) = 2 /\ (x \o y)[1] = first /\ (x \o y)[2] = part
      BY <3>1, ConcatProperties, SMTT(30)
    <3>3. \A i \in 1..Len(z) : (x \o y)[i] = z[i]
      BY <3>1, <3>2
    <3>4. x \o y = z
      BY <3>1, <3>2, <3>3, SeqEqual
    <3> QED
      BY <3>4 DEF x, y, z
  <2> QED
    BY <1>6, <1>10, <2>1, <2>2
<1> QED
  <2>1. Len(t.output) >= 1 /\ \A q \in Process : t.mark[q] <= Len(t.output)
    <3> HIDE DEF o
    <3> QED
      BY <1>1, <1>5, <1>7, <1>10
  <2>2. m = Len(o) => t.mark[p] = Len(t.output)
    BY <1>5, <1>7, <1>10
  <2> QED
    BY <1>10, <1>11, <1>12, <2>1, <2>2 DEF IsInserted, mixed, t

(* A part of the output of p is taken.                                      *)
Heard(srv, srv2, p) ==
  /\ srv \in ServerSet /\ srv2 \in ServerSet
  /\ srv[p].out # <<>> /\ srv2[p].out = Tail(srv[p].out) /\ Head(srv[p].out) \in PartSet
  /\ \A q \in Process : /\ srv2[q].alive = srv[q].alive /\ srv2[q].noticed = srv[q].noticed
                        /\ srv2[q].text = srv[q].text /\ srv2[q].busy = srv[q].busy
                        /\ srv2[q].unread = srv[q].unread /\ (q # p => srv2[q].out = srv[q].out)

LEMMA HeardFields ==
  ASSUME NEW srv \in ServerSet, NEW p \in Process, srv[p].out # <<>>, NEW srv2,
         srv2 = [srv EXCEPT ![p].out = Tail(@)]
  PROVE  Heard(srv, srv2, p)
<1>1. srv[p].out \in Seq(PartSet)
  BY ServerParts
<1>2. Tail(srv[p].out) \in Seq(PartSet) /\ Head(srv[p].out) \in PartSet
  BY <1>1, HeadAndTail
<1>3. srv2 \in ServerSet
  BY <1>2 DEF ServerSet
<1>4. /\ srv2[p].out = Tail(srv[p].out)
      /\ \A q \in Process : /\ srv2[q].alive = srv[q].alive /\ srv2[q].noticed = srv[q].noticed
                            /\ srv2[q].text = srv[q].text /\ srv2[q].busy = srv[q].busy
                            /\ srv2[q].unread = srv[q].unread /\ (q # p => srv2[q].out = srv[q].out)
  BY DEF ServerSet
<1> QED
  BY <1>2, <1>3, <1>4 DEF Heard

(* Emacs' state t differs in the process buffer only.                       *)
LEMMA HeardParts ==
  ASSUME NEW s, NEW srv, NEW srv2, NEW p \in Process, Heard(srv, srv2, p), NEW t,
         Types(s, srv), Ordered(s), Processes(s, srv), TempFiles(s),
         t \in EmacsSet, \A q \in Process : t.mark[q] <= Len(t.output),
         t.queue = s.queue, t.done = s.done, t.unsaved = s.unsaved, t.temp = s.temp, t.pipe = s.pipe,
         t.process = s.process, t.made = s.made, t.requests = s.requests
  PROVE  /\ Types(t, srv2) /\ Ordered(t) /\ Processes(t, srv2) /\ TempFiles(t) /\ p <= s.made
         /\ Answered(s, srv) => Answered(t, srv2)
         /\ \A b, d : Told(s, srv, b, d) => Told(t, srv2, b, d)
<1>1. Types(t, srv2)
  BY DEF Types, Heard
<1>2. Ordered(t) /\ TempFiles(t)
  BY OrderedKept, TempFilesKept
<1>3. p <= s.made
  <2>1. p \in Int /\ s.made \in Int
    BY EmacsParts, NatBounds DEF Types, Process
  <2> QED
    BY <2>1 DEF Processes, Heard
<1>4. Processes(t, srv2)
  <2>1. \A q \in Process : q > s.made => srv2[q].out = srv[q].out
    <3>1. ASSUME NEW q \in Process, q > s.made PROVE q # p
      <4>1. q \in Int /\ s.made \in Int
        BY EmacsParts, NatBounds DEF Types, Process
      <4> QED
        BY <1>3, <3>1, <4>1
    <3> QED
      BY <3>1 DEF Heard
  <2> QED
    BY <2>1 DEF Processes, Heard
<1>5. Answered(s, srv) => Answered(t, srv2)
  BY AnsweredKept DEF Heard
<1>6. \A b, d : Told(s, srv, b, d) => Told(t, srv2, b, d)
  <2>1. s.made # 0 => s.made \in Process
    BY NatBounds DEF Types, EmacsSet, Process
  <2> QED
    BY <2>1, ToldKept DEF Heard
<1> QED
  BY <1>1, <1>2, <1>3, <1>4, <1>5, <1>6

(* Output without a request is of a process that is not the last.           *)
LEMMA HeardNothing ==
  ASSUME NEW s, NEW srv, NEW srv2, NEW p \in Process, Heard(srv, srv2, p), NEW b, NEW d,
         Inv(s, srv, b, d, {}), s.queue[p] = <<>>
  PROVE  Inv(s, srv2, b, d, {})
<1>1. /\ Types(s, srv) /\ Ordered(s) /\ Processes(s, srv) /\ TempFiles(s) /\ Buffers(b, d)
      /\ ~s.mixed => Flow(s, srv, {}) /\ Told(s, srv, b, d) /\ Answered(s, srv)
  BY DEF Inv
<1>2. s \in EmacsSet /\ \A q \in Process : s.mark[q] <= Len(s.output)
  BY <1>1 DEF Types
<1>3. /\ Types(s, srv2) /\ Ordered(s) /\ Processes(s, srv2) /\ TempFiles(s) /\ p <= s.made
      /\ Answered(s, srv) => Answered(s, srv2)
      /\ Told(s, srv, b, d) => Told(s, srv2, b, d)
  BY <1>1, <1>2, HeardParts
<1>4. ~s.mixed => Flow(s, srv2, {})
  <2> SUFFICES ASSUME ~s.mixed PROVE Flow(s, srv2, {})
    OBVIOUS
  <2>1. Flow(s, srv, {})
    BY <1>1
  <2>2. p # s.made \/ s.made = 0
    BY <2>1 DEF Flow, Quiet, Heard
  <2>3. s.made # 0 => s.made \in Process
    BY <1>2, NatBounds DEF EmacsSet, Process
  <2>4. s.made # 0 => Same(srv, srv2, s.made)
    BY <2>2, <2>3 DEF Heard, Same
  <2> QED
    BY <2>1, <2>4, FlowKept
<1> QED
  BY <1>1, <1>3, <1>4 DEF Inv

LEMMA UpdateReads ==
  ASSUME NEW reply \in Reply
  PROVE  LET first == [reply |-> reply, last |-> FALSE]
             last == [reply |-> reply, last |-> TRUE]
         IN  /\ first \in PartSet /\ last \in PartSet
             /\ Update(<<first>>) = Nothing /\ Update(<<first, last>>) = reply
<1> DEFINE first == [reply |-> reply, last |-> FALSE]
           last == [reply |-> reply, last |-> TRUE]
           one == <<first>>
           two == <<first, last>>
<1>1. first \in PartSet /\ last \in PartSet /\ ~first.last /\ last.last /\ first.reply = reply
  BY DEF PartSet
<1>2. last = [first EXCEPT !.last = TRUE]
  <2> DEFINE changed == [first EXCEPT !.last = TRUE]
  <2>1. changed \in PartSet /\ last \in PartSet
    BY DEF PartSet
  <2>2. changed.reply = last.reply /\ changed.last = last.last
    OBVIOUS
  <2> HIDE DEF changed, first, last
  <2>3. changed = last
    BY <2>1, <2>2 DEF PartSet
  <2> QED
    BY <2>3 DEF changed
<1>3. one[Len(one)] = first
  OBVIOUS
<1>4. Len(two) = 2 /\ two[1] = first /\ two[2] = last
  OBVIOUS
<1> HIDE DEF first, last, one, two
<1>5. Update(one) = Nothing
  BY <1>1, <1>3 DEF Update
<1>6. Update(two) = reply
  BY <1>1, <1>2, <1>4 DEF Update
<1> QED
  BY <1>1, <1>5, <1>6 DEF first, last, one, two

LEMMA UpdateType ==
  ASSUME NEW output \in Seq(PartSet), Len(output) >= 1
  PROVE  Update(output) \in Reply \cup {Nothing}
<1>1. output # <<>>
  BY NotEmpty
<1>2. output[1] \in PartSet
  BY <1>1, HeadAndTail
<1>3. output[1].reply \in Reply
  BY <1>2 DEF PartSet
<1> QED
  BY <1>3, Replies DEF Update

(* The first part is no result. The second is the one of its request.       *)
LEMMA HeardFlow ==
  ASSUME NEW s, NEW srv, NEW srv2, NEW p \in Process, Heard(srv, srv2, p), p = s.made,
         Types(s, srv), Started(s, p), Flow(s, srv, {}), NEW t, IsInserted(s, t, p, Head(srv[p].out))
  PROVE  \/ Update(t.output) = Nothing /\ Flow(t, srv2, {})
         \/ Update(t.output) \in Reply /\ Flow(t, srv2, {p}) /\ Right(t, srv2, p, Update(t.output))
<1> DEFINE part == Head(srv[p].out)
<1>1. p # 0
  BY DEF Process
<1>2. /\ s.mark[p] = Len(s.output)
      /\ ~Quiet(s, p, {})
      /\ Sent(s, srv, p) \/ Answering(s, srv, p) \/ Cut(s, srv, p)
  BY <1>1 DEF Flow, Started, Quiet
<1>3. Answering(s, srv, p)
  BY <1>2 DEF Sent, Cut, Heard
<1>4. PICK reply \in Reply :
       /\ reply.of = Head(s.queue[p]).id /\ Right(s, srv, p, reply)
       /\ LET first == [reply |-> reply, last |-> FALSE]
              last == [reply |-> reply, last |-> TRUE]
          IN  \/ /\ srv[p].busy = reply \/ (srv[p].busy = Nothing /\ ~srv[p].alive)
                 /\ \/ s.output = <<>> /\ srv[p].out = <<first>>
                    \/ s.output = <<first>> /\ srv[p].out = <<>>
              \/ /\ srv[p].busy = Nothing
                 /\ \/ s.output = <<>> /\ srv[p].out = <<first, last>>
                    \/ s.output = <<first>> /\ srv[p].out = <<last>>
  BY <1>3 DEF Answering
<1> DEFINE first == [reply |-> reply, last |-> FALSE]
           last == [reply |-> reply, last |-> TRUE]
<1>5. first \in PartSet /\ last \in PartSet /\ Update(<<first>>) = Nothing /\ Update(<<first, last>>) = reply
  BY UpdateReads
<1> HIDE DEF first, last
<1>6. /\ t.queue = s.queue /\ t.pipe = s.pipe /\ t.made = p /\ t.mark[p] = Len(t.output)
      /\ s.output = <<>> => t.output = <<part>>
      /\ \A x \in PartSet : s.output = <<x>> => t.output = <<x, part>>
  BY <1>2 DEF IsInserted
<1>7. s.pipe[p] = <<>> /\ t.pipe[p] = <<>>
  BY <1>3, <1>6 DEF Answering
<1>8. /\ srv2[p].alive = srv[p].alive /\ srv2[p].busy = srv[p].busy /\ srv2[p].unread = srv[p].unread
      /\ srv2[p].out = Tail(srv[p].out) /\ srv[p].out # <<>>
  BY DEF Heard
<1>9. Right(t, srv2, p, reply)
  BY <1>4, <1>6, <1>8 DEF Right, Task
<1>10. ~Quiet(t, p, {}) /\ Quiet(t, p, {p}) /\ reply.of = Head(t.queue[p]).id
  BY <1>2, <1>4, <1>6 DEF Quiet
<1>11. \/ /\ srv[p].busy = reply \/ (srv[p].busy = Nothing /\ ~srv[p].alive)
          /\ s.output = <<>> /\ srv[p].out = <<first>>
       \/ /\ srv[p].busy = Nothing
          /\ \/ s.output = <<>> /\ srv[p].out = <<first, last>>
             \/ s.output = <<first>> /\ srv[p].out = <<last>>
  BY <1>4, <1>8 DEF first, last
<1>12. CASE /\ srv[p].busy = reply \/ (srv[p].busy = Nothing /\ ~srv[p].alive)
            /\ s.output = <<>> /\ srv[p].out = <<first>>
  <2>1. part = first /\ srv2[p].out = <<>>
    BY <1>8, <1>12
  <2>2. t.output = <<first>>
    BY <1>6, <1>12, <2>1
  <2>3. Answering(t, srv2, p)
    BY <1>7, <1>8, <1>9, <1>10, <1>12, <2>1, <2>2 DEF Answering, first, last
  <2>4. Flow(t, srv2, {})
    BY <1>6, <1>10, <2>3 DEF Flow
  <2> QED
    BY <1>5, <2>2, <2>4
<1>13. CASE srv[p].busy = Nothing /\ s.output = <<>> /\ srv[p].out = <<first, last>>
  <2>1. part = first /\ srv2[p].out = <<last>>
    BY <1>8, <1>13
  <2>2. t.output = <<first>>
    BY <1>6, <1>13, <2>1
  <2>3. Answering(t, srv2, p)
    BY <1>7, <1>8, <1>9, <1>10, <1>13, <2>1, <2>2 DEF Answering, first, last
  <2>4. Flow(t, srv2, {})
    BY <1>6, <1>10, <2>3 DEF Flow
  <2> QED
    BY <1>5, <2>2, <2>4
<1>14. CASE srv[p].busy = Nothing /\ s.output = <<first>> /\ srv[p].out = <<last>>
  <2>1. part = last /\ srv2[p].out = <<>>
    BY <1>8, <1>14
  <2>2. t.output = <<first, last>>
    BY <1>5, <1>6, <1>14, <2>1
  <2>3. Update(t.output) = reply
    BY <1>5, <2>2
  <2>4. Flow(t, srv2, {p})
    BY <1>6, <1>7, <1>8, <1>10, <1>14, <2>1 DEF Flow
  <2> QED
    BY <1>9, <2>3, <2>4
<1> QED
  BY <1>11, <1>12, <1>13, <1>14

LEMMA ResultedGood ==
  ASSUME NEW s, NEW srv, NEW p \in Process, NEW made, Resulted(s, srv, p, made),
         \A q \in Process : ~Idle(s, q), s.mixed \/ p = s.made
  PROVE  Good(made, srv) /\ Measure(made) <= MaxCalls
<1> DEFINE t == made.emacs
           c == made.calls
<1>1. /\ made \in StateSet /\ Inv(t, srv, buffer, disk, Chosen(c)) /\ Callable(t, srv, c)
      /\ \A q \in Process : Idle(t, q) => Idle(s, q) \/ \E i \in DOMAIN c : c[i].process = q
      /\ t.mixed = s.mixed
      /\ p = s.made => Quiet(t, t.made, Chosen(c))
      /\ \/ Over(t) = Over(s) /\ Len(c) = 1 /\ Chosen(c) # {} /\ Len(Head(s.queue[p]).tasks) > 1
         \/ Len(c) <= 2 /\ Chosen(c) = {} /\ \E r \in Request \ Over(s) : Over(t) = Over(s) \cup {r}
  BY DEF Resulted
<1>2. ~t.mixed => Clear(t, c)
  BY <1>1 DEF Clear
<1>3. Good(made, srv)
  BY <1>1, <1>2 DEF Good
<1>4. Measure(made) <= MaxCalls
  <2>1. CASE Len(c) = 1
    <3>1. Len(made.calls) <= 1
      BY <2>1
    <3> QED
      BY <1>1, <3>1, FewCalls
  <2>2. CASE Len(c) <= 2 /\ \E r \in Request \ Over(s) : Over(t) = Over(s) \cup {r}
    BY <1>1, <2>2, OneOver
  <2> QED
    BY <1>1, <2>1, <2>2
<1> QED
  BY <1>3, <1>4

(* irony-iotask-filter with a request under way.                            *)
LEMMA FilterGood ==
  ASSUME NEW s, NEW srv, NEW srv2, NEW p \in Process, Heard(srv, srv2, p), Agree(srv2),
         Inv(s, srv, buffer, disk, {}), \A q \in Process : ~Idle(s, q), s.queue[p] # <<>>,
         NEW t, IsInserted(s, t, p, Head(srv[p].out))
  PROVE  LET st == CheckResult(t, p, Update(t.output)) IN Good(st, srv2) /\ Measure(st) <= MaxCalls
<1> DEFINE result == Update(t.output)
           st == CheckResult(t, p, result)
<1>1. /\ Types(s, srv) /\ Ordered(s) /\ Processes(s, srv) /\ TempFiles(s) /\ Buffers(buffer, disk)
      /\ ~s.mixed => Flow(s, srv, {}) /\ Told(s, srv, buffer, disk) /\ Answered(s, srv)
  BY DEF Inv
<1>2. /\ t \in EmacsSet /\ \A q \in Process : t.mark[q] <= Len(t.output)
      /\ t.queue = s.queue /\ t.done = s.done /\ t.unsaved = s.unsaved /\ t.temp = s.temp /\ t.pipe = s.pipe
      /\ t.process = s.process /\ t.made = s.made /\ t.requests = s.requests
      /\ t.mixed = (s.mixed \/ p # s.made) /\ Len(t.output) >= 1
  BY DEF IsInserted
<1>3. /\ Types(t, srv2) /\ Ordered(t) /\ Processes(t, srv2) /\ TempFiles(t)
      /\ Answered(s, srv) => Answered(t, srv2)
      /\ Told(s, srv, buffer, disk) => Told(t, srv2, buffer, disk)
  BY <1>1, <1>2, HeardParts
<1>4. Started(s, p) /\ Started(t, p)
  BY <1>2 DEF Idle, Started
<1>5. \A q \in Process : ~Idle(t, q)
  BY <1>2, IdleKept
<1>6. result \in Reply \cup {Nothing}
  BY <1>2, UpdateType DEF EmacsSet
<1>7. ~t.mixed => \/ result = Nothing /\ Flow(t, srv2, {})
                  \/ result \in Reply /\ Flow(t, srv2, {p}) /\ Right(t, srv2, p, result)
  <2> SUFFICES ASSUME ~t.mixed
               PROVE  \/ Update(t.output) = Nothing /\ Flow(t, srv2, {})
                      \/ Update(t.output) \in Reply /\ Flow(t, srv2, {p}) /\ Right(t, srv2, p, Update(t.output))
    OBVIOUS
  <2>1. ~s.mixed /\ p = s.made
    BY <1>2
  <2> QED
    BY <1>1, <1>4, <2>1, HeardFlow
<1> HIDE DEF result
<1>8. CASE result = Nothing
  <2>1. Nothing \notin Reply
    BY NothingAssumption
  <2>2. Inv(t, srv2, buffer, disk, {})
    BY <1>1, <1>2, <1>3, <1>7, <1>8, <2>1 DEF Inv
  <2>3. st = Remains(t, <<>>)
    BY <1>8 DEF CheckResult
  <2> HIDE DEF st
  <2> DEFINE c == <<>>
  <2>4. c \in Seq(CallSet) /\ Len(c) = 0
    OBVIOUS
  <2>5. st.emacs = t /\ st.calls = c /\ Chosen(c) = {} /\ Callable(t, srv2, c) /\ Clear(t, c)
    BY <2>3 DEF Remains, Chosen, Callable, Clear
  <2>6. st \in StateSet
    BY <1>2, <2>3, <2>4 DEF Remains, StateSet
  <2>7. Good(st, srv2)
    BY <1>5, <2>2, <2>5, <2>6 DEF Good
  <2>8. Measure(st) <= MaxCalls
    <3>1. Len(st.calls) <= 1
      BY <2>4, <2>5
    <3> QED
      BY <2>6, <3>1, FewCalls
  <2> QED
    BY <2>7, <2>8 DEF st, result
<1>9. CASE result \in Reply
  <2>1. Nothing \notin Reply
    BY NothingAssumption
  <2> DEFINE X == {p}
  <2>2. Inv(t, srv2, buffer, disk, X)
    BY <1>1, <1>2, <1>3, <1>7, <1>9, <2>1 DEF Inv
  <2>3. t.mixed \/ Right(t, srv2, p, result)
    BY <1>7, <1>9, <2>1
  <2>4. Resulted(t, srv2, p, st)
    BY <1>4, <1>9, <2>2, <2>3, ResultChecked
  <2> HIDE DEF st
  <2>5. t.mixed \/ p = t.made
    BY <1>2
  <2>6. Good(st, srv2) /\ Measure(st) <= MaxCalls
    BY <1>5, <2>4, <2>5, ResultedGood
  <2> QED
    BY <2>6 DEF st, result
<1> QED
  BY <1>6, <1>8, <1>9

LEMMA KeptByProcessFilter ==
  ASSUME NEW p \in Process
  PROVE  IInv /\ ProcessFilter(p) => IInv'
<1> SUFFICES ASSUME IInv, ProcessFilter(p) PROVE IInv'
  OBVIOUS
<1> DEFINE t == Insert(emacs, p, Head(server[p].out))
           st == CheckResult(t, p, Update(t.output))
<1>1. Inv(emacs, server, buffer, disk, {}) /\ \A q \in Process : ~Idle(emacs, q)
  BY DEF IInv
<1>2. /\ server[p].out # <<>> /\ server' = [server EXCEPT ![p].out = Tail(@)]
      /\ emacs' = IF emacs.queue[p] = <<>> THEN emacs ELSE Returned(st)
      /\ buffer' = buffer /\ disk' = disk
  BY DEF ProcessFilter
<1>3. Types(emacs, server) /\ server \in ServerSet
  BY <1>1 DEF Inv, Types
<1>4. PICK srv : srv = server'
  OBVIOUS
<1>5. Heard(server, srv, p)
  BY <1>2, <1>3, <1>4, HeardFields
<1>6. Agree(srv)
  BY <1>5 DEF Agree, Heard
<1>7. CASE emacs.queue[p] = <<>>
  <2>1. Inv(emacs, srv, buffer, disk, {})
    BY <1>1, <1>5, <1>7, HeardNothing
  <2>2. Inv(emacs', server', buffer', disk', {}) /\ \A q \in Process : ~Idle(emacs', q)
    BY <1>1, <1>2, <1>4, <1>7, <2>1
  <2> QED
    BY <2>2 DEF IInv
<1>8. CASE emacs.queue[p] # <<>>
  <2>1. IsInserted(emacs, t, p, Head(server[p].out))
    BY <1>3, <1>5, InsertFields DEF Heard
  <2> HIDE DEF t
  <2>2. Good(st, srv) /\ Measure(st) <= MaxCalls
    BY <1>1, <1>5, <1>6, <1>8, <2>1, FilterGood
  <2> HIDE DEF st
  <2>3. Inv(Returned(st), srv, buffer, disk, {}) /\ \A q \in Process : ~Idle(Returned(st), q)
    BY <1>6, <2>2, AllReturned
  <2>4. Inv(emacs', server', buffer', disk', {}) /\ \A q \in Process : ~Idle(emacs', q)
    BY <1>2, <1>4, <1>8, <2>3
  <2> QED
    BY <2>4 DEF IInv
<1> QED
  BY <1>7, <1>8

----------------------------------------------------------------------------
(* The buffer changes.                                                      *)

LEMMA ToldOfChange ==
  ASSUME NEW s, NEW srv, Types(s, srv), NEW b \in BufferState, NEW d \in Tick, Told(s, srv, b, d),
         NEW b2 \in BufferState, NEW d2 \in Tick, Rank(b) <= Rank(b2), d <= d2
  PROVE  Told(s, srv, b2, d2)
<1> DEFINE m == s.made
<1> SUFFICES ASSUME m # 0 PROVE Told(s, srv, b2, d2)
  BY DEF Told
<1>1. m \in Process
  BY NatBounds DEF Types, EmacsSet, Process
<1>2. Ranked(s, m, b) /\ OnRecord(s, srv, m) /\ (srv[m].unread \/ \A i \in DOMAIN s.queue[m] : Promised(s, m, i, d))
  BY DEF Told
<1>3. \A a \in BufferState : Rank(a) <= Rank(b) => Rank(a) <= Rank(b2)
  <2> SUFFICES ASSUME NEW a \in BufferState, Rank(a) <= Rank(b) PROVE Rank(a) <= Rank(b2)
    OBVIOUS
  <2>1. Rank(a) \in Nat /\ Rank(b) \in Nat /\ Rank(b2) \in Nat
    BY RankTypes
  <2> QED
    BY <2>1
<1>4. Ranked(s, m, b2)
  <2>1. s.unsaved[m] # NoState => s.unsaved[m] \in BufferState
    BY <1>1, EmacsParts DEF Types
  <2>2. \A i \in DOMAIN s.queue[m] : s.queue[m][i].tasks[1].state \in BufferState
    BY <1>1, RequestStates
  <2> HIDE DEF m
  <2> QED
    BY <1>2, <1>3, <2>1, <2>2 DEF Ranked
<1>5. ASSUME NEW i \in DOMAIN s.queue[m], Promised(s, m, i, d) PROVE Promised(s, m, i, d2)
  <2>1. s.queue[m][i].want.tick \in Nat
    <3>1. s.queue[m][i] \in EctxSet
      BY <1>1, RequestStates
    <3> QED
      BY <3>1, NatBounds DEF EctxSet, Tick
  <2>2. d \in Nat /\ d2 \in Nat
    BY NatBounds DEF Tick
  <2>3. s.queue[m][i].want.tick <= d => s.queue[m][i].want.tick <= d2
    BY <2>1, <2>2
  <2> QED
    BY <1>5, <2>3 DEF Promised
<1> QED
  BY <1>2, <1>4, <1>5 DEF Told

LEMMA BufferChanged ==
  ASSUME NEW s, NEW srv, NEW b, NEW d, NEW X, Inv(s, srv, b, d, X), NEW b2, NEW d2, Buffers(b2, d2),
         Rank(b) <= Rank(b2), d <= d2
  PROVE  Inv(s, srv, b2, d2, X)
<1>1. b \in BufferState /\ d \in Tick /\ b2 \in BufferState /\ d2 \in Tick /\ Types(s, srv)
  BY DEF Inv, Buffers
<1>2. Told(s, srv, b, d) => Told(s, srv, b2, d2)
  BY <1>1, ToldOfChange
<1> QED
  BY <1>2 DEF Inv

LEMMA KeptByBuffer == IInv /\ (Edit \/ Save \/ Revert) => IInv'
<1> SUFFICES ASSUME IInv, Edit \/ Save \/ Revert PROVE IInv'
  OBVIOUS
<1>1. Inv(emacs, server, buffer, disk, {}) /\ \A p \in Process : ~Idle(emacs, p)
  BY DEF IInv
<1>2. emacs' = emacs /\ server' = server
  BY DEF Edit, Save, Revert
<1>3. buffer \in BufferState /\ disk \in Tick /\ disk <= buffer.tick /\ (~buffer.modified => disk = buffer.tick)
  BY <1>1 DEF Inv, Buffers
<1>4. /\ MaxTick \in Nat /\ disk \in Nat /\ buffer.tick \in Nat /\ buffer.tick >= 1 /\ buffer.tick <= MaxTick
      /\ buffer.modified \in BOOLEAN /\ buffer.exists \in BOOLEAN
  BY <1>3, NatBounds DEF BufferState, Tick
<1>5. Buffers(buffer', disk') /\ Rank(buffer) <= Rank(buffer') /\ disk <= disk'
  <2>1. CASE Edit
    <3>1. buffer.tick < MaxTick /\ disk' = disk /\ buffer' = [buffer EXCEPT !.tick = @ + 1, !.modified = TRUE]
      BY <2>1 DEF Edit
    <3>2. /\ buffer' \in BufferState /\ buffer'.tick = buffer.tick + 1 /\ buffer'.modified
      <4>1. buffer.tick + 1 \in 1..MaxTick
        BY <1>4, <3>1
      <4>2. buffer' = [tick |-> buffer.tick + 1, modified |-> TRUE, exists |-> buffer.exists]
        BY <1>3, <3>1 DEF BufferState
      <4> QED
        BY <1>4, <4>1, <4>2 DEF BufferState
    <3> QED
      BY <1>3, <1>4, <3>1, <3>2 DEF Buffers, Rank
  <2>2. CASE Save
    <3>1. buffer.modified /\ disk' = buffer.tick /\ buffer' = [buffer EXCEPT !.modified = FALSE, !.exists = TRUE]
      BY <2>2 DEF Save
    <3>2. /\ buffer' \in BufferState /\ buffer'.tick = buffer.tick /\ ~buffer'.modified
      BY <1>3, <1>4, <3>1 DEF BufferState
    <3>3. disk' \in Tick
      BY <1>4, <3>1 DEF Tick
    <3> QED
      BY <1>3, <1>4, <3>1, <3>2, <3>3 DEF Buffers, Rank
  <2>3. CASE Revert
    <3>1. /\ buffer.tick < MaxTick /\ disk' = buffer.tick + 1
          /\ buffer' = [buffer EXCEPT !.tick = @ + 1, !.modified = FALSE]
      BY <2>3 DEF Revert
    <3>2. /\ buffer' \in BufferState /\ buffer'.tick = buffer.tick + 1 /\ ~buffer'.modified
      <4>1. buffer.tick + 1 \in 1..MaxTick
        BY <1>4, <3>1
      <4>2. buffer' = [tick |-> buffer.tick + 1, modified |-> FALSE, exists |-> buffer.exists]
        BY <1>3, <3>1 DEF BufferState
      <4> QED
        BY <1>4, <4>1, <4>2 DEF BufferState
    <3>3. disk' \in Tick
      BY <1>4, <3>1 DEF Tick
    <3> QED
      BY <1>3, <1>4, <3>1, <3>2, <3>3 DEF Buffers, Rank
  <2> QED
    BY <2>1, <2>2, <2>3
<1>6. PICK b2, d2 : b2 = buffer' /\ d2 = disk'
  OBVIOUS
<1>7. Inv(emacs, server, b2, d2, {})
  BY <1>1, <1>5, <1>6, BufferChanged
<1>8. Inv(emacs', server', buffer', disk', {}) /\ \A p \in Process : ~Idle(emacs', p)
  BY <1>1, <1>2, <1>6, <1>7
<1> QED
  BY <1>8 DEF IInv

(* A buffer with a request is killed.                                       *)
LEMMA KeptByKillBuffer == IInv /\ KillBuffer => IInv'
<1> SUFFICES ASSUME IInv, KillBuffer PROVE IInv'
  OBVIOUS
<1>1. Inv(emacs, server, buffer, disk, {}) /\ \A p \in Process : ~Idle(emacs, p)
  BY DEF IInv
<1>2. PICK p \in Process : \E i \in DOMAIN emacs.queue[p] :
        emacs' = [emacs EXCEPT !.gone = @ \cup {emacs.queue[p][i].id}]
  BY DEF KillBuffer
<1>3. PICK i \in DOMAIN emacs.queue[p] : emacs' = [emacs EXCEPT !.gone = @ \cup {emacs.queue[p][i].id}]
  BY <1>2
<1>4. buffer' = buffer /\ disk' = disk /\ server' = server
  BY DEF KillBuffer
<1>5. PICK t : t = emacs'
  OBVIOUS
<1>6. /\ Types(emacs, server) /\ Ordered(emacs) /\ Processes(emacs, server) /\ TempFiles(emacs)
      /\ ~emacs.mixed => Flow(emacs, server, {}) /\ Told(emacs, server, buffer, disk) /\ Answered(emacs, server)
  BY <1>1 DEF Inv
<1>7. emacs \in EmacsSet
  BY <1>6 DEF Types
<1>8. emacs.queue[p][i].id \in Request
  BY <1>6, RequestStates DEF EctxSet
<1>9. /\ t.queue = emacs.queue /\ t.done = emacs.done /\ t.unsaved = emacs.unsaved /\ t.temp = emacs.temp
      /\ t.pipe = emacs.pipe /\ t.process = emacs.process /\ t.made = emacs.made
      /\ t.requests = emacs.requests /\ t.mixed = emacs.mixed /\ t.output = emacs.output /\ t.mark = emacs.mark
      /\ t \in EmacsSet
  BY <1>3, <1>5, <1>7, <1>8 DEF EmacsSet
<1>10. Types(t, server) /\ Processes(t, server)
  BY <1>6, <1>9 DEF Types, Processes
<1>11. Ordered(t) /\ TempFiles(t)
  BY <1>6, <1>9, OrderedKept, TempFilesKept
<1>12. ~t.mixed => Flow(t, server, {}) /\ Told(t, server, buffer, disk) /\ Answered(t, server)
  <2>1. \A q : Same(server, server, q)
    BY DEF Same
  <2>2. Flow(emacs, server, {}) => Flow(t, server, {})
    BY <1>9, <2>1, FlowKept
  <2>3. Told(emacs, server, buffer, disk) => Told(t, server, buffer, disk)
    BY <1>9, ToldKept
  <2>4. Answered(emacs, server) => Answered(t, server)
    BY <1>9, AnsweredKept
  <2> QED
    BY <1>6, <1>9, <2>2, <2>3, <2>4
<1>13. Inv(t, server, buffer, disk, {})
  BY <1>1, <1>10, <1>11, <1>12 DEF Inv
<1>14. \A q \in Process : ~Idle(t, q)
  BY <1>1, <1>9, IdleKept
<1>15. Inv(emacs', server', buffer', disk', {}) /\ \A q \in Process : ~Idle(emacs', q)
  BY <1>4, <1>5, <1>13, <1>14
<1> QED
  BY <1>15 DEF IInv

----------------------------------------------------------------------------
(* The last process made ends, or is killed.                                *)

IsEnded(s, srv, t, srv2, m) ==
  /\ m \in Process /\ m = s.made /\ m = s.process
  /\ \E process \in {0, m} : t = [s EXCEPT !.process = process, !.pipe[m] = <<>>]
  /\ srv2 = [srv EXCEPT ![m] = Ended(@)]

LEMMA EndedKept ==
  ASSUME NEW s, NEW srv, NEW b, NEW d, Inv(s, srv, b, d, {}), NEW t, NEW srv2, NEW m, IsEnded(s, srv, t, srv2, m)
  PROVE  Inv(t, srv2, b, d, {})
<1> m \in Process /\ m = s.made /\ m = s.process /\ srv2 = [srv EXCEPT ![m] = Ended(@)]
  BY DEF IsEnded
<1>0. PICK process \in {0, m} : t = [s EXCEPT !.process = process, !.pipe[m] = <<>>]
  BY DEF IsEnded
<1>1. /\ Types(s, srv) /\ Ordered(s) /\ Processes(s, srv) /\ TempFiles(s) /\ Buffers(b, d)
      /\ ~s.mixed => Flow(s, srv, {}) /\ Told(s, srv, b, d) /\ Answered(s, srv)
  BY DEF Inv
<1>2. s \in EmacsSet /\ srv \in ServerSet
  BY <1>1 DEF Types
<1>3. /\ t \in EmacsSet /\ t.process = process /\ t.made = m /\ t.pipe = [s.pipe EXCEPT ![m] = <<>>]
      /\ t.queue = s.queue /\ t.done = s.done /\ t.unsaved = s.unsaved /\ t.temp = s.temp
      /\ t.requests = s.requests /\ t.mixed = s.mixed /\ t.output = s.output /\ t.mark = s.mark
  <2>1. process \in 0..MaxProcess
    BY NatBounds DEF Process
  <2>2. <<>> \in Seq(CommandSet)
    OBVIOUS
  <2> QED
    BY <1>0, <1>2, <2>1, <2>2 DEF EmacsSet
<1>4. t.pipe[m] = <<>> /\ \A q \in Process : q # m => t.pipe[q] = s.pipe[q]
  BY <1>2, <1>3 DEF EmacsSet
<1>5. /\ srv2[m].alive = FALSE /\ srv2[m].text = 0 /\ srv2[m].busy = Nothing
      /\ srv2[m].out = srv[m].out /\ srv2[m].unread = srv[m].unread /\ srv2[m].noticed = srv[m].noticed
      /\ \A q \in Process : q # m => srv2[q] = srv[q]
  BY <1>2 DEF ServerSet, Ended
<1>6. srv2 \in ServerSet
  <2>1. 0 \in Tick
    BY NatBounds DEF Tick
  <2> QED
    BY <1>2, <2>1 DEF ServerSet, Ended
<1>7. Types(t, srv2)
  BY <1>1, <1>3, <1>6 DEF Types
<1>8. Ordered(t) /\ TempFiles(t)
  BY <1>1, <1>3, OrderedKept, TempFilesKept
<1>9. Processes(t, srv2)
  <2>1. m \in Nat /\ ~(m > m)
    BY DEF Process
  <2>2. \A q \in Process : q <= t.made /\ srv2[q].alive => q = t.process
    BY <1>1, <1>3, <1>5 DEF Processes
  <2>3. \A q \in Process : srv2[q].noticed => ~srv2[q].alive
    BY <1>1, <1>5 DEF Processes
  <2>4. \A q \in Process : ~srv2[q].alive => t.pipe[q] = <<>> /\ srv2[q].busy = Nothing
    BY <1>1, <1>4, <1>5 DEF Processes
  <2>5. \A q \in Process : q > t.made =>
          /\ t.queue[q] = <<>> /\ t.pipe[q] = <<>> /\ t.done[q] = <<>> /\ t.unsaved[q] = NoState
          /\ srv2[q].out = <<>> /\ srv2[q].text = 0 /\ srv2[q].busy = Nothing
    BY <1>1, <1>3, <1>4, <1>5, <2>1 DEF Processes
  <2> QED
    BY <1>3, <2>2, <2>3, <2>4, <2>5 DEF Processes
<1>10. ~t.mixed => Flow(t, srv2, {}) /\ Told(t, srv2, b, d) /\ Answered(t, srv2)
  <2> SUFFICES ASSUME ~s.mixed PROVE Flow(t, srv2, {}) /\ Told(t, srv2, b, d) /\ Answered(t, srv2)
    BY <1>3
  <2>1. Answered(t, srv2)
    <3>1. \A q \in Process : srv[q].unread => srv2[q].unread
      BY <1>5
    <3> QED
      BY <1>1, <1>3, <3>1 DEF Answered
  <2>2. m # 0
    BY DEF Process
  <2>3. Told(t, srv2, b, d)
    <3>1. Ranked(s, m, b) /\ (srv[m].unread \/ \A i \in DOMAIN s.queue[m] : Promised(s, m, i, d))
      BY <1>1, <2>2 DEF Told
    <3>2. Ranked(t, m, b)
      BY <1>3, <3>1 DEF Ranked
    <3>3. OnRecord(t, srv2, m)
      BY <1>5 DEF OnRecord
    <3>4. ASSUME NEW i \in DOMAIN s.queue[m], Promised(s, m, i, d) PROVE Promised(t, m, i, d)
      BY <1>3, <3>4 DEF Promised
    <3> QED
      BY <1>3, <1>5, <3>1, <3>2, <3>3, <3>4 DEF Told
  <2>4. Flow(t, srv2, {})
    <3>1. /\ s.mark[m] = Len(s.output)
          /\ Quiet(s, m, {}) => s.pipe[m] = <<>> /\ srv[m].out = <<>> /\ srv[m].busy = Nothing
          /\ ~Quiet(s, m, {}) => Sent(s, srv, m) \/ Answering(s, srv, m) \/ Cut(s, srv, m)
      BY <1>1, <2>2 DEF Flow
    <3>2. Quiet(t, m, {}) <=> Quiet(s, m, {})
      BY <1>3 DEF Quiet
    <3>3. Sent(s, srv, m) => Cut(t, srv2, m)
      BY <1>4, <1>5 DEF Sent, Cut
    <3>4. Cut(s, srv, m) => Cut(t, srv2, m)
      BY <1>4, <1>5 DEF Cut
    <3>5. Answering(s, srv, m) => Answering(t, srv2, m)
      <4>1. \A reply : Right(s, srv, m, reply) => Right(t, srv2, m, reply)
        BY <1>3, <1>5 DEF Right, Task
      <4> QED
        BY <1>3, <1>4, <1>5, <4>1 DEF Answering
    <3> QED
      BY <1>3, <1>4, <1>5, <3>1, <3>2, <3>3, <3>4, <3>5 DEF Flow
  <2> QED
    BY <2>1, <2>3, <2>4
<1> QED
  BY <1>1, <1>7, <1>8, <1>9, <1>10 DEF Inv

LEMMA KeptByCrash ==
  ASSUME NEW p \in Process
  PROVE  IInv /\ Crash(p) => IInv'
<1> SUFFICES ASSUME IInv, Crash(p) PROVE IInv'
  OBVIOUS
<1>1. Inv(emacs, server, buffer, disk, {}) /\ \A q \in Process : ~Idle(emacs, q)
  BY DEF IInv
<1>2. /\ p <= emacs.made /\ server[p].alive /\ emacs' = [emacs EXCEPT !.pipe[p] = <<>>]
      /\ server' = [server EXCEPT ![p] = Ended(@)] /\ buffer' = buffer /\ disk' = disk
  BY DEF Crash
<1>3. Processes(emacs, server) /\ emacs \in EmacsSet
  BY <1>1 DEF Inv, Types
<1>4. p = emacs.process /\ p = emacs.made
  <2>1. p = emacs.process /\ emacs.process \in {0, emacs.made} /\ p # 0
    BY <1>2, <1>3 DEF Processes, Process
  <2> QED
    BY <2>1
<1>5. PICK t, srv : t = emacs' /\ srv = server'
  OBVIOUS
<1>6. t = [emacs EXCEPT !.process = p, !.pipe[p] = <<>>]
  BY <1>2, <1>3, <1>4, <1>5 DEF EmacsSet
<1>7. Inv(t, srv, buffer, disk, {})
  <2>1. IsEnded(emacs, server, t, srv, p)
    BY <1>2, <1>4, <1>5, <1>6 DEF IsEnded
  <2> QED
    BY <1>1, <2>1, EndedKept
<1>8. t.queue = emacs.queue
  BY <1>3, <1>6 DEF EmacsSet
<1>9. \A q \in Process : ~Idle(t, q)
  BY <1>1, <1>8, IdleKept
<1>10. Inv(emacs', server', buffer', disk', {}) /\ \A q \in Process : ~Idle(emacs', q)
  BY <1>2, <1>5, <1>7, <1>9
<1> QED
  BY <1>10 DEF IInv

LEMMA KeptByServerKill == IInv /\ ServerKill => IInv'
<1> SUFFICES ASSUME IInv, ServerKill PROVE IInv'
  OBVIOUS
<1> DEFINE p == emacs.process
<1>1. Inv(emacs, server, buffer, disk, {}) /\ \A q \in Process : ~Idle(emacs, q)
  BY DEF IInv
<1>2. /\ p # 0 /\ emacs' = [emacs EXCEPT !.process = 0, !.pipe[p] = <<>>]
      /\ server' = [server EXCEPT ![p] = Ended(@)] /\ buffer' = buffer /\ disk' = disk
  BY DEF ServerKill, HasProcess, NoProcess
<1>3. Processes(emacs, server) /\ emacs \in EmacsSet
  BY <1>1 DEF Inv, Types
<1>4. p = emacs.made /\ p \in Process
  <2>1. p \in 0..MaxProcess
    BY <1>3 DEF EmacsSet
  <2> QED
    BY <1>2, <1>3, <2>1, NatBounds DEF Processes, Process
<1>5. PICK t, srv : t = emacs' /\ srv = server'
  OBVIOUS
<1>6. Inv(t, srv, buffer, disk, {})
  <2>1. IsEnded(emacs, server, t, srv, p)
    BY <1>2, <1>4, <1>5 DEF IsEnded
  <2> HIDE DEF p
  <2> QED
    BY <1>1, <2>1, EndedKept
<1>7. t.queue = emacs.queue
  BY <1>2, <1>3, <1>5 DEF EmacsSet
<1>8. \A q \in Process : ~Idle(t, q)
  BY <1>1, <1>7, IdleKept
<1>9. Inv(emacs', server', buffer', disk', {}) /\ \A q \in Process : ~Idle(emacs', q)
  BY <1>2, <1>5, <1>6, <1>8
<1> QED
  BY <1>9 DEF IInv

----------------------------------------------------------------------------
(* The server works.                                                        *)

(* Only the last process made works.                                        *)
LEMMA Working ==
  ASSUME NEW s, NEW srv, Types(s, srv), Processes(s, srv), NEW p \in Process, srv[p].alive,
         s.pipe[p] # <<>> \/ srv[p].busy # Nothing
  PROVE  p = s.made /\ p = s.process /\ p # 0 /\ p \in Nat
<1>1. p \in Nat /\ s.made \in Nat /\ p # 0
  BY EmacsParts, NatBounds DEF Types, Process
<1>2. ~(p > s.made)
  BY DEF Processes
<1>3. p <= s.made
  BY <1>1, <1>2
<1>4. p = s.process /\ s.process \in {0, s.made}
  BY <1>3 DEF Processes
<1> QED
  BY <1>1, <1>4

(* The rest of the reply is written.                                        *)
Ending(srv, srv2, p) ==
  srv2 = [srv EXCEPT ![p].busy = Nothing, ![p].out = Append(@, [reply |-> srv[p].busy, last |-> TRUE])]

LEMMA RestKept ==
  ASSUME NEW s, NEW srv, NEW b, NEW d, Inv(s, srv, b, d, {}), NEW p \in Process,
         srv[p].alive, srv[p].busy # Nothing, NEW srv2, Ending(srv, srv2, p)
  PROVE  Inv(s, srv2, b, d, {})
<1> DEFINE part == [reply |-> srv[p].busy, last |-> TRUE]
<1>1. /\ Types(s, srv) /\ Ordered(s) /\ Processes(s, srv) /\ TempFiles(s) /\ Buffers(b, d)
      /\ ~s.mixed => Flow(s, srv, {}) /\ Told(s, srv, b, d) /\ Answered(s, srv)
  BY DEF Inv
<1>2. srv \in ServerSet /\ srv[p].out \in Seq(PartSet) /\ srv[p].busy \in Reply
  BY <1>1, ServerParts DEF Types
<1>3. part \in PartSet
  BY <1>2 DEF PartSet
<1>4. Append(srv[p].out, part) \in Seq(PartSet)
  BY <1>2, <1>3, Appended
<1>5. /\ srv2 \in ServerSet
      /\ srv2[p].alive = srv[p].alive /\ srv2[p].text = srv[p].text /\ srv2[p].busy = Nothing
      /\ srv2[p].noticed = srv[p].noticed
      /\ srv2[p].out = Append(srv[p].out, part) /\ srv2[p].unread = srv[p].unread
      /\ \A q \in Process : q # p => srv2[q] = srv[q]
  <2> HIDE DEF part
  <2>1. srv2 = [srv EXCEPT ![p].busy = Nothing, ![p].out = Append(@, part)]
    BY DEF part, Ending
  <2> QED
    BY <1>2, <1>4, <2>1 DEF ServerSet
<1>6. p = s.made /\ p # 0 /\ p \in Nat
  BY <1>1, Working
<1>7. Types(s, srv2)
  BY <1>1, <1>5 DEF Types
<1>8. Processes(s, srv2)
  <2>1. ~(p > s.made)
    BY <1>6
  <2>2. \A q \in Process : srv2[q].alive = srv[q].alive /\ srv2[q].noticed = srv[q].noticed
    BY <1>5
  <2>3. \A q \in Process : ~srv2[q].alive => s.pipe[q] = <<>> /\ srv2[q].busy = Nothing
    BY <1>1, <1>5 DEF Processes
  <2>4. \A q \in Process : q > s.made => srv2[q] = srv[q]
    BY <1>5, <2>1
  <2> QED
    BY <1>1, <2>2, <2>3, <2>4 DEF Processes
<1>9. ~s.mixed => Flow(s, srv2, {}) /\ Told(s, srv2, b, d) /\ Answered(s, srv2)
  <2> SUFFICES ASSUME ~s.mixed PROVE Flow(s, srv2, {}) /\ Told(s, srv2, b, d) /\ Answered(s, srv2)
    OBVIOUS
  <2>1. Answered(s, srv2)
    <3>1. \A q \in Process : srv[q].unread => srv2[q].unread
      BY <1>5
    <3> QED
      BY <1>1, <3>1 DEF Answered
  <2>2. Told(s, srv2, b, d)
    <3>1. srv2[s.made].alive = srv[s.made].alive /\ srv2[s.made].text = srv[s.made].text
          /\ srv2[s.made].unread = srv[s.made].unread
      BY <1>5, <1>6
    <3> QED
      BY <1>1, <3>1, ToldKept
  <2>3. /\ s.mark[p] = Len(s.output)
        /\ ~Quiet(s, p, {})
        /\ Sent(s, srv, p) \/ Answering(s, srv, p) \/ Cut(s, srv, p)
    BY <1>1, <1>6 DEF Flow
  <2>4. Answering(s, srv, p)
    BY <2>3 DEF Sent, Cut
  <2>5. PICK reply \in Reply :
         /\ reply.of = Head(s.queue[p]).id /\ Right(s, srv, p, reply)
         /\ LET first == [reply |-> reply, last |-> FALSE]
                last == [reply |-> reply, last |-> TRUE]
            IN  \/ /\ srv[p].busy = reply \/ (srv[p].busy = Nothing /\ ~srv[p].alive)
                   /\ \/ s.output = <<>> /\ srv[p].out = <<first>>
                      \/ s.output = <<first>> /\ srv[p].out = <<>>
                \/ /\ srv[p].busy = Nothing
                   /\ \/ s.output = <<>> /\ srv[p].out = <<first, last>>
                      \/ s.output = <<first>> /\ srv[p].out = <<last>>
    BY <2>4 DEF Answering
  <2> DEFINE first == [reply |-> reply, last |-> FALSE]
             last == [reply |-> reply, last |-> TRUE]
  <2>6. /\ srv[p].busy = reply
        /\ \/ s.output = <<>> /\ srv[p].out = <<first>>
           \/ s.output = <<first>> /\ srv[p].out = <<>>
    BY <2>5
  <2>7. part = last
    BY <2>6
  <2>8. first \in PartSet /\ last \in PartSet
    BY DEF PartSet
  <2> HIDE DEF part, first, last
  <2>9. \/ s.output = <<>> /\ srv2[p].out = <<first, last>>
        \/ s.output = <<first>> /\ srv2[p].out = <<last>>
    <3>1. CASE s.output = <<>> /\ srv[p].out = <<first>>
      BY <1>5, <2>7, <2>8, <3>1, AppendPair
    <3>2. CASE s.output = <<first>> /\ srv[p].out = <<>>
      <4>1. Append(<<>>, last) = <<last>>
        OBVIOUS
      <4> QED
        BY <1>5, <2>7, <3>2, <4>1
    <3> QED
      BY <2>6, <3>1, <3>2
  <2>10. Right(s, srv2, p, reply)
    BY <1>5, <2>5 DEF Right
  <2>11. Answering(s, srv2, p)
    BY <1>5, <2>4, <2>5, <2>9, <2>10 DEF Answering, first, last
  <2>12. Flow(s, srv2, {})
    BY <1>6, <2>3, <2>11 DEF Flow
  <2> QED
    BY <2>1, <2>2, <2>12
<1> QED
  BY <1>1, <1>7, <1>8, <1>9 DEF Inv

LEMMA KeptByServeRest ==
  ASSUME NEW p \in Process
  PROVE  IInv /\ ServeRest(p) => IInv'
<1> SUFFICES ASSUME IInv, ServeRest(p) PROVE IInv'
  OBVIOUS
<1>1. Inv(emacs, server, buffer, disk, {}) /\ \A q \in Process : ~Idle(emacs, q)
  BY DEF IInv
<1>2. /\ server[p].alive /\ server[p].busy # Nothing
      /\ server' = [server EXCEPT ![p].busy = Nothing,
                                  ![p].out = Append(@, [reply |-> server[p].busy, last |-> TRUE])]
      /\ buffer' = buffer /\ disk' = disk /\ emacs' = emacs
  BY DEF ServeRest
<1>3. PICK srv : srv = server'
  OBVIOUS
<1>4. Inv(emacs, srv, buffer, disk, {})
  <2>1. Ending(server, srv, p)
    BY <1>2, <1>3 DEF Ending
  <2> QED
    BY <1>1, <1>2, <2>1, RestKept
<1>5. Inv(emacs', server', buffer', disk', {}) /\ \A q \in Process : ~Idle(emacs', q)
  BY <1>1, <1>2, <1>3, <1>4
<1> QED
  BY <1>5 DEF IInv

LEMMA Executed ==
  ASSUME NEW command \in CommandSet, NEW text \in Tick, disk \in Tick, NEW made \in Execute(command, text)
  PROVE  /\ made.text \in Tick /\ made.unread \in BOOLEAN /\ made.reply \in Reply /\ made.reply.of = command.of
         /\ command.kind = "set-unsaved" =>
              \/ made.reply.ok /\ made.text = command.tick
              \/ ~made.reply.ok /\ made.text = 0 /\ made.unread
         /\ command.kind = "reset-unsaved" => made.text = 0
         /\ command.kind = "parse" =>
              /\ made.text = text
              /\ made.reply.seen = IF ~made.reply.ok THEN 0 ELSE IF text # 0 THEN text ELSE disk
<1>1. command.kind \in Kind /\ command.of \in 0..MaxRequest /\ command.tick \in Tick /\ 0 \in Tick
  BY NatBounds DEF CommandSet, Request, Tick
<1>2. ASSUME NEW ok \in BOOLEAN, NEW seen \in Tick
      PROVE  /\ Replied(ok, command.of, seen) \in Reply /\ Replied(ok, command.of, seen).ok = ok
             /\ Replied(ok, command.of, seen).of = command.of /\ Replied(ok, command.of, seen).seen = seen
  BY <1>1 DEF Replied, Reply
<1>3. CASE command.kind = "set-unsaved"
  <2> DEFINE yes == Replied(TRUE, command.of, 0)
             no == Replied(FALSE, command.of, 0)
  <2>1. \/ made = [text |-> command.tick, unread |-> FALSE, reply |-> yes]
        \/ made = [text |-> 0, unread |-> TRUE, reply |-> no]
    BY <1>3 DEF Execute, SetUnsaved
  <2>2. /\ yes \in Reply /\ yes.ok = TRUE /\ yes.of = command.of
        /\ no \in Reply /\ no.ok = FALSE /\ no.of = command.of
    BY <1>1, <1>2
  <2> HIDE DEF yes, no
  <2>3. CASE made = [text |-> command.tick, unread |-> FALSE, reply |-> yes]
    <3>1. made.text = command.tick /\ made.unread = FALSE /\ made.reply = yes
      BY <2>3
    <3> QED
      BY <1>1, <1>3, <2>2, <3>1
  <2>4. CASE made = [text |-> 0, unread |-> TRUE, reply |-> no]
    <3>1. made.text = 0 /\ made.unread = TRUE /\ made.reply = no
      BY <2>4
    <3> QED
      BY <1>1, <1>3, <2>2, <3>1
  <2> QED
    BY <2>1, <2>3, <2>4
<1>4. CASE command.kind = "reset-unsaved"
  <2>1. made = [text |-> 0, unread |-> FALSE, reply |-> Replied(text # 0, command.of, 0)]
    BY <1>4 DEF Execute, ResetUnsaved
  <2>2. (text # 0) \in BOOLEAN
    OBVIOUS
  <2> QED
    BY <1>1, <1>2, <1>4, <2>1, <2>2
<1>5. CASE command.kind = "parse"
  <2> DEFINE seen == IF text # 0 THEN text ELSE disk
  <2>1. seen \in Tick
    OBVIOUS
  <2> DEFINE yes == Replied(TRUE, command.of, seen)
             no == Replied(FALSE, command.of, 0)
  <2>2. \/ made = [text |-> text, unread |-> FALSE, reply |-> yes]
        \/ made = [text |-> text, unread |-> FALSE, reply |-> no]
    BY <1>5 DEF Execute, Parse
  <2> HIDE DEF seen
  <2>3. /\ yes \in Reply /\ yes.ok = TRUE /\ yes.of = command.of /\ yes.seen = seen
        /\ no \in Reply /\ no.ok = FALSE /\ no.of = command.of /\ no.seen = 0
    BY <1>1, <1>2, <2>1
  <2> HIDE DEF yes, no
  <2>4. made.text = text /\ made.unread = FALSE /\ (made.reply = yes \/ made.reply = no)
    BY <2>2
  <2>5. made.reply.seen = IF ~made.reply.ok THEN 0 ELSE seen
    BY <2>3, <2>4
  <2>6. made.reply.seen = IF ~made.reply.ok THEN 0 ELSE IF text # 0 THEN text ELSE disk
    BY <2>5 DEF seen
  <2> QED
    BY <1>5, <2>3, <2>4, <2>6
<1> QED
  BY <1>1, <1>3, <1>4, <1>5 DEF Kind

(* A command is read and done, and the first part of its reply written.     *)
IsServed(s, t, srv, srv2, p, made) ==
  /\ t = [s EXCEPT !.pipe[p] = Tail(@)]
  /\ srv2 = [srv EXCEPT ![p].text = made.text, ![p].unread = @ \/ made.unread, ![p].busy = made.reply,
                        ![p].out = Append(@, [reply |-> made.reply, last |-> FALSE])]

ServedTo(s, t, srv, srv2, p, made) ==
  /\ t \in EmacsSet /\ t.process = s.process /\ t.made = s.made /\ t.pipe[p] = Tail(s.pipe[p])
  /\ \A q \in Process : q # p => t.pipe[q] = s.pipe[q]
  /\ t.queue = s.queue /\ t.done = s.done /\ t.unsaved = s.unsaved /\ t.temp = s.temp
  /\ t.requests = s.requests /\ t.mixed = s.mixed /\ t.output = s.output /\ t.mark = s.mark
  /\ srv2 \in ServerSet
  /\ srv2[p].text = made.text /\ srv2[p].unread = (srv[p].unread \/ made.unread) /\ srv2[p].busy = made.reply
  /\ srv2[p].out = Append(srv[p].out, [reply |-> made.reply, last |-> FALSE])
  /\ srv2[p].alive = srv[p].alive /\ srv2[p].noticed = srv[p].noticed
  /\ \A q \in Process : q # p => srv2[q] = srv[q]

LEMMA ServedFields ==
  ASSUME NEW s, NEW srv, Types(s, srv), NEW p \in Process, s.pipe[p] # <<>>, disk \in Tick,
         NEW made \in Execute(Head(s.pipe[p]), srv[p].text), NEW t, NEW srv2, IsServed(s, t, srv, srv2, p, made)
  PROVE  ServedTo(s, t, srv, srv2, p, made) /\ Head(s.pipe[p]) \in CommandSet /\ srv[p].text \in Tick
<1>1. s \in EmacsSet /\ srv \in ServerSet /\ s.pipe[p] \in Seq(CommandSet)
  BY EmacsParts DEF Types
<1>2. Head(s.pipe[p]) \in CommandSet /\ Tail(s.pipe[p]) \in Seq(CommandSet)
  BY <1>1, HeadAndTail
<1>3. srv[p].text \in Tick /\ srv[p].out \in Seq(PartSet) /\ srv[p].unread \in BOOLEAN
  BY <1>1, ServerParts
<1>4. made.text \in Tick /\ made.unread \in BOOLEAN /\ made.reply \in Reply
  BY <1>2, <1>3, Executed
<1> DEFINE part == [reply |-> made.reply, last |-> FALSE]
           out == Append(srv[p].out, part)
           unread == srv[p].unread \/ made.unread
<1>5. part \in PartSet
  BY <1>4 DEF PartSet
<1>6. out \in Seq(PartSet)
  BY <1>3, <1>5, Appended
<1>7. unread \in BOOLEAN
  OBVIOUS
<1>8. t = [s EXCEPT !.pipe[p] = Tail(@)]
  BY DEF IsServed
<1>9. srv2 = [srv EXCEPT ![p].text = made.text, ![p].unread = unread, ![p].busy = made.reply, ![p].out = out]
  BY DEF IsServed
<1> HIDE DEF part, out, unread
<1>10. /\ t \in EmacsSet /\ t.process = s.process /\ t.made = s.made /\ t.pipe[p] = Tail(s.pipe[p])
       /\ \A q \in Process : q # p => t.pipe[q] = s.pipe[q]
       /\ t.queue = s.queue /\ t.done = s.done /\ t.unsaved = s.unsaved /\ t.temp = s.temp
       /\ t.requests = s.requests /\ t.mixed = s.mixed /\ t.output = s.output /\ t.mark = s.mark
  BY <1>1, <1>2, <1>8 DEF EmacsSet
<1>11. srv2 \in ServerSet
  <2> DEFINE old == srv[p]
             new == [old EXCEPT !.text = made.text, !.unread = unread, !.busy = made.reply, !.out = out]
  <2>1. new \in [alive : BOOLEAN, noticed : BOOLEAN, closed : BOOLEAN, text : Tick,
                 busy : Reply \cup {Nothing}, out : Seq(PartSet), unread : BOOLEAN]
    <3>1. old \in [alive : BOOLEAN, noticed : BOOLEAN, closed : BOOLEAN, text : Tick,
                   busy : Reply \cup {Nothing}, out : Seq(PartSet), unread : BOOLEAN]
      BY <1>1 DEF ServerSet
    <3> HIDE DEF old
    <3> QED
      BY <1>4, <1>6, <1>7, <3>1
  <2>2. srv2 = [srv EXCEPT ![p] = new]
    BY <1>1, <1>9 DEF ServerSet
  <2> HIDE DEF new
  <2> QED
    BY <1>1, <2>1, <2>2 DEF ServerSet
<1>12. /\ srv2[p].text = made.text /\ srv2[p].unread = unread /\ srv2[p].busy = made.reply
       /\ srv2[p].out = out /\ srv2[p].alive = srv[p].alive /\ srv2[p].noticed = srv[p].noticed
       /\ \A q \in Process : q # p => srv2[q] = srv[q]
  BY <1>1, <1>9 DEF ServerSet
<1> QED
  BY <1>2, <1>3, <1>10, <1>11, <1>12 DEF ServedTo, part, out, unread

LEMMA ServedKept ==
  ASSUME NEW s, NEW srv, NEW b, Inv(s, srv, b, disk, {}), NEW p \in Process,
         srv[p].alive, srv[p].busy = Nothing, s.pipe[p] # <<>>,
         NEW made \in Execute(Head(s.pipe[p]), srv[p].text), NEW t, NEW srv2, IsServed(s, t, srv, srv2, p, made)
  PROVE  Inv(t, srv2, b, disk, {})
<1> DEFINE reply == made.reply
           command == Head(s.pipe[p])
           first == [reply |-> reply, last |-> FALSE]
           task == Task(s, p)
           head == Head(s.queue[p])
<1>1. /\ Types(s, srv) /\ Ordered(s) /\ Processes(s, srv) /\ TempFiles(s) /\ Buffers(b, disk) /\ disk \in Tick
      /\ ~s.mixed => Flow(s, srv, {}) /\ Told(s, srv, b, disk) /\ Answered(s, srv)
  BY DEF Inv, Buffers
<1>2. ServedTo(s, t, srv, srv2, p, made) /\ command \in CommandSet /\ srv[p].text \in Tick
  BY <1>1, ServedFields
<1>3. /\ t \in EmacsSet /\ t.process = s.process /\ t.made = s.made /\ t.pipe[p] = Tail(s.pipe[p])
      /\ \A q \in Process : q # p => t.pipe[q] = s.pipe[q]
      /\ t.queue = s.queue /\ t.done = s.done /\ t.unsaved = s.unsaved /\ t.temp = s.temp
      /\ t.requests = s.requests /\ t.mixed = s.mixed /\ t.output = s.output /\ t.mark = s.mark
  BY <1>2 DEF ServedTo
<1>4. /\ srv2 \in ServerSet
      /\ srv2[p].text = made.text /\ srv2[p].unread = (srv[p].unread \/ made.unread) /\ srv2[p].busy = reply
      /\ srv2[p].out = Append(srv[p].out, first)
      /\ srv2[p].alive = srv[p].alive /\ srv2[p].noticed = srv[p].noticed
      /\ \A q \in Process : q # p => srv2[q] = srv[q]
  BY <1>2 DEF ServedTo
<1>5. p = s.made /\ p # 0 /\ p \in Nat
  BY <1>1, Working
<1>6. /\ reply \in Reply /\ reply.of = command.of
      /\ command.kind = "set-unsaved" =>
           \/ reply.ok /\ made.text = command.tick
           \/ ~reply.ok /\ made.text = 0 /\ made.unread
      /\ command.kind = "reset-unsaved" => made.text = 0
      /\ command.kind = "parse" =>
           /\ made.text = srv[p].text
           /\ reply.seen = IF ~reply.ok THEN 0 ELSE IF srv[p].text # 0 THEN srv[p].text ELSE disk
  BY <1>1, <1>2, Executed
<1> HIDE DEF reply, command, first, task, head
<1>7. Types(t, srv2)
  BY <1>1, <1>3, <1>4 DEF Types
<1>8. Ordered(t) /\ TempFiles(t)
  BY <1>1, <1>3, OrderedKept, TempFilesKept
<1>9. Processes(t, srv2)
  <2>1. ~(p > s.made)
    BY <1>5
  <2>2. \A q \in Process : srv2[q].alive = srv[q].alive /\ srv2[q].noticed = srv[q].noticed
    BY <1>4
  <2>3. \A q \in Process : ~srv2[q].alive => t.pipe[q] = <<>> /\ srv2[q].busy = Nothing
    <3> SUFFICES ASSUME NEW q \in Process, ~srv2[q].alive PROVE t.pipe[q] = <<>> /\ srv2[q].busy = Nothing
      OBVIOUS
    <3>1. ~srv[q].alive
      BY <2>2
    <3>2. q # p
      BY <3>1
    <3>3. srv2[q] = srv[q] /\ t.pipe[q] = s.pipe[q]
      BY <1>3, <1>4, <3>2
    <3> QED
      BY <1>1, <3>1, <3>3 DEF Processes
  <2>4. \A q \in Process : q > s.made => srv2[q] = srv[q] /\ t.pipe[q] = s.pipe[q]
    BY <1>3, <1>4, <2>1
  <2> QED
    BY <1>1, <1>3, <2>2, <2>3, <2>4 DEF Processes
<1>10. ~t.mixed => Flow(t, srv2, {}) /\ Told(t, srv2, b, disk) /\ Answered(t, srv2)
  <2> SUFFICES ASSUME ~s.mixed PROVE Flow(t, srv2, {}) /\ Told(t, srv2, b, disk) /\ Answered(t, srv2)
    BY <1>3
  <2>1. Answered(t, srv2)
    <3>1. \A q \in Process : srv[q].unread => srv2[q].unread
      BY <1>4
    <3> QED
      BY <1>1, <1>3, <3>1 DEF Answered
  <2>2. /\ s.mark[p] = Len(s.output) /\ ~Quiet(s, p, {})
        /\ Sent(s, srv, p) \/ Answering(s, srv, p) \/ Cut(s, srv, p)
    BY <1>1, <1>5 DEF Flow
  <2>3. Sent(s, srv, p)
    BY <2>2 DEF Answering, Cut
  <2>4. /\ srv[p].out = <<>> /\ s.output = <<>> /\ s.pipe[p] = <<command>> /\ command.of = head.id
        /\ command.kind = task.kind /\ command.tick >= task.state.tick
    <3>1. PICK c \in CommandSet : /\ s.pipe[p] = <<c>> /\ c.of = Head(s.queue[p]).id /\ c.kind = Task(s, p).kind
                                  /\ c.tick >= Task(s, p).state.tick
      BY <2>3 DEF Sent
    <3>2. command = c
      BY <3>1 DEF command
    <3> QED
      BY <2>3, <3>1, <3>2 DEF Sent, head, task
  <2>5. s.queue[p] # <<>> /\ head.started
    BY <2>2 DEF Quiet, head
  <2>6. /\ head \in EctxSet /\ head = s.queue[p][1] /\ 1 \in DOMAIN s.queue[p]
        /\ head.want.tick \in Tick /\ Shaped(head)
        /\ task = head.tasks[1] /\ task.kind \in Kind /\ task.state \in BufferState /\ task.state.tick \in Nat
        /\ task.state.tick >= 1
    BY <1>1, <2>5, FirstRequest DEF head, task
  <2>7. t.pipe[p] = <<>>
    BY <1>3, <2>4
  <2>8. Task(t, p) = task /\ Head(t.queue[p]) = head /\ ~Quiet(t, p, {})
    BY <1>3, <2>2 DEF Task, task, head, Quiet
  <2>9. /\ command.tick \in Nat /\ srv[p].text \in Nat /\ made.text \in Int /\ disk \in Nat
        /\ head.want.tick \in Nat /\ head.want.tick = task.state.tick
    <3>1. command.tick \in Tick
      BY <1>2 DEF CommandSet
    <3>2. made.text \in Tick
      BY <1>1, <1>2, Executed DEF command
    <3>3. head.want.tick = task.state.tick
      BY <2>6 DEF Shaped
    <3> QED
      BY <1>1, <1>2, <2>6, <3>1, <3>2, <3>3, NatBounds, SMTT(90) DEF Tick
  <2>10. /\ Ranked(s, p, b) /\ OnRecord(s, srv, p)
         /\ srv[p].unread \/ \A i \in DOMAIN s.queue[p] : Promised(s, p, i, disk)
    BY <1>1, <1>5 DEF Told
  <2>11. /\ ~srv[p].unread /\ srv[p].text # 0 => s.unsaved[p] # NoState \/ task.kind = "set-unsaved"
         /\ ~srv[p].unread /\ s.unsaved[p] # NoState =>
              srv[p].text >= s.unsaved[p].tick \/ task.kind = "reset-unsaved"
    BY <2>5, <2>10 DEF OnRecord, task
  <2>12. s.unsaved[p] # NoState => s.unsaved[p].tick \in Nat /\ s.unsaved[p].tick <= task.state.tick
    <3> SUFFICES ASSUME s.unsaved[p] # NoState
                 PROVE  s.unsaved[p].tick \in Nat /\ s.unsaved[p].tick <= task.state.tick
      OBVIOUS
    <3>1. s.unsaved[p] \in BufferState
      BY <1>1, EmacsParts DEF Types
    <3>2. Rank(s.unsaved[p]) <= Rank(task.state)
      BY <2>6, <2>10 DEF Ranked
    <3> QED
      BY <2>6, <3>1, <3>2, RankBoundsTick, RankTypes
  <2>13. Right(t, srv2, p, reply)
    <3>1. ASSUME reply.ok, task.kind = "parse", ~srv2[p].unread
          PROVE  Fresh(head.want, reply)
      <4>1. ~srv[p].unread /\ Promised(s, p, 1, disk)
        BY <1>4, <2>6, <2>10, <3>1
      <4>2. reply.seen = IF srv[p].text # 0 THEN srv[p].text ELSE disk
        BY <1>6, <2>4, <3>1
      <4>3. \/ head.want.untold
            \/ head.want.tick <= disk /\ s.unsaved[p] = NoState
            \/ s.unsaved[p] # NoState /\ s.unsaved[p].tick >= head.want.tick
        BY <2>6, <3>1, <4>1 DEF Promised
      <4>4. CASE head.want.untold
        BY <4>4 DEF Fresh
      <4>5. CASE head.want.tick <= disk /\ s.unsaved[p] = NoState
        <5>1. reply.seen = disk
          BY <2>11, <3>1, <4>1, <4>2, <4>5
        <5> QED
          BY <2>9, <4>5, <5>1 DEF Fresh
      <4>6. CASE s.unsaved[p] # NoState /\ s.unsaved[p].tick >= head.want.tick
        <5>1. srv[p].text >= s.unsaved[p].tick
          BY <2>11, <3>1, <4>1, <4>6
        <5>2. srv[p].text >= head.want.tick /\ srv[p].text # 0
          BY <2>6, <2>9, <2>12, <4>6, <5>1, SMTT(90)
        <5> QED
          BY <4>2, <5>2 DEF Fresh
      <4> QED
        BY <4>3, <4>4, <4>5, <4>6
    <3>2. ~reply.ok /\ task.kind = "set-unsaved" => srv2[p].unread
      BY <1>4, <1>6, <2>4
    <3> QED
      BY <1>6, <2>4, <2>8, <3>1, <3>2 DEF Right
  <2>14. Flow(t, srv2, {})
    <3>1. srv2[p].out = <<first>>
      BY <1>4, <2>4
    <3>2. Answering(t, srv2, p)
      BY <1>3, <1>4, <1>6, <2>4, <2>7, <2>8, <2>13, <3>1, ZenonT(60) DEF Answering, first
    <3> QED
      BY <1>3, <1>5, <2>2, <2>8, <3>2 DEF Flow
  <2>15. Ranked(t, p, b)
    BY <1>3, <2>10 DEF Ranked
  <2>16. OnRecord(t, srv2, p)
    <3> SUFFICES ASSUME ~srv2[p].unread
                 PROVE  /\ srv2[p].text # 0 => s.unsaved[p] # NoState \/ task.kind = "set-unsaved"
                        /\ s.unsaved[p] # NoState =>
                             srv2[p].text >= s.unsaved[p].tick \/ task.kind = "reset-unsaved"
                        /\ task.kind = "set-unsaved" => srv2[p].text >= task.state.tick
                        /\ task.kind = "reset-unsaved" => srv2[p].text = 0
      BY <1>3, <2>5, <2>8 DEF OnRecord, task, head
    <3>1. ~srv[p].unread /\ ~made.unread /\ srv2[p].text = made.text
      BY <1>4
    <3>2. CASE task.kind = "set-unsaved"
      <4>1. made.text = command.tick
        BY <1>6, <2>4, <3>1, <3>2
      <4> QED
        BY <2>4, <2>6, <2>9, <2>12, <3>1, <3>2, <4>1, SMTT(90)
    <3>3. CASE task.kind = "reset-unsaved"
      BY <1>6, <2>4, <3>1, <3>3
    <3>4. CASE task.kind = "parse"
      BY <1>6, <2>4, <2>11, <3>1, <3>4
    <3> QED
      BY <2>6, <3>2, <3>3, <3>4 DEF Kind
  <2>17. srv2[p].unread \/ \A i \in DOMAIN t.queue[p] : Promised(t, p, i, disk)
    <3>1. ASSUME NEW i, Promised(s, p, i, disk) PROVE Promised(t, p, i, disk)
      BY <1>3, <3>1, ZenonT(60) DEF Promised
    <3> QED
      BY <1>3, <1>4, <2>10, <3>1
  <2>18. Told(t, srv2, b, disk)
    BY <1>3, <1>5, <2>15, <2>16, <2>17 DEF Told
  <2> QED
    BY <2>1, <2>14, <2>18
<1> QED
  BY <1>1, <1>7, <1>8, <1>9, <1>10 DEF Inv

LEMMA KeptByServe ==
  ASSUME NEW p \in Process
  PROVE  IInv /\ Serve(p) => IInv'
<1> SUFFICES ASSUME IInv, Serve(p) PROVE IInv'
  OBVIOUS
<1>1. Inv(emacs, server, buffer, disk, {}) /\ \A q \in Process : ~Idle(emacs, q)
  BY DEF IInv
<1>2. /\ server[p].alive /\ server[p].busy = Nothing /\ emacs.pipe[p] # <<>>
      /\ buffer' = buffer /\ disk' = disk
  BY DEF Serve
<1>3. PICK t, srv : t = emacs' /\ srv = server'
  OBVIOUS
<1>4. PICK made \in Execute(Head(emacs.pipe[p]), server[p].text) : IsServed(emacs, t, server, srv, p, made)
  BY <1>3 DEF Serve, IsServed
<1>5. Inv(t, srv, buffer, disk, {})
  BY <1>1, <1>2, <1>4, ServedKept
<1>6. \A q \in Process : ~Idle(t, q)
  <2>1. emacs \in EmacsSet /\ t = [emacs EXCEPT !.pipe[p] = Tail(@)]
    BY <1>1, <1>4 DEF Inv, Types, IsServed
  <2>2. t.queue = emacs.queue
    BY <2>1 DEF EmacsSet
  <2> QED
    BY <1>1, <2>2, IdleKept
<1>7. Inv(emacs', server', buffer', disk', {}) /\ \A q \in Process : ~Idle(emacs', q)
  BY <1>2, <1>3, <1>5, <1>6
<1> QED
  BY <1>7 DEF IInv

----------------------------------------------------------------------------
(* The theorems.                                                            *)

LEMMA InitiallyIInv == Init => IInv
<1> SUFFICES ASSUME Init PROVE IInv
  OBVIOUS
<1> DEFINE none == [p \in Process |-> <<>>]
<1>1. /\ buffer \in [tick : {1}, modified : {TRUE}, exists : BOOLEAN] /\ disk = 0
      /\ emacs = [process |-> NoProcess, made |-> 0,
                  queue |-> none, unsaved |-> [p \in Process |-> NoState],
                  output |-> <<>>, mark |-> [p \in Process |-> 0], temp |-> {}, gone |-> {},
                  pipe |-> none, requests |-> 0, done |-> none, mixed |-> FALSE]
      /\ server = [p \in Process |-> [alive |-> TRUE, noticed |-> FALSE, closed |-> FALSE, text |-> 0,
                                     busy |-> Nothing, out |-> <<>>, unread |-> FALSE]]
  BY DEF Init
<1>2. \A S : none \in [Process -> Seq(S)]
  OBVIOUS
<1>3. \A p \in Process : none[p] = <<>> /\ DOMAIN none[p] = {}
  OBVIOUS
<1> HIDE DEF none
<1>4. /\ emacs.process = 0 /\ emacs.made = 0 /\ emacs.queue = none /\ emacs.done = none /\ emacs.pipe = none
      /\ emacs.output = <<>> /\ emacs.temp = {} /\ emacs.requests = 0
      /\ \A p \in Process : emacs.mark[p] = 0 /\ emacs.unsaved[p] = NoState
      /\ \A p \in Process : /\ server[p].alive /\ ~server[p].noticed /\ server[p].text = 0
                            /\ server[p].busy = Nothing /\ server[p].out = <<>>
  BY <1>1 DEF NoProcess
<1>5. emacs \in EmacsSet
  <2>1. 0 \in 0..MaxProcess /\ 0 \in 0..MaxRequest /\ <<>> \in Seq(PartSet)
    BY NatBounds
  <2>2. [p \in Process |-> NoState] \in [Process -> BufferState \cup {NoState}]
        /\ [p \in Process |-> 0] \in [Process -> Nat]
    OBVIOUS
  <2>3. /\ none \in [Process -> Seq(EctxSet)]
        /\ none \in [Process -> Seq(CommandSet)] /\ none \in [Process -> Seq(DoneSet)]
    BY <1>2
  <2> QED
    BY <1>1, <2>1, <2>2, <2>3 DEF EmacsSet, NoProcess
<1>6. server \in ServerSet
  <2>1. 0 \in Tick /\ <<>> \in Seq(PartSet)
    BY NatBounds DEF Tick
  <2> QED
    BY <1>1, <2>1 DEF ServerSet
<1>7. Types(emacs, server)
  BY <1>3, <1>4, <1>5, <1>6 DEF Types
<1>8. Ordered(emacs)
  BY <1>3, <1>4 DEF Ordered, Ids, QueueIds, DoneIds
<1>9. Processes(emacs, server)
  <2>1. \A p \in Process : ~(p <= 0)
    BY DEF Process
  <2> QED
    BY <1>3, <1>4, <2>1 DEF Processes
<1>10. TempFiles(emacs)
  BY <1>4 DEF TempFiles
<1>11. Buffers(buffer, disk)
  <2>1. buffer.tick = 1 /\ buffer.modified = TRUE /\ buffer \in BufferState
    <3>1. PICK e \in BOOLEAN : buffer = [tick |-> 1, modified |-> TRUE, exists |-> e]
      BY <1>1
    <3>2. 1 \in 1..MaxTick
      BY NatBounds
    <3> QED
      BY <3>1, <3>2 DEF BufferState
  <2>2. disk \in Tick /\ disk = 0
    BY <1>1, NatBounds DEF Tick
  <2> QED
    BY <2>1, <2>2 DEF Buffers
<1>12. Flow(emacs, server, {}) /\ Told(emacs, server, buffer, disk) /\ Answered(emacs, server)
  BY <1>3, <1>4 DEF Flow, Told, Answered
<1>13. \A p \in Process : ~Idle(emacs, p)
  BY <1>3, <1>4 DEF Idle
<1> QED
  BY <1>7, <1>8, <1>9, <1>10, <1>11, <1>12, <1>13 DEF IInv, Inv

(* What one action after the other keeps, whatever irony-iotask.el has      *)
(* under way: the queues, the output and the record of unsaved buffers fit  *)
(* together, and no process with requests that wait is left idle.           *)
THEOREM IInvInvariant == Spec => []IInv
<1>1. IInv /\ [Next]_vars => IInv'
  <2> SUFFICES ASSUME IInv, [Next]_vars PROVE IInv'
    OBVIOUS
  <2>1. CASE RunTask
    BY <2>1, KeptByRunTask
  <2>2. CASE ServerKill
    BY <2>2, KeptByServerKill
  <2>3. CASE KillBuffer
    BY <2>3, KeptByKillBuffer
  <2>4. CASE Edit \/ Save \/ Revert
    BY <2>4, KeptByBuffer
  <2>5. ASSUME NEW p \in Process, ProcessFilter(p) PROVE IInv'
    BY <2>5, KeptByProcessFilter
  <2>6. ASSUME NEW p \in Process, ProcessSentinel(p) PROVE IInv'
    BY <2>6, KeptByProcessSentinel
  <2>7. ASSUME NEW p \in Process, Notice(p) PROVE IInv'
    BY <2>7, KeptByNotice
  <2>8. ASSUME NEW p \in Process, Serve(p) PROVE IInv'
    BY <2>8, KeptByServe
  <2>9. ASSUME NEW p \in Process, ServeRest(p) PROVE IInv'
    BY <2>9, KeptByServeRest
  <2>10. ASSUME NEW p \in Process, Crash(p) PROVE IInv'
    BY <2>10, KeptByCrash
  <2>11. CASE UNCHANGED vars
    BY <2>11 DEF IInv, vars
  <2> QED
    BY <2>1, <2>2, <2>3, <2>4, <2>5, <2>6, <2>7, <2>8, <2>9, <2>10, <2>11 DEF Next
<1> QED
  BY <1>1, InitiallyIInv, PTL DEF Spec

(* The queue of irony-iotask.el, the record of unsaved buffers, the process *)
(* buffer and its marks have their types; a mark is in the buffer.          *)
THEOREM TypesHold == Spec => []TypeOK
<1>1. IInv => TypeOK
  <2> SUFFICES ASSUME IInv PROVE TypeOK
    OBVIOUS
  <2>1. Types(emacs, server) /\ Processes(emacs, server) /\ Buffers(buffer, disk)
    BY DEF IInv, Inv
  <2>2. emacs \in EmacsSet /\ server \in ServerSet
    BY <2>1 DEF Types
  <2>3. emacs.made \in 0..MaxProcess /\ emacs.process \in 0..emacs.made
    <3>1. emacs.made \in 0..MaxProcess /\ emacs.process \in {0, emacs.made}
      BY <2>1, <2>2 DEF EmacsSet, Processes
    <3> QED
      BY <3>1, NatBounds
  <2>4. \A q \in Seq(PartSet) : \A i \in DOMAIN q : IsPart(q[i])
    <3>1. \A q \in Seq(PartSet) : \A i \in DOMAIN q : q[i] \in PartSet
      BY SeqElement
    <3> QED
      BY <3>1 DEF PartSet, IsPart
  <2>5. \A i \in DOMAIN emacs.output : IsPart(emacs.output[i])
    BY <2>2, <2>4 DEF EmacsSet
  <2>6. ASSUME NEW p \in Process
        PROVE  /\ \A i \in DOMAIN emacs.queue[p] : IsEctx(emacs.queue[p][i])
               /\ emacs.unsaved[p] \in BufferState \cup {NoState}
               /\ emacs.mark[p] \in 0..Len(emacs.output)
               /\ server[p].text \in Tick
               /\ \A i \in DOMAIN server[p].out : IsPart(server[p].out[i])
    <3>1. ASSUME NEW i \in DOMAIN emacs.queue[p] PROVE IsEctx(emacs.queue[p][i])
      <4> DEFINE e == emacs.queue[p][i]
      <4>1. e \in EctxSet /\ Shaped(e)
        BY <2>1, RequestStates
      <4> HIDE DEF e
      <4>2. e.tasks \in Seq(TaskSet) /\ e.tasks # <<>> /\ e.id \in Request /\ e.started \in BOOLEAN
        BY <4>1 DEF EctxSet, Shaped
      <4>3. \A j \in DOMAIN e.tasks : e.tasks[j] \in TaskSet
        BY <4>2, SeqElement
      <4> QED
        BY <4>2, <4>3 DEF IsEctx, TaskSet, Kind, e
    <3>2. emacs.mark[p] \in 0..Len(emacs.output)
      <4>1. emacs.mark[p] \in Nat /\ Len(emacs.output) \in Nat /\ emacs.mark[p] <= Len(emacs.output)
        BY <2>1, <2>2, EmacsParts DEF Types
      <4> QED
        BY <4>1
    <3> QED
      BY <2>2, <2>4, <3>1, <3>2, EmacsParts, ServerParts
  <2> QED
    BY <2>1, <2>3, <2>5, <2>6 DEF TypeOK, Buffers
<1> QED
  BY <1>1, IInvInvariant, PTL

(* Every request made of a process is finished once and in its turn, and    *)
(* only the first one that waits is started, however callbacks make other   *)
(* requests and servers end (irony-iotask--check-result,                    *)
(* irony-iotask--abort-all).                                                *)
THEOREM RequestsFinishInOrder == Spec => []FinishedInOrder
<1>1. IInv => FinishedInOrder
  <2> SUFFICES ASSUME IInv PROVE FinishedInOrder
    OBVIOUS
  <2>1. Types(emacs, server) /\ Ordered(emacs) /\ \A p \in Process : ~Idle(emacs, p)
    BY DEF IInv, Inv
  <2>2. ASSUME NEW p \in Process
        PROVE  LET d == emacs.done[p]
                   q == emacs.queue[p]
               IN  /\ Len(d) \in Nat /\ Len(q) \in Nat /\ DOMAIN d = 1..Len(d) /\ DOMAIN q = 1..Len(q)
                   /\ DOMAIN Made(p) = 1..(Len(d) + Len(q))
                   /\ \A i \in DOMAIN Made(p) : Made(p)[i] = IF i <= Len(d) THEN d[i].id ELSE q[i - Len(d)].id
                   /\ \A i \in DOMAIN d : d[i].id \in DoneIds(emacs, p)
                   /\ \A i \in DOMAIN q : q[i].id \in QueueIds(emacs, p)
    <3> DEFINE d == emacs.done[p]
               q == emacs.queue[p]
               S == EctxSet \cup DoneSet
               all == d \o q
    <3>1. d \in Seq(DoneSet) /\ q \in Seq(EctxSet)
      BY <2>1, EmacsParts DEF Types
    <3>2. \A i \in DOMAIN d : d[i].id \in DoneIds(emacs, p)
      BY DEF DoneIds
    <3>3. \A i \in DOMAIN q : q[i].id \in QueueIds(emacs, p)
      BY DEF QueueIds
    <3>4. Made(p) = [i \in DOMAIN all |-> all[i].id]
      BY DEF Made
    <3> HIDE DEF d, q, all
    <3>5. d \in Seq(S) /\ q \in Seq(S)
      BY <3>1
    <3>6. /\ all \in Seq(S) /\ Len(all) = Len(d) + Len(q)
          /\ \A i \in 1..(Len(d) + Len(q)) : all[i] = IF i <= Len(d) THEN d[i] ELSE q[i - Len(d)]
      <4> HIDE DEF S
      <4> QED
        BY <3>5, ConcatProperties DEF all
    <3>7. DOMAIN all = 1..(Len(d) + Len(q)) /\ Len(d) \in Nat /\ Len(q) \in Nat
          /\ DOMAIN d = 1..Len(d) /\ DOMAIN q = 1..Len(q)
      BY <3>1, <3>6, SeqElement
    <3>8. DOMAIN Made(p) = 1..(Len(d) + Len(q))
      BY <3>4, <3>7
    <3>9. \A i \in DOMAIN Made(p) : Made(p)[i] = IF i <= Len(d) THEN d[i].id ELSE q[i - Len(d)].id
      BY <3>4, <3>6, <3>7
    <3> QED
      BY <3>2, <3>3, <3>7, <3>8, <3>9 DEF d, q
  <2>3. ASSUME NEW r \in 1..emacs.requests
        PROVE  \E p \in Process : \E i \in DOMAIN Made(p) : Made(p)[i] = r
    <3>1. PICK p \in Process : r \in Ids(emacs, p)
      BY <2>1 DEF Ordered
    <3> DEFINE d == emacs.done[p]
               q == emacs.queue[p]
    <3>2. /\ Len(d) \in Nat /\ Len(q) \in Nat /\ DOMAIN d = 1..Len(d) /\ DOMAIN q = 1..Len(q)
          /\ DOMAIN Made(p) = 1..(Len(d) + Len(q))
          /\ \A i \in DOMAIN Made(p) : Made(p)[i] = IF i <= Len(d) THEN d[i].id ELSE q[i - Len(d)].id
      BY <2>2
    <3>3. (\E i \in DOMAIN d : r = d[i].id) \/ (\E i \in DOMAIN q : r = q[i].id)
      BY <3>1 DEF Ids, DoneIds, QueueIds
    <3> HIDE DEF d, q
    <3>4. ASSUME NEW i \in DOMAIN d, r = d[i].id PROVE i \in DOMAIN Made(p) /\ Made(p)[i] = r
      BY <3>2, <3>4
    <3>5. ASSUME NEW i \in DOMAIN q, r = q[i].id PROVE Len(d) + i \in DOMAIN Made(p) /\ Made(p)[Len(d) + i] = r
      <4>1. Len(d) + i \in DOMAIN Made(p) /\ ~(Len(d) + i <= Len(d)) /\ (Len(d) + i) - Len(d) = i
        BY <3>2
      <4> QED
        BY <3>2, <3>5, <4>1
    <3> QED
      BY <3>3, <3>4, <3>5
  <2>4. ASSUME NEW p \in Process, NEW i \in DOMAIN Made(p), NEW j \in DOMAIN Made(p), i < j
        PROVE  Made(p)[i] < Made(p)[j]
    <3> DEFINE d == emacs.done[p]
               q == emacs.queue[p]
               n == Len(d)
    <3>1. /\ n \in Nat /\ Len(q) \in Nat /\ DOMAIN d = 1..n /\ DOMAIN q = 1..Len(q)
          /\ DOMAIN Made(p) = 1..(n + Len(q))
          /\ \A k \in DOMAIN Made(p) : Made(p)[k] = IF k <= n THEN d[k].id ELSE q[k - n].id
          /\ \A k \in DOMAIN d : d[k].id \in DoneIds(emacs, p)
          /\ \A k \in DOMAIN q : q[k].id \in QueueIds(emacs, p)
      BY <2>2
    <3>2. /\ \A k, l \in DOMAIN q : k < l => q[k].id < q[l].id
          /\ \A k, l \in DOMAIN d : k < l => d[k].id < d[l].id
          /\ \A a \in DoneIds(emacs, p), b \in QueueIds(emacs, p) : a < b
      BY <2>1 DEF Ordered
    <3> HIDE DEF d, q, n
    <3>3. i \in 1..(n + Len(q)) /\ j \in 1..(n + Len(q))
      BY <3>1
    <3>4. CASE j <= n
      <4>1. i \in DOMAIN d /\ j \in DOMAIN d /\ i <= n
        BY <2>4, <3>1, <3>3, <3>4
      <4> QED
        BY <2>4, <3>1, <3>2, <3>4, <4>1
    <3>5. CASE i <= n /\ ~(j <= n)
      <4>1. i \in DOMAIN d /\ j - n \in DOMAIN q
        BY <3>1, <3>3, <3>5
      <4> QED
        BY <3>1, <3>2, <3>5, <4>1
    <3>6. CASE ~(i <= n)
      <4>1. i - n \in DOMAIN q /\ j - n \in DOMAIN q /\ i - n < j - n /\ ~(j <= n)
        BY <2>4, <3>1, <3>3, <3>6
      <4> QED
        BY <3>1, <3>2, <3>6, <4>1
    <3> QED
      BY <3>4, <3>5, <3>6
  <2>5. ASSUME NEW p \in Process, NEW i \in DOMAIN emacs.queue[p]
        PROVE  emacs.queue[p][i].started <=> i = 1
    <3>1. emacs.queue[p] # <<>>
      BY <2>1, EmacsParts, SeqElement DEF Types
    <3>2. Head(emacs.queue[p]).started /\ Head(emacs.queue[p]) = emacs.queue[p][1]
      BY <2>1, <3>1, FirstRequest DEF Idle
    <3>3. emacs.queue[p][i].started => i = 1
      BY <2>1 DEF Ordered
    <3> QED
      BY <3>2, <3>3
  <2> QED
    BY <2>3, <2>4, <2>5 DEF FinishedInOrder
<1> QED
  BY <1>1, IInvInvariant, PTL

(* All that a process and Emacs have under way is about the first request   *)
(* of its queue, something is as long as the process runs, and a callback   *)
(* gets the reply to its own request (irony-iotask--start-next,             *)
(* irony-iotask-filter).                                                    *)
THEOREM RequestsStayInStep == Spec => []InStep
<1>1. IInv => InStep
  <2> SUFFICES ASSUME IInv, ~emacs.mixed PROVE InStep
    BY DEF InStep
  <2>1. /\ Types(emacs, server) /\ Processes(emacs, server)
        /\ Flow(emacs, server, {}) /\ Answered(emacs, server) /\ \A p \in Process : ~Idle(emacs, p)
    BY DEF IInv, Inv
  <2> SUFFICES
        ASSUME NEW p \in Process
        PROVE  LET queue == emacs.queue[p]
                   pipe == emacs.pipe[p]
                   out == server[p].out
                   read == IF p = emacs.made /\ queue # <<>> THEN emacs.output ELSE <<>>
               IN  /\ \A i \in DOMAIN emacs.done[p] : emacs.done[p][i].kind = "value" => emacs.done[p][i].own
                   /\ server[p].alive =>
                        /\ (queue = <<>>) <=> (pipe = <<>> /\ out = <<>> /\ read = <<>>)
                        /\ \A i \in DOMAIN pipe : pipe[i].of = queue[1].id
                        /\ \A i \in DOMAIN out : out[i].reply.of = queue[1].id
                        /\ Len(pipe) + (IF out # <<>> \/ read # <<>> THEN 1 ELSE 0) <= 1
    BY DEF InStep
  <2> DEFINE queue == emacs.queue[p]
             pipe == emacs.pipe[p]
             out == server[p].out
             read == IF p = emacs.made /\ queue # <<>> THEN emacs.output ELSE <<>>
             steps == /\ (queue = <<>>) <=> (pipe = <<>> /\ out = <<>> /\ read = <<>>)
                      /\ \A i \in DOMAIN pipe : pipe[i].of = queue[1].id
                      /\ \A i \in DOMAIN out : out[i].reply.of = queue[1].id
                      /\ Len(pipe) + (IF out # <<>> \/ read # <<>> THEN 1 ELSE 0) <= 1
  <2>2. \A i \in DOMAIN emacs.done[p] : emacs.done[p][i].kind = "value" => emacs.done[p][i].own
    BY <2>1 DEF Answered
  <2>3. ASSUME server[p].alive, queue = <<>>, pipe = <<>>, out = <<>> PROVE steps
    BY <2>3
  <2>4. ASSUME server[p].alive PROVE steps
    <3>1. p \in Nat /\ emacs.made \in Nat /\ p # 0
      BY <2>1, EmacsParts, NatBounds DEF Types, Process
    <3>2. CASE p > emacs.made
      BY <2>1, <2>3, <2>4, <3>2 DEF Processes
    <3>3. CASE ~(p > emacs.made)
      <4>1. p <= emacs.made
        BY <3>1, <3>3
      <4>2. p = emacs.made
        BY <2>1, <2>4, <3>1, <4>1 DEF Processes
      <4>3. /\ Quiet(emacs, p, {}) => pipe = <<>> /\ out = <<>> /\ server[p].busy = Nothing
            /\ ~Quiet(emacs, p, {}) => Sent(emacs, server, p) \/ Answering(emacs, server, p) \/ Cut(emacs, server, p)
        BY <2>1, <3>1, <4>2 DEF Flow
      <4>4. CASE queue = <<>>
        BY <2>3, <2>4, <4>3, <4>4 DEF Quiet
      <4>5. CASE queue # <<>>
        <5>1. ~Quiet(emacs, p, {})
          BY <2>1, <4>5 DEF Quiet, Idle
        <5>2. Head(queue) = queue[1]
          BY <2>1, <4>5, FirstRequest
        <5>3. read = emacs.output
          BY <4>2, <4>5
        <5>4. CASE Sent(emacs, server, p)
          <6>1. PICK c \in CommandSet : pipe = <<c>> /\ c.of = Head(queue).id
            BY <5>4 DEF Sent
          <6>2. out = <<>> /\ read = <<>>
            BY <5>3, <5>4 DEF Sent
          <6>3. DOMAIN pipe = {1} /\ pipe[1] = c /\ Len(pipe) = 1 /\ pipe # <<>>
            BY <6>1
          <6> HIDE DEF queue, pipe, out, read
          <6> QED
            BY <4>5, <5>2, <6>1, <6>2, <6>3
        <5>5. CASE Answering(emacs, server, p)
          <6>1. PICK reply \in Reply :
                 /\ reply.of = Head(emacs.queue[p]).id
                 /\ LET first == [reply |-> reply, last |-> FALSE]
                        last == [reply |-> reply, last |-> TRUE]
                    IN  \/ /\ server[p].busy = reply \/ (server[p].busy = Nothing /\ ~server[p].alive)
                           /\ \/ emacs.output = <<>> /\ server[p].out = <<first>>
                              \/ emacs.output = <<first>> /\ server[p].out = <<>>
                        \/ /\ server[p].busy = Nothing
                           /\ \/ emacs.output = <<>> /\ server[p].out = <<first, last>>
                              \/ emacs.output = <<first>> /\ server[p].out = <<last>>
            BY <5>5 DEF Answering
          <6> DEFINE first == [reply |-> reply, last |-> FALSE]
                     last == [reply |-> reply, last |-> TRUE]
          <6>2. first.reply = reply /\ last.reply = reply
            OBVIOUS
          <6> HIDE DEF first, last
          <6>3. \/ out = <<first>>
                \/ read = <<first>> /\ out = <<>>
                \/ out = <<first, last>>
                \/ out = <<last>>
            BY <5>3, <6>1 DEF first, last
          <6>4. out # <<>> \/ read # <<>>
            BY <6>3
          <6>5. \A i \in DOMAIN out : out[i].reply.of = reply.of
            BY <6>2, <6>3
          <6>6. pipe = <<>> /\ Len(pipe) = 0 /\ DOMAIN pipe = {}
            BY <5>5 DEF Answering
          <6>7. reply.of = queue[1].id
            BY <5>2, <6>1
          <6> HIDE DEF queue, pipe, out, read
          <6> QED
            BY <4>5, <6>4, <6>5, <6>6, <6>7
        <5>6. ~Cut(emacs, server, p)
          BY <2>4 DEF Cut
        <5> QED
          BY <4>3, <5>1, <5>4, <5>5, <5>6
      <4> QED
        BY <4>4, <4>5
    <3> QED
      BY <3>2, <3>3
  <2> QED
    BY <2>2, <2>4
<1> QED
  BY <1>1, IInvInvariant, PTL

(* A request is answered about the text there was when it was made, or a    *)
(* later one, except as Want and .unread say: what irony-mode has on record *)
(* as told is what the server has (irony--buffer-state-compare,             *)
(* irony--get-buffer-change-alist).                                         *)
THEOREM AnswersAreFresh == Spec => []FreshAnswers
<1>1. IInv => FreshAnswers
  BY DEF IInv, Inv, Answered, FreshAnswers
<1> QED
  BY <1>1, IInvInvariant, PTL

(* A temporary file is there while its set-unsaved runs, and otherwise only *)
(* when the process ended under it (the :finish of irony--t-set-unsaved).   *)
THEOREM TempFilesGo == Spec => []TempFilesDeleted
<1>1. IInv => TempFilesDeleted
  BY DEF IInv, Inv, TempFiles, TempFilesDeleted
<1> QED
  BY <1>1, IInvInvariant, PTL
=============================================================================
