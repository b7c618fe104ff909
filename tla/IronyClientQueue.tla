-------------------------- MODULE IronyClientQueue --------------------------
(***************************************************************************)
(* What holds of the queue of irony-iotask.el while requests, callbacks,   *)
(* servers and the buffer go on, for any number of each. Invariants take   *)
(* Emacs' state and that of the servers as arguments, so that they can be  *)
(* stated of what is reached before a function of the queue returns.       *)
(***************************************************************************)
EXTENDS IronyClient, InductionLemmas, FiniteSetTheorems, SequenceTheorems, TLAPS

----------------------------------------------------------------------------
(* The inductive invariant.                                                 *)

Kind == {"set-unsaved", "reset-unsaved", "parse"}
TaskSet == [kind : Kind, state : BufferState]
EctxSet == [id : Request, tasks : Seq(TaskSet), started : BOOLEAN, want : [tick : Tick, untold : BOOLEAN]]
DoneSet == [id : Request, kind : {"value", "error", "aborted"}, own : BOOLEAN, fresh : BOOLEAN, called : BOOLEAN]
PartSet == [reply : Reply, last : BOOLEAN]
CommandSet == [kind : Kind, of : Request, tick : Tick]
EmacsSet == [process : 0..MaxProcess, made : 0..MaxProcess, queue : [Process -> Seq(EctxSet)],
             unsaved : [Process -> BufferState \cup {NoState}], output : Seq(PartSet), mark : [Process -> Nat],
             temp : SUBSET Request, gone : SUBSET Request, pipe : [Process -> Seq(CommandSet)],
             requests : 0..MaxRequest, done : [Process -> Seq(DoneSet)], mixed : BOOLEAN]
ServerSet == [Process -> [alive : BOOLEAN, noticed : BOOLEAN, closed : BOOLEAN, text : Tick,
                          busy : Reply \cup {Nothing}, out : Seq(PartSet), unread : BOOLEAN]]
CallSet == [by : {"schedule", "continuation", "start-next-safe", "abort-all"}, process : Process]

(* A request ends with its parse. Before it comes at most one task, with    *)
(* the state the buffer had when the request was made.                      *)
Shaped(e) ==
  /\ e.tasks # <<>> /\ e.tasks[1].state.tick = e.want.tick
  /\ \/ Len(e.tasks) = 1 /\ e.tasks[1].kind = "parse"
     \/ /\ Len(e.tasks) = 2 /\ e.tasks[2].kind = "parse" /\ e.tasks[2].state = e.tasks[1].state
        /\ \/ e.tasks[1].kind = "set-unsaved" /\ e.tasks[1].state.modified
           \/ e.tasks[1].kind = "reset-unsaved" /\ ~e.tasks[1].state.modified

Types(s, srv) ==
  /\ s \in EmacsSet /\ srv \in ServerSet
  /\ \A p \in Process : s.mark[p] <= Len(s.output)
  /\ \A p \in Process : \A i \in DOMAIN s.queue[p] : Shaped(s.queue[p][i])

(* The numbers of the requests a process has and had.                       *)
QueueIds(s, p) == {s.queue[p][i].id : i \in DOMAIN s.queue[p]}
DoneIds(s, p) == {s.done[p][i].id : i \in DOMAIN s.done[p]}
Ids(s, p) == DoneIds(s, p) \cup QueueIds(s, p)

Ordered(s) ==
  /\ \A p \in Process : \A i, j \in DOMAIN s.queue[p] : i < j => s.queue[p][i].id < s.queue[p][j].id
  /\ \A p \in Process : \A i, j \in DOMAIN s.done[p] : i < j => s.done[p][i].id < s.done[p][j].id
  /\ \A p \in Process : \A a \in DoneIds(s, p), b \in QueueIds(s, p) : a < b
  /\ \A p \in Process : \A a \in Ids(s, p) : a <= s.requests
  /\ \A p, q \in Process : p # q => Ids(s, p) \cap Ids(s, q) = {}
  /\ \A r \in 1..s.requests : \E p \in Process : r \in Ids(s, p)
  /\ \A p \in Process : \A i \in DOMAIN s.queue[p] : s.queue[p][i].started => i = 1

(* A process has requests that wait and none is started.                    *)
Idle(s, p) == s.queue[p] # <<>> /\ ~Head(s.queue[p]).started

(* Only the last process made runs, and those not made yet are as new.      *)
Processes(s, srv) ==
  /\ s.process \in {0, s.made}
  /\ \A p \in Process : p <= s.made /\ srv[p].alive => p = s.process
  /\ \A p \in Process : srv[p].noticed => ~srv[p].alive
  /\ \A p \in Process : ~srv[p].alive => s.pipe[p] = <<>> /\ srv[p].busy = Nothing
  /\ \A p \in Process : p > s.made =>
       /\ s.queue[p] = <<>> /\ s.pipe[p] = <<>> /\ s.done[p] = <<>> /\ s.unsaved[p] = NoState
       /\ srv[p].out = <<>> /\ srv[p].text = 0 /\ srv[p].busy = Nothing

TempFiles(s) ==
  \A r \in s.temp : \E p \in Process :
    \/ s.queue[p] # <<>> /\ Head(s.queue[p]).id = r /\ Task(s, p).kind = "set-unsaved"
    \/ \E i \in DOMAIN s.done[p] : s.done[p][i].id = r /\ s.done[p][i].kind = "aborted"

(* Nothing is under way for the first request of a process. X is the        *)
(* process, if any, whose task got its result or is about to be started.    *)
Quiet(s, p, X) == s.queue[p] = <<>> \/ ~Head(s.queue[p]).started \/ p \in X

(* A result is the one of the first request of its process. The server      *)
(* refuses a text only when it could not read it.                           *)
Right(s, srv, p, reply) ==
  /\ reply.ok /\ Task(s, p).kind = "parse" =>
       reply.of = Head(s.queue[p]).id /\ (Fresh(Head(s.queue[p]).want, reply) \/ srv[p].unread)
  /\ ~reply.ok /\ Task(s, p).kind = "set-unsaved" => srv[p].unread \/ ~srv[p].alive

(* The command was sent and not read.                                       *)
Sent(s, srv, m) ==
  /\ srv[m].out = <<>> /\ s.output = <<>> /\ srv[m].busy = Nothing
  /\ \E c \in CommandSet :
       /\ s.pipe[m] = <<c>> /\ c.of = Head(s.queue[m]).id /\ c.kind = Task(s, m).kind
       /\ c.tick >= Task(s, m).state.tick

(* Parts of the reply were written, and some of those read.                 *)
Answering(s, srv, m) ==
  /\ s.pipe[m] = <<>>
  /\ \E reply \in Reply :
       /\ reply.of = Head(s.queue[m]).id /\ Right(s, srv, m, reply)
       /\ LET first == [reply |-> reply, last |-> FALSE]
              last == [reply |-> reply, last |-> TRUE]
          IN  \/ /\ srv[m].busy = reply \/ (srv[m].busy = Nothing /\ ~srv[m].alive)
                 /\ \/ s.output = <<>> /\ srv[m].out = <<first>>
                    \/ s.output = <<first>> /\ srv[m].out = <<>>
              \/ /\ srv[m].busy = Nothing
                 /\ \/ s.output = <<>> /\ srv[m].out = <<first, last>>
                    \/ s.output = <<first>> /\ srv[m].out = <<last>>

(* The process ended before it answered.                                    *)
Cut(s, srv, m) == ~srv[m].alive /\ s.pipe[m] = <<>> /\ srv[m].out = <<>>

Flow(s, srv, X) ==
  LET m == s.made
  IN  m # 0 =>
      /\ s.mark[m] = Len(s.output)
      /\ Quiet(s, m, X) => s.pipe[m] = <<>> /\ srv[m].out = <<>> /\ srv[m].busy = Nothing
      /\ ~Quiet(s, m, X) => Sent(s, srv, m) \/ Answering(s, srv, m) \/ Cut(s, srv, m)

(* The buffer never returns to an earlier state.                            *)
Rank(state) == 2 * state.tick + (IF state.modified THEN 0 ELSE 1)

Ranked(s, m, b) ==
  /\ s.unsaved[m] # NoState =>
       /\ s.unsaved[m].modified /\ Rank(s.unsaved[m]) <= Rank(b)
       /\ \A i \in DOMAIN s.queue[m] : Rank(s.unsaved[m]) <= Rank(s.queue[m][i].tasks[1].state)
  /\ \A i \in DOMAIN s.queue[m] : Rank(s.queue[m][i].tasks[1].state) <= Rank(b)
  /\ \A i, j \in DOMAIN s.queue[m] : i < j =>
       Rank(s.queue[m][i].tasks[1].state) <= Rank(s.queue[m][j].tasks[1].state)

(* The parse of the i-th request will see a text that is not older.         *)
Promised(s, m, i, d) ==
  LET e == s.queue[m][i]
      ahead(kind) == {j \in 1..(i - 1) : s.queue[m][j].tasks[1].kind = kind}
  IN  \/ e.want.untold
      \/ e.tasks[1].kind = "set-unsaved"
      \/ e.tasks[1].kind = "reset-unsaved" /\ e.want.tick <= d
      \/ /\ e.tasks[1].kind = "parse" /\ e.want.tick <= d
         /\ s.unsaved[m] = NoState /\ ahead("set-unsaved") = {}
      \/ /\ e.tasks[1].kind = "parse" /\ s.unsaved[m] # NoState /\ s.unsaved[m].tick >= e.want.tick
         /\ ahead("reset-unsaved") = {}
         /\ \A j \in ahead("set-unsaved") : s.queue[m][j].tasks[1].state.tick >= e.want.tick

(* What the server has of the buffer is what is on record, but for the task *)
(* that is under way.                                                       *)
OnRecord(s, srv, m) ==
  LET doing(kind) == s.queue[m] # <<>> /\ Task(s, m).kind = kind
      made(kind) == doing(kind) /\ Head(s.queue[m]).started /\ s.pipe[m] = <<>>
  IN  srv[m].alive /\ ~srv[m].unread =>
      /\ srv[m].text # 0 => s.unsaved[m] # NoState \/ doing("set-unsaved")
      /\ s.unsaved[m] # NoState => srv[m].text >= s.unsaved[m].tick \/ doing("reset-unsaved")
      /\ made("set-unsaved") => srv[m].text >= Task(s, m).state.tick
      /\ made("reset-unsaved") => srv[m].text = 0

Told(s, srv, b, d) ==
  LET m == s.made
  IN  m # 0 =>
      /\ Ranked(s, m, b) /\ OnRecord(s, srv, m)
      /\ srv[m].unread \/ \A i \in DOMAIN s.queue[m] : Promised(s, m, i, d)

Answered(s, srv) ==
  \A p \in Process : \A i \in DOMAIN s.done[p] :
    s.done[p][i].kind = "value" => s.done[p][i].own /\ (s.done[p][i].fresh \/ srv[p].unread)

Buffers(b, d) == /\ b \in BufferState /\ d \in Tick
                 /\ d <= b.tick /\ (~b.modified => d = b.tick)

Inv(s, srv, b, d, X) ==
  /\ Types(s, srv) /\ Ordered(s) /\ Processes(s, srv) /\ TempFiles(s) /\ Buffers(b, d)
  /\ ~s.mixed => Flow(s, srv, X) /\ Told(s, srv, b, d) /\ Answered(s, srv)

IInv == Inv(emacs, server, buffer, disk, {}) /\ \A p \in Process : ~Idle(emacs, p)

----------------------------------------------------------------------------
(* Sequences.                                                               *)

LEMMA HeadAndTail ==
  ASSUME NEW S, NEW q \in Seq(S), q # <<>>
  PROVE  /\ Head(q) = q[1] /\ 1 \in DOMAIN q /\ Head(q) \in S /\ Len(q) \in Nat /\ Len(q) >= 1
         /\ Tail(q) \in Seq(S) /\ Len(Tail(q)) = Len(q) - 1
         /\ \A i \in DOMAIN Tail(q) : i \in Nat /\ i >= 1 /\ i + 1 \in DOMAIN q /\ Tail(q)[i] = q[i + 1]
OBVIOUS

LEMMA Appended ==
  ASSUME NEW S, NEW q \in Seq(S), NEW x \in S
  PROVE  /\ Append(q, x) \in Seq(S) /\ Append(q, x) # <<>>
         /\ Len(Append(q, x)) = Len(q) + 1 /\ Append(q, x)[Len(q) + 1] = x
         /\ Len(q) + 1 \in DOMAIN Append(q, x)
         /\ \A i \in DOMAIN q : i \in DOMAIN Append(q, x) /\ Append(q, x)[i] = q[i]
         /\ \A i \in DOMAIN Append(q, x) : i \in DOMAIN q \/ i = Len(q) + 1
OBVIOUS

LEMMA AppendedHead ==
  ASSUME NEW S, NEW q \in Seq(S), NEW x \in S
  PROVE  Head(Append(q, x)) = IF q = <<>> THEN x ELSE Head(q)
OBVIOUS

LEMMA HeadReplaced ==
  ASSUME NEW S, NEW q \in Seq(S), q # <<>>, NEW x \in S
  PROVE  /\ <<x>> \o Tail(q) \in Seq(S) /\ <<x>> \o Tail(q) # <<>>
         /\ Len(<<x>> \o Tail(q)) = Len(q) /\ DOMAIN (<<x>> \o Tail(q)) = DOMAIN q
         /\ Head(<<x>> \o Tail(q)) = x /\ (<<x>> \o Tail(q))[1] = x
         /\ \A i \in DOMAIN q : i # 1 => (<<x>> \o Tail(q))[i] = q[i]
OBVIOUS

LEMMA SeqElement ==
  ASSUME NEW S, NEW q \in Seq(S)
  PROVE  /\ \A i \in DOMAIN q : q[i] \in S /\ i \in Nat /\ i >= 1
         /\ q = <<>> <=> DOMAIN q = {}
         /\ 1 \in DOMAIN q <=> q # <<>>
         /\ DOMAIN q = 1..Len(q) /\ Len(q) \in Nat
OBVIOUS

LEMMA NotEmpty ==
  ASSUME NEW S, NEW q \in Seq(S), Len(q) >= 1
  PROVE  q # <<>>
OBVIOUS

----------------------------------------------------------------------------
(* The parts of Emacs' state.                                               *)

LEMMA EmacsParts ==
  ASSUME NEW s \in EmacsSet, NEW p \in Process
  PROVE  /\ s.process \in 0..MaxProcess /\ s.made \in 0..MaxProcess
         /\ s.queue \in [Process -> Seq(EctxSet)] /\ s.queue[p] \in Seq(EctxSet)
         /\ s.unsaved \in [Process -> BufferState \cup {NoState}] /\ s.unsaved[p] \in BufferState \cup {NoState}
         /\ s.output \in Seq(PartSet) /\ Len(s.output) \in Nat
         /\ s.mark \in [Process -> Nat] /\ s.mark[p] \in Nat
         /\ s.temp \in SUBSET Request /\ s.gone \in SUBSET Request
         /\ s.pipe \in [Process -> Seq(CommandSet)] /\ s.pipe[p] \in Seq(CommandSet)
         /\ s.requests \in 0..MaxRequest
         /\ s.done \in [Process -> Seq(DoneSet)] /\ s.done[p] \in Seq(DoneSet)
         /\ s.mixed \in BOOLEAN
BY DEF EmacsSet

LEMMA ServerParts ==
  ASSUME NEW srv \in ServerSet, NEW p \in Process
  PROVE  /\ srv[p].alive \in BOOLEAN /\ srv[p].noticed \in BOOLEAN /\ srv[p].closed \in BOOLEAN
         /\ srv[p].text \in Tick /\ srv[p].busy \in Reply \cup {Nothing}
         /\ srv[p].out \in Seq(PartSet) /\ srv[p].unread \in BOOLEAN
<1>1. srv[p] \in [alive : BOOLEAN, noticed : BOOLEAN, closed : BOOLEAN, text : Tick,
                  busy : Reply \cup {Nothing}, out : Seq(PartSet), unread : BOOLEAN]
  BY DEF ServerSet
<1> QED
  BY <1>1

(* The first request of a process.                                          *)
LEMMA FirstRequest ==
  ASSUME NEW s, NEW srv, Types(s, srv), NEW p \in Process, s.queue[p] # <<>>
  PROVE  LET h == Head(s.queue[p])
         IN  /\ h \in EctxSet /\ h = s.queue[p][1] /\ 1 \in DOMAIN s.queue[p]
             /\ h.id \in Request /\ h.started \in BOOLEAN /\ h.tasks \in Seq(TaskSet) /\ h.tasks # <<>>
             /\ h.want.tick \in Tick /\ h.want.untold \in BOOLEAN /\ Shaped(h)
             /\ Task(s, p) = h.tasks[1] /\ Task(s, p) \in TaskSet
             /\ Task(s, p).kind \in Kind /\ Task(s, p).state \in BufferState
             /\ Task(s, p).state.tick \in Nat /\ Task(s, p).state.tick >= 1
             /\ Task(s, p).state.modified \in BOOLEAN
             /\ h.id \in QueueIds(s, p)
<1> DEFINE h == Head(s.queue[p])
<1>1. s.queue[p] \in Seq(EctxSet)
  BY EmacsParts DEF Types
<1>2. h \in EctxSet /\ h = s.queue[p][1] /\ 1 \in DOMAIN s.queue[p]
  BY <1>1, HeadAndTail
<1>3. Shaped(h)
  BY <1>2 DEF Types
<1>4. h.id \in Request /\ h.started \in BOOLEAN /\ h.tasks \in Seq(TaskSet)
      /\ h.want \in [tick : Tick, untold : BOOLEAN]
  BY <1>2 DEF EctxSet
<1>5. h.tasks # <<>>
  BY <1>3 DEF Shaped
<1>6. Task(s, p) = h.tasks[1] /\ Task(s, p) \in TaskSet
  BY <1>4, <1>5, HeadAndTail DEF Task
<1>7. Task(s, p).kind \in Kind /\ Task(s, p).state \in BufferState
  BY <1>6 DEF TaskSet
<1>8. Task(s, p).state.tick \in Nat /\ Task(s, p).state.tick >= 1 /\ Task(s, p).state.modified \in BOOLEAN
  BY <1>7, ClientAssumption DEF BufferState
<1>9. h.id \in QueueIds(s, p)
  BY <1>2 DEF QueueIds
<1> QED
  BY <1>2, <1>3, <1>4, <1>5, <1>6, <1>7, <1>8, <1>9

LEMMA NatBounds == MaxRequest \in Nat /\ MaxProcess \in Nat /\ MaxTick \in Nat /\ MaxTick >= 1
BY ClientAssumption

(* What Emacs may ask of the servers does not change while it runs.         *)
Agree(srv) == \A p \in Process : srv[p].alive = server[p].alive /\ srv[p].noticed = server[p].noticed

----------------------------------------------------------------------------
(* A request is made.                                                       *)

Asked(s) == Queued(GetProcess(s))

LEMMA GotProcess ==
  ASSUME NEW s, NEW srv, Types(s, srv), Processes(s, srv), Agree(srv), MayAsk(s)
  PROVE  LET t == GetProcess(s)
         IN  /\ t \in EmacsSet /\ t.process \in Process /\ t.made = t.process
             /\ \/ /\ t.made = s.made /\ t.mark = s.mark
                \/ /\ t.made = s.made + 1 /\ t.mark = [s.mark EXCEPT ![t.made] = Len(s.output)]
                   /\ s.made # 0 => ~srv[s.made].alive
             /\ t.queue = s.queue /\ t.unsaved = s.unsaved /\ t.output = s.output /\ t.temp = s.temp
             /\ t.gone = s.gone /\ t.pipe = s.pipe /\ t.requests = s.requests /\ t.done = s.done
             /\ t.mixed = s.mixed
<1>1. s \in EmacsSet /\ srv \in ServerSet
  BY DEF Types
<1>2. s.process \in {0, s.made} /\ s.made \in 0..MaxProcess /\ s.mark \in [Process -> Nat] /\ Len(s.output) \in Nat
      /\ s.requests < MaxRequest
  BY <1>1 DEF EmacsSet, Processes, MayAsk
<1>3. CASE HasProcess(s)
  <2>1. GetProcess(s) = s
    BY <1>3 DEF GetProcess
  <2>2. s.process # 0
    BY <1>3 DEF HasProcess, NoProcess
  <2>3. s.process = s.made /\ s.process \in Process
    BY <2>2, <1>2, NatBounds DEF Process
  <2> QED
    BY <2>1, <2>3, <1>1
<1>4. CASE ~HasProcess(s)
  <2> DEFINE q == s.made + 1
             t == [s EXCEPT !.process = q, !.made = q, !.mark = [@ EXCEPT ![q] = Len(s.output)]]
  <2>1. GetProcess(s) = t
    BY <1>4 DEF GetProcess
  <2>2. q \in Process /\ q \in 0..MaxProcess
    BY <1>2, <1>4, NatBounds DEF MayAsk, Process
  <2>3. [s.mark EXCEPT ![q] = Len(s.output)] \in [Process -> Nat]
    BY <1>2
  <2>4. t \in EmacsSet
    BY <1>1, <2>2, <2>3 DEF EmacsSet
  <2>5. t.process = q /\ t.made = q /\ t.mark = [s.mark EXCEPT ![q] = Len(s.output)]
        /\ t.queue = s.queue /\ t.unsaved = s.unsaved /\ t.output = s.output /\ t.temp = s.temp
        /\ t.gone = s.gone /\ t.pipe = s.pipe /\ t.requests = s.requests /\ t.done = s.done
        /\ t.mixed = s.mixed
    BY <1>1 DEF EmacsSet
  <2>6. s.made # 0 => ~srv[s.made].alive
    <3>1. SUFFICES ASSUME s.made # 0, srv[s.made].alive PROVE FALSE
      OBVIOUS
    <3>2. s.made \in Process
      BY <1>2, <3>1, NatBounds DEF Process
    <3>3. s.made = s.process
      BY <1>2, <3>1, <3>2 DEF Processes
    <3>4. server[s.process].noticed
      BY <1>4, <3>1, <3>3 DEF HasProcess, NoProcess
    <3>5. srv[s.made].noticed
      BY <3>2, <3>3, <3>4 DEF Agree
    <3> QED
      BY <3>1, <3>2, <3>5 DEF Processes
  <2> HIDE DEF t
  <2> QED
    BY <2>1, <2>2, <2>4, <2>5, <2>6
<1> QED
  BY <1>3, <1>4

LEMMA AppendPair ==
  ASSUME NEW S, NEW a \in S, NEW b \in S
  PROVE  Append(<<a>>, b) = <<a, b>>
<1> DEFINE pair == Append(<<a>>, b)
<1>1. <<a>> \in Seq(S) /\ <<a, b>> \in Seq(S) /\ pair \in Seq(S)
  OBVIOUS
<1>2. Len(pair) = 2 /\ Len(<<a, b>>) = 2
  OBVIOUS
<1>3. \A i \in 1..2 : pair[i] = <<a, b>>[i]
  <2>1. pair[1] = a /\ pair[2] = b
    OBVIOUS
  <2>2. \A i \in 1..2 : i = 1 \/ i = 2
    OBVIOUS
  <2> QED
    BY <2>1, <2>2
<1> HIDE DEF pair
<1> QED
  <2>1. pair = <<a, b>>
    BY <1>1, <1>2, <1>3, SeqEqual
  <2> QED
    BY <2>1 DEF pair

(* The tasks of a new request are about the buffer as it is.                *)
LEMMA ParseTaskShape ==
  ASSUME NEW old \in BufferState \cup {NoState}, buffer \in BufferState
  PROVE  LET tasks == ParseTask(old)
             change == BufferStateCompare(old, buffer)
         IN  /\ tasks \in Seq(TaskSet) /\ tasks # <<>> /\ tasks[1].state = buffer
             /\ \/ /\ change = "noop" /\ Len(tasks) = 1 /\ tasks[1].kind = "parse"
                \/ /\ change = "set-unsaved" /\ buffer.modified
                   /\ Len(tasks) = 2 /\ tasks[1].kind = change
                   /\ tasks[2].kind = "parse" /\ tasks[2].state = buffer
                \/ /\ change = "reset-unsaved" /\ ~buffer.modified
                   /\ Len(tasks) = 2 /\ tasks[1].kind = change
                   /\ tasks[2].kind = "parse" /\ tasks[2].state = buffer
<1> DEFINE change == BufferStateCompare(old, buffer)
           first == [kind |-> change, state |-> buffer]
           parse == [kind |-> "parse", state |-> buffer]
<1>1. parse \in TaskSet
  BY DEF TaskSet, Kind
<1>2. CASE change = "noop"
  <2>1. ParseTask(old) = <<parse>>
    BY <1>2 DEF ParseTask
  <2> QED
    BY <1>1, <1>2, <2>1
<1>3. CASE change # "noop"
  <2>1. \/ change = "set-unsaved" /\ buffer.modified
        \/ change = "reset-unsaved" /\ ~buffer.modified
    BY <1>3 DEF BufferStateCompare
  <2>2. first \in TaskSet
    BY <2>1 DEF TaskSet, Kind
  <2>3. ParseTask(old) = <<first, parse>>
    <3>1. ParseTask(old) = Append(<<first>>, parse)
      BY <1>3 DEF ParseTask
    <3> QED
      BY <1>1, <2>2, <3>1, AppendPair
  <2>4. <<first, parse>> \in Seq(TaskSet) /\ Len(<<first, parse>>) = 2
        /\ <<first, parse>>[1] = first /\ <<first, parse>>[2] = parse
    BY <1>1, <2>2
  <2>5. first.kind = change /\ first.state = buffer /\ parse.kind = "parse" /\ parse.state = buffer
    OBVIOUS
  <2> HIDE DEF first, parse, change
  <2> QED
    BY <2>1, <2>3, <2>4, <2>5 DEF change
<1> QED
  BY <1>2, <1>3

(* Request e is added to the queue of q, the last process made.             *)
IsAsked(s, srv, t, q, e) ==
  /\ t \in EmacsSet /\ q \in Process /\ e \in EctxSet
  /\ t.process = q /\ t.made = q
  /\ \/ /\ q = s.made /\ t.mark = s.mark
     \/ /\ q = s.made + 1 /\ t.mark = [s.mark EXCEPT ![q] = Len(s.output)]
        /\ s.made # 0 => ~srv[s.made].alive
  /\ t.queue = [s.queue EXCEPT ![q] = Append(@, e)]
  /\ e.id = s.requests + 1 /\ ~e.started /\ Shaped(e)
  /\ e.tasks = ParseTask(s.unsaved[q]) /\ e.want = Want(s, q)
  /\ t.requests = s.requests + 1 /\ t.requests \in Request
  /\ t.unsaved = s.unsaved /\ t.output = s.output /\ t.temp = s.temp
  /\ t.gone = s.gone /\ t.pipe = s.pipe /\ t.done = s.done /\ t.mixed = s.mixed

LEMMA NewRequest ==
  ASSUME NEW s, NEW srv, Types(s, srv), Processes(s, srv), Agree(srv), MayAsk(s), buffer \in BufferState
  PROVE  \E q, e : IsAsked(s, srv, Asked(s), q, e)
<1> DEFINE g == GetProcess(s)
           q == g.process
           e == [id |-> g.requests + 1, tasks |-> ParseTask(g.unsaved[q]), started |-> FALSE, want |-> Want(g, q)]
           t == [g EXCEPT !.queue[q] = Append(@, e), !.requests = @ + 1]
<1>1. /\ g \in EmacsSet /\ q \in Process /\ g.made = q
      /\ \/ /\ q = s.made /\ g.mark = s.mark
         \/ /\ q = s.made + 1 /\ g.mark = [s.mark EXCEPT ![q] = Len(s.output)]
            /\ s.made # 0 => ~srv[s.made].alive
      /\ g.queue = s.queue /\ g.unsaved = s.unsaved /\ g.output = s.output /\ g.temp = s.temp
      /\ g.gone = s.gone /\ g.pipe = s.pipe /\ g.requests = s.requests /\ g.done = s.done
      /\ g.mixed = s.mixed
  BY GotProcess, ZenonT(60)
<1>2. s.requests < MaxRequest /\ s.requests \in 0..MaxRequest /\ s.queue \in [Process -> Seq(EctxSet)]
      /\ s.unsaved[q] \in BufferState \cup {NoState} /\ g.queue[q] \in Seq(EctxSet)
  BY <1>1, EmacsParts DEF Types, MayAsk
<1>3. Want(g, q) = Want(s, q)
  BY <1>1 DEF Want
<1>4. Want(s, q) \in [tick : Tick, untold : BOOLEAN] /\ Want(s, q).tick = buffer.tick
  BY NatBounds DEF Want, BufferState, Tick
<1>5. e.id = s.requests + 1 /\ e.started = FALSE /\ e.tasks = ParseTask(s.unsaved[q]) /\ e.want = Want(s, q)
  BY <1>1, <1>3
<1>6. e \in EctxSet /\ Shaped(e)
  <2>1. e.id \in Request
    BY <1>2, <1>5, NatBounds DEF Request
  <2>2. ParseTask(s.unsaved[q]) \in Seq(TaskSet)
    BY <1>2, ParseTaskShape
  <2>3. e \in EctxSet
    BY <2>1, <2>2, <1>1, <1>3, <1>4 DEF EctxSet
  <2> HIDE DEF e
  <2>4. Shaped(e)
    BY <1>2, <1>4, <1>5, ParseTaskShape DEF Shaped
  <2> QED
    BY <2>3, <2>4
<1>7. Asked(s) = t
  BY DEF Asked, Queued, Enqueue
<1> HIDE DEF e, g
<1>8. /\ t \in EmacsSet
      /\ t.queue = [s.queue EXCEPT ![q] = Append(@, e)] /\ t.requests = s.requests + 1
      /\ t.process = q /\ t.made = q /\ t.mark = g.mark
      /\ t.unsaved = s.unsaved /\ t.output = s.output /\ t.temp = s.temp
      /\ t.gone = s.gone /\ t.pipe = s.pipe /\ t.done = s.done /\ t.mixed = s.mixed
  <2>1. Append(g.queue[q], e) \in Seq(EctxSet)
    BY <1>2, <1>6
  <2>2. [g.queue EXCEPT ![q] = Append(@, e)] \in [Process -> Seq(EctxSet)]
    BY <1>1, <1>2, <2>1
  <2>3. g.requests + 1 \in 0..MaxRequest
    BY <1>1, <1>2, NatBounds
  <2>4. t \in EmacsSet
    BY <1>1, <2>2, <2>3 DEF EmacsSet
  <2>5. /\ t.queue = [g.queue EXCEPT ![q] = Append(@, e)] /\ t.requests = g.requests + 1
        /\ t.process = g.process /\ t.made = g.made /\ t.mark = g.mark
        /\ t.unsaved = g.unsaved /\ t.output = g.output /\ t.temp = g.temp
        /\ t.gone = g.gone /\ t.pipe = g.pipe /\ t.done = g.done /\ t.mixed = g.mixed
    BY <1>1 DEF EmacsSet
  <2> HIDE DEF t
  <2> QED
    BY <1>1, <2>4, <2>5
<1>9. s.requests + 1 \in Request
  BY <1>2, NatBounds DEF Request
<1> HIDE DEF t
<1>10. IsAsked(s, srv, t, q, e)
  BY <1>1, <1>5, <1>6, <1>8, <1>9 DEF IsAsked
<1> QED
  BY <1>7, <1>10

LEMMA AskedQueue ==
  ASSUME NEW s, NEW srv, Types(s, srv), NEW t, NEW q, NEW e, IsAsked(s, srv, t, q, e)
  PROVE  /\ t.queue[q] = Append(s.queue[q], e) /\ t.queue[q] # <<>> /\ s.queue[q] \in Seq(EctxSet)
         /\ \A i \in DOMAIN s.queue[q] : i \in DOMAIN t.queue[q] /\ t.queue[q][i] = s.queue[q][i]
         /\ \A i \in DOMAIN t.queue[q] : i \in DOMAIN s.queue[q] \/ (i = Len(s.queue[q]) + 1 /\ t.queue[q][i] = e)
         /\ Len(s.queue[q]) + 1 \in DOMAIN t.queue[q] /\ t.queue[q][Len(s.queue[q]) + 1] = e
         /\ Head(t.queue[q]) = IF s.queue[q] = <<>> THEN e ELSE Head(s.queue[q])
         /\ \A p \in Process : p # q => t.queue[p] = s.queue[p]
         /\ QueueIds(t, q) = QueueIds(s, q) \cup {s.requests + 1}
         /\ \A p \in Process : p # q => QueueIds(t, p) = QueueIds(s, p)
         /\ \A p \in Process : DoneIds(t, p) = DoneIds(s, p)
<1>1. s.queue[q] \in Seq(EctxSet) /\ s.queue \in [Process -> Seq(EctxSet)]
  BY EmacsParts DEF Types, IsAsked
<1>2. t.queue[q] = Append(s.queue[q], e) /\ e \in EctxSet
      /\ \A p \in Process : p # q => t.queue[p] = s.queue[p]
  BY <1>1 DEF IsAsked
<1>3. /\ t.queue[q] # <<>>
      /\ \A i \in DOMAIN s.queue[q] : i \in DOMAIN t.queue[q] /\ t.queue[q][i] = s.queue[q][i]
      /\ \A i \in DOMAIN t.queue[q] : i \in DOMAIN s.queue[q] \/ (i = Len(s.queue[q]) + 1 /\ t.queue[q][i] = e)
      /\ Len(s.queue[q]) + 1 \in DOMAIN t.queue[q] /\ t.queue[q][Len(s.queue[q]) + 1] = e
  BY <1>1, <1>2, Appended
<1>4. Head(t.queue[q]) = IF s.queue[q] = <<>> THEN e ELSE Head(s.queue[q])
  BY <1>1, <1>2, AppendedHead
<1>5. QueueIds(t, q) = QueueIds(s, q) \cup {s.requests + 1}
  <2>1. e.id = s.requests + 1
    BY DEF IsAsked
  <2>2. QueueIds(t, q) \subseteq QueueIds(s, q) \cup {s.requests + 1}
    BY <1>3, <2>1 DEF QueueIds
  <2>3. s.requests + 1 \in QueueIds(t, q)
    BY <1>3, <2>1 DEF QueueIds
  <2>4. QueueIds(s, q) \subseteq QueueIds(t, q)
    BY <1>3 DEF QueueIds
  <2> QED
    BY <2>2, <2>3, <2>4
<1>6. \A p \in Process : p # q => QueueIds(t, p) = QueueIds(s, p)
  BY <1>2 DEF QueueIds
<1>7. \A p \in Process : DoneIds(t, p) = DoneIds(s, p)
  BY DEF DoneIds, IsAsked
<1> QED
  BY <1>1, <1>2, <1>3, <1>4, <1>5, <1>6, <1>7

LEMMA AskedTypes ==
  ASSUME NEW s, NEW srv, Types(s, srv), NEW t, NEW q, NEW e, IsAsked(s, srv, t, q, e)
  PROVE  Types(t, srv)
<1>1. t \in EmacsSet /\ srv \in ServerSet
  BY DEF Types, IsAsked
<1>2. ASSUME NEW p \in Process PROVE t.mark[p] <= Len(t.output)
  <2>1. s.mark[p] <= Len(s.output) /\ Len(s.output) \in Nat /\ t.output = s.output /\ s.mark \in [Process -> Nat]
    BY EmacsParts DEF Types, IsAsked
  <2>2. t.mark[p] = s.mark[p] \/ t.mark[p] = Len(s.output)
    BY <2>1 DEF IsAsked
  <2> QED
    BY <2>1, <2>2
<1>3. ASSUME NEW p \in Process, NEW i \in DOMAIN t.queue[p] PROVE Shaped(t.queue[p][i])
  <2>1. Shaped(e)
    BY DEF IsAsked
  <2>2. CASE p = q
    BY <1>3, <2>1, <2>2, AskedQueue DEF Types
  <2>3. CASE p # q
    BY <1>3, <2>3, AskedQueue DEF Types
  <2> QED
    BY <2>2, <2>3
<1> QED
  BY <1>1, <1>2, <1>3 DEF Types

LEMMA AskedOrdered ==
  ASSUME NEW s, NEW srv, Types(s, srv), NEW t, NEW q, NEW e, IsAsked(s, srv, t, q, e), Ordered(s)
  PROVE  Ordered(t)
<1>0. s.requests \in Nat /\ s.queue[q] \in Seq(EctxSet) /\ Len(s.queue[q]) \in Nat
  <2>1. s.requests \in 0..MaxRequest /\ s.queue[q] \in Seq(EctxSet)
    BY EmacsParts DEF Types, IsAsked
  <2> QED
    BY <2>1, NatBounds
<1>1. \A p \in Process : Ids(t, p) = IF p = q THEN Ids(s, p) \cup {s.requests + 1} ELSE Ids(s, p)
  BY AskedQueue DEF Ids
<1>2. \A p \in Process : \A a \in Ids(s, p) : a \in Nat /\ a <= s.requests
  <2>1. \A p \in Process : \A a \in Ids(s, p) : a \in Request
    <3>1. ASSUME NEW p \in Process, NEW i \in DOMAIN s.queue[p] PROVE s.queue[p][i].id \in Request
      <4>1. s.queue[p][i] \in EctxSet
        BY EmacsParts, SeqElement DEF Types
      <4> QED
        BY <4>1 DEF EctxSet
    <3>2. ASSUME NEW p \in Process, NEW i \in DOMAIN s.done[p] PROVE s.done[p][i].id \in Request
      <4>1. s.done[p][i] \in DoneSet
        BY EmacsParts, SeqElement DEF Types
      <4> QED
        BY <4>1 DEF DoneSet
    <3> QED
      BY <3>1, <3>2 DEF Ids, QueueIds, DoneIds
  <2> QED
    BY <2>1, NatBounds DEF Ordered, Request
<1>3. ASSUME NEW p \in Process, NEW i \in DOMAIN t.queue[p], NEW j \in DOMAIN t.queue[p], i < j
      PROVE  t.queue[p][i].id < t.queue[p][j].id
  <2>1. CASE p # q
    BY <1>3, <2>1, AskedQueue DEF Ordered
  <2>2. CASE p = q /\ j \in DOMAIN s.queue[q]
    <3>1. i \in DOMAIN s.queue[q]
      BY <1>0, <1>3, <2>2, AskedQueue
    <3> QED
      BY <1>3, <2>2, <3>1, AskedQueue DEF Ordered
  <2>3. CASE p = q /\ j \notin DOMAIN s.queue[q]
    <3>1. j = Len(s.queue[q]) + 1 /\ t.queue[q][j] = e
      BY <2>3, AskedQueue
    <3>2. i \in DOMAIN s.queue[q]
      BY <1>0, <1>3, <2>3, <3>1, AskedQueue
    <3>3. s.queue[q][i].id \in Ids(s, q)
      BY <3>2 DEF Ids, QueueIds
    <3>4. e.id = s.requests + 1 /\ q \in Process
      BY DEF IsAsked
    <3> QED
      BY <1>0, <1>2, <2>3, <3>1, <3>2, <3>3, <3>4, AskedQueue
  <2> QED
    BY <2>1, <2>2, <2>3
<1>4. t.done = s.done /\ t.requests = s.requests + 1 /\ q \in Process
  BY DEF IsAsked
<1>5. \A p \in Process : \A a \in DoneIds(t, p), b \in QueueIds(t, p) : a < b
  <2>1. \A p \in Process : DoneIds(s, p) \subseteq Ids(s, p)
    BY DEF Ids
  <2>2. \A p \in Process : \A a \in DoneIds(s, p) : a < s.requests + 1
    BY <1>0, <1>2, <2>1
  <2> QED
    BY <2>2, AskedQueue DEF Ordered
<1>6. \A p \in Process : \A a \in Ids(t, p) : a <= t.requests
  BY <1>0, <1>1, <1>2, <1>4
<1>7. \A p, p2 \in Process : p # p2 => Ids(t, p) \cap Ids(t, p2) = {}
  <2>1. \A p \in Process : s.requests + 1 \notin Ids(s, p)
    BY <1>0, <1>2
  <2>2. \A p, p2 \in Process : p # p2 => Ids(s, p) \cap Ids(s, p2) = {}
    BY DEF Ordered
  <2> QED
    BY <1>1, <2>1, <2>2
<1>8. \A r \in 1..t.requests : \E p \in Process : r \in Ids(t, p)
  <2>1. \A r \in 1..t.requests : r = s.requests + 1 \/ r \in 1..s.requests
    BY <1>0, <1>4
  <2>2. \A r \in 1..s.requests : \E p \in Process : r \in Ids(s, p)
    BY DEF Ordered
  <2> QED
    BY <1>1, <1>4, <2>1, <2>2
<1>9. ASSUME NEW p \in Process, NEW i \in DOMAIN t.queue[p], t.queue[p][i].started PROVE i = 1
  <2>1. ~e.started
    BY DEF IsAsked
  <2> QED
    BY <1>9, <2>1, AskedQueue DEF Ordered
<1> QED
  BY <1>3, <1>4, <1>5, <1>6, <1>7, <1>8, <1>9 DEF Ordered

LEMMA AskedProcesses ==
  ASSUME NEW s, NEW srv, Types(s, srv), NEW t, NEW q, NEW e, IsAsked(s, srv, t, q, e), Processes(s, srv)
  PROVE  Processes(t, srv)
<1>1. /\ t.process = q /\ t.made = q /\ q \in Process /\ (q = s.made \/ q = s.made + 1) /\ s.made \in Nat
      /\ t.pipe = s.pipe /\ t.done = s.done /\ t.unsaved = s.unsaved
      /\ q = s.made + 1 /\ s.made # 0 => ~srv[s.made].alive
  <2>1. s.made \in 0..MaxProcess
    BY EmacsParts DEF Types, IsAsked
  <2> QED
    BY <2>1, NatBounds DEF IsAsked
<1>2. \A p \in Process : p \in Nat /\ p >= 1
  BY NatBounds DEF Process
<1>3. ASSUME NEW p \in Process, p <= t.made, srv[p].alive PROVE p = t.process
  <2>1. CASE q = s.made
    BY <1>1, <1>3, <2>1, <1>2 DEF Processes
  <2>2. CASE q = s.made + 1 /\ p # q
    <3>1. p <= s.made /\ s.made # 0
      BY <1>1, <1>2, <1>3, <2>2
    <3>2. p = s.process
      BY <3>1, <1>3 DEF Processes
    <3>3. p = s.made
      BY <3>1, <3>2, <1>2 DEF Processes
    <3> QED
      BY <1>1, <1>3, <2>2, <3>1, <3>3
  <2> QED
    BY <1>1, <2>1, <2>2
<1>4. ASSUME NEW p \in Process, p > t.made
      PROVE  t.queue[p] = <<>> /\ p > s.made
  <2>1. p # q /\ p > s.made
    BY <1>1, <1>2, <1>4
  <2> QED
    BY <2>1, AskedQueue DEF Processes
<1>5. t.process \in {0, t.made}
  BY <1>1
<1> QED
  BY <1>1, <1>3, <1>4, <1>5 DEF Processes

LEMMA AskedTempFiles ==
  ASSUME NEW s, NEW srv, Types(s, srv), NEW t, NEW q, NEW e, IsAsked(s, srv, t, q, e), TempFiles(s)
  PROVE  TempFiles(t)
<1>1. \A p \in Process : s.queue[p] # <<>> => t.queue[p] # <<>> /\ Head(t.queue[p]) = Head(s.queue[p])
  BY AskedQueue
<1>2. \A p \in Process : s.queue[p] # <<>> => Task(t, p) = Task(s, p)
  BY <1>1 DEF Task
<1>3. t.temp = s.temp /\ t.done = s.done
  BY DEF IsAsked
<1> QED
  BY <1>1, <1>2, <1>3 DEF TempFiles

LEMMA AskedFlow ==
  ASSUME NEW s, NEW srv, Types(s, srv), NEW t, NEW q, NEW e, IsAsked(s, srv, t, q, e),
         Processes(s, srv), NEW X, Flow(s, srv, X)
  PROVE  Flow(t, srv, X)
<1>1. /\ t.made = q /\ q \in Process /\ ~e.started
      /\ t.output = s.output /\ t.pipe = s.pipe /\ Len(s.output) \in Nat /\ q # 0
      /\ \/ q = s.made /\ t.mark = s.mark
         \/ q = s.made + 1 /\ t.mark[q] = Len(s.output)
      /\ s.made \in Nat /\ q \in Nat
  <2>1. q \in Process /\ s \in EmacsSet
    BY DEF Types, IsAsked
  <2>2. s.mark \in [Process -> Nat] /\ Len(s.output) \in Nat /\ s.made \in 0..MaxProcess
    BY <2>1, EmacsParts
  <2>3. q \in Nat /\ q # 0 /\ s.made \in Nat
    BY <2>1, <2>2, NatBounds DEF Process
  <2>4. q = s.made + 1 /\ t.mark = [s.mark EXCEPT ![q] = Len(s.output)] => t.mark[q] = Len(s.output)
    BY <2>1, <2>2
  <2> QED
    BY <2>1, <2>2, <2>3, <2>4 DEF IsAsked
<1>2. CASE q = s.made /\ s.queue[q] # <<>>
  <2>1. t.queue[q] # <<>> /\ Head(t.queue[q]) = Head(s.queue[q]) /\ Task(t, q) = Task(s, q)
    BY <1>2, AskedQueue DEF Task
  <2>2. t.mark = s.mark
    <3>1. q # s.made + 1
      BY <1>1, <1>2, NatBounds DEF Process
    <3> QED
      BY <1>1, <3>1
  <2>3. Sent(s, srv, q) => Sent(t, srv, q)
    BY <1>1, <2>1 DEF Sent
  <2>4. Answering(s, srv, q) => Answering(t, srv, q)
    BY <1>1, <2>1 DEF Answering, Right
  <2> QED
    BY <1>1, <1>2, <2>1, <2>2, <2>3, <2>4 DEF Flow, Quiet, Cut
<1>3. CASE q = s.made /\ s.queue[q] = <<>>
  <2>1. Quiet(s, q, X) /\ Quiet(t, q, X)
    BY <1>1, <1>3, AskedQueue DEF Quiet
  <2>2. t.mark = s.mark
    <3>1. q # s.made + 1
      BY <1>1, <1>3, NatBounds DEF Process
    <3> QED
      BY <1>1, <3>1
  <2> QED
    BY <1>1, <1>3, <2>1, <2>2 DEF Flow
<1>4. CASE q = s.made + 1
  <2>1. q > s.made
    BY <1>1, <1>4, NatBounds DEF Process
  <2>2. s.queue[q] = <<>> /\ s.pipe[q] = <<>> /\ srv[q].out = <<>> /\ srv[q].busy = Nothing
    BY <1>1, <2>1 DEF Processes
  <2>3. Quiet(t, q, X)
    BY <1>1, <2>2, AskedQueue DEF Quiet
  <2>4. t.mark[q] = Len(s.output)
    <3>1. q # s.made
      BY <2>1, <1>1, NatBounds DEF Process
    <3> QED
      BY <1>1, <3>1
  <2> QED
    BY <1>1, <2>2, <2>3, <2>4 DEF Flow
<1> QED
  BY <1>1, <1>2, <1>3, <1>4

LEMMA RankTypes ==
  ASSUME NEW b \in BufferState
  PROVE  /\ Rank(b) \in Nat /\ b.tick \in Nat /\ b.tick >= 1 /\ b.tick \in Tick /\ b.modified \in BOOLEAN
         /\ b.exists \in BOOLEAN
         /\ Rank(b) = IF b.modified THEN 2 * b.tick ELSE 2 * b.tick + 1
BY NatBounds DEF Rank, BufferState, Tick

(* The state of every request is one of the buffer.                         *)
LEMMA RequestStates ==
  ASSUME NEW s, NEW srv, Types(s, srv), NEW p \in Process, NEW i \in DOMAIN s.queue[p]
  PROVE  LET e == s.queue[p][i]
         IN  /\ e \in EctxSet /\ Shaped(e) /\ i \in Nat /\ i >= 1 /\ i <= Len(s.queue[p])
             /\ e.tasks[1] \in TaskSet /\ e.tasks[1].kind \in Kind /\ e.tasks[1].state \in BufferState
             /\ e.want.tick = e.tasks[1].state.tick /\ e.want.untold \in BOOLEAN
             /\ e.tasks \in Seq(TaskSet) /\ Len(e.tasks) \in Nat
<1> DEFINE e == s.queue[p][i]
<1>1. e \in EctxSet /\ i \in Nat /\ i >= 1 /\ i <= Len(s.queue[p])
  BY EmacsParts, SeqElement DEF Types
<1>2. Shaped(e)
  BY DEF Types
<1>3. e.tasks \in Seq(TaskSet) /\ e.want.untold \in BOOLEAN
  BY <1>1 DEF EctxSet
<1>4. e.tasks # <<>> /\ e.tasks[1].state.tick = e.want.tick
  BY <1>2 DEF Shaped
<1>5. e.tasks[1] \in TaskSet
  BY <1>3, <1>4, HeadAndTail
<1> QED
  BY <1>1, <1>2, <1>3, <1>4, <1>5 DEF TaskSet

(* What is recorded of the new request.                                     *)
LEMMA NewPromise ==
  ASSUME NEW s, NEW srv, Types(s, srv), NEW t, NEW q, NEW e, IsAsked(s, srv, t, q, e),
         Buffers(buffer, disk), Ranked(s, q, buffer)
  PROVE  Promised(t, q, Len(s.queue[q]) + 1, disk)
<1> DEFINE i == Len(s.queue[q]) + 1
           u == s.unsaved[q]
           change == BufferStateCompare(u, buffer)
<1>1. /\ q \in Process /\ u \in BufferState \cup {NoState} /\ s.queue[q] \in Seq(EctxSet)
      /\ t.queue[q][i] = e /\ t.unsaved[q] = u /\ Len(s.queue[q]) \in Nat
  BY EmacsParts, AskedQueue DEF Types, IsAsked
<1>2. e.want = Want(s, q) /\ e.tasks = ParseTask(u)
  BY DEF IsAsked
<1>3. e.want.tick = buffer.tick
      /\ (e.want.untold <=> (~buffer.modified
           /\ (\/ \E k \in DOMAIN s.queue[q] : \E j \in DOMAIN s.queue[q][k].tasks :
                     s.queue[q][k].tasks[j].kind = "set-unsaved"
               \/ u # NoState /\ ~u.exists)))
  <2> DEFINE P == /\ ~buffer.modified
                  /\ \/ \E k \in DOMAIN s.queue[q] : \E j \in DOMAIN s.queue[q][k].tasks :
                          s.queue[q][k].tasks[j].kind = "set-unsaved"
                     \/ s.unsaved[q] # NoState /\ ~s.unsaved[q].exists
  <2>1. e.want = [tick |-> buffer.tick, untold |-> P]
    BY <1>2 DEF Want
  <2> HIDE DEF P
  <2>2. e.want.tick = buffer.tick
    BY <2>1
  <2>3. e.want.untold = P
    BY <2>1
  <2>4. e.want.untold <=> P
    BY <2>3, Zenon
  <2> QED
    BY <2>2, <2>4 DEF P
<1>4. buffer \in BufferState /\ disk \in Tick /\ (~buffer.modified => disk = buffer.tick)
      /\ buffer.tick \in Nat /\ disk \in Nat
  BY NatBounds, RankTypes DEF Buffers, Tick
<1>5. e.tasks[1].state = buffer
      /\ \/ change = "noop" /\ e.tasks[1].kind = "parse"
         \/ change = "set-unsaved" /\ e.tasks[1].kind = change
         \/ change = "reset-unsaved" /\ ~buffer.modified /\ e.tasks[1].kind = change
  BY <1>1, <1>2, <1>4, ParseTaskShape
<1>6. \A j \in 1..(i - 1) : j \in DOMAIN s.queue[q] /\ t.queue[q][j] = s.queue[q][j]
  BY <1>1, AskedQueue, SeqElement
<1> SUFFICES Promised(t, q, i, disk)
  OBVIOUS
<1> HIDE DEF i
<1>7. CASE change = "set-unsaved"
  BY <1>1, <1>5, <1>7 DEF Promised
<1>8. CASE change = "reset-unsaved"
  BY <1>1, <1>3, <1>4, <1>5, <1>8 DEF Promised
<1>9. CASE change = "noop" /\ buffer.modified
  <2>1. u = buffer
    BY <1>9 DEF BufferStateCompare
  <2>2. u # NoState /\ u.tick >= e.want.tick
    BY <1>3, <1>4, <2>1, NothingAssumption
  <2>3. ASSUME NEW j \in 1..(i - 1)
        PROVE  /\ t.queue[q][j].tasks[1].kind # "reset-unsaved"
               /\ t.queue[q][j].tasks[1].kind = "set-unsaved" => t.queue[q][j].tasks[1].state.tick >= e.want.tick
    <3> DEFINE state == s.queue[q][j].tasks[1].state
    <3>1. j \in DOMAIN s.queue[q] /\ t.queue[q][j] = s.queue[q][j]
      BY <1>6
    <3>2. Rank(u) <= Rank(state) /\ Rank(state) <= Rank(buffer)
      BY <2>2, <3>1 DEF Ranked
    <3>3. state \in BufferState /\ Shaped(s.queue[q][j]) /\ s.queue[q][j].tasks[1].kind \in Kind
      BY <1>1, <3>1, RequestStates
    <3>4. state.tick \in Nat /\ Rank(state) = 2 * buffer.tick
          /\ Rank(state) = IF state.modified THEN 2 * state.tick ELSE 2 * state.tick + 1
      <4>1. Rank(buffer) = 2 * buffer.tick /\ Rank(buffer) \in Nat
        BY <1>4, <1>9, RankTypes
      <4>2. Rank(state) \in Nat /\ state.tick \in Nat
            /\ Rank(state) = IF state.modified THEN 2 * state.tick ELSE 2 * state.tick + 1
        BY <3>3, RankTypes
      <4>3. Rank(u) = Rank(buffer)
        BY <2>1
      <4> HIDE DEF state, u
      <4> QED
        BY <3>2, <4>1, <4>2, <4>3
    <3>5. state.modified /\ state.tick = buffer.tick
      <4>1. state.modified \in BOOLEAN /\ buffer.tick \in Nat /\ state.tick \in Nat
        BY <1>4, <3>3, <3>4, RankTypes
      <4> HIDE DEF state
      <4>2. 2 * state.tick + 1 # 2 * buffer.tick
        BY <4>1
      <4>3. state.modified
        BY <3>4, <4>2
      <4> QED
        BY <3>4, <4>1, <4>3
    <3>6. s.queue[q][j].tasks[1].kind # "reset-unsaved"
      BY <3>3, <3>5 DEF Shaped
    <3> QED
      BY <1>3, <1>4, <3>1, <3>5, <3>6, SMTT(90)
  <2>4. e.tasks[1].kind = "parse"
    BY <1>5, <1>9
  <2> QED
    BY <1>1, <2>2, <2>3, <2>4 DEF Promised
<1>10. CASE change = "noop" /\ ~buffer.modified
  <2>1. e.tasks[1].kind = "parse" /\ e.want.tick <= disk
    BY <1>3, <1>4, <1>5, <1>10
  <2>2. CASE u # NoState
    <3>1. u.modified
      BY <2>2 DEF Ranked
    <3>2. ~u.exists
      BY <1>10, <2>2, <3>1 DEF BufferStateCompare
    <3>3. e.want.untold
      BY <1>3, <1>10, <2>2, <3>2
    <3> QED
      BY <1>1, <3>3 DEF Promised
  <2>3. CASE u = NoState
    <3>1. CASE e.want.untold
      BY <1>1, <3>1 DEF Promised
    <3>2. CASE ~e.want.untold
      <4>1. ASSUME NEW j \in 1..(i - 1) PROVE t.queue[q][j].tasks[1].kind # "set-unsaved"
        <5>1. j \in DOMAIN s.queue[q] /\ t.queue[q][j] = s.queue[q][j]
          BY <1>6
        <5>2. 1 \in DOMAIN s.queue[q][j].tasks
          <6>1. Shaped(s.queue[q][j]) /\ s.queue[q][j].tasks \in Seq(TaskSet)
            BY <1>1, <5>1, RequestStates
          <6> QED
            BY <6>1, SeqElement, SMTT(90) DEF Shaped
        <5> QED
          BY <1>3, <1>10, <3>2, <5>1, <5>2
      <4> QED
        BY <1>1, <2>1, <2>3, <4>1 DEF Promised
    <3> QED
      BY <3>1, <3>2
  <2> QED
    BY <2>2, <2>3
<1> QED
  BY <1>5, <1>7, <1>8, <1>9, <1>10

LEMMA AskedTold ==
  ASSUME NEW s, NEW srv, Types(s, srv), NEW t, NEW q, NEW e, IsAsked(s, srv, t, q, e),
         Processes(s, srv), Buffers(buffer, disk), Told(s, srv, buffer, disk)
  PROVE  Told(t, srv, buffer, disk)
<1>1. /\ t.made = q /\ q \in Process /\ ~e.started /\ q \in Nat /\ q # 0 /\ s.made \in Nat
      /\ t.pipe = s.pipe /\ t.unsaved = s.unsaved /\ (q = s.made \/ q = s.made + 1)
  BY EmacsParts, NatBounds, SMTT(30) DEF Types, IsAsked, Process
<1>2. s.queue[q] \in Seq(EctxSet) /\ Len(s.queue[q]) \in Nat
      /\ \A i \in DOMAIN s.queue[q] : i \in Nat /\ i >= 1 /\ i <= Len(s.queue[q])
  BY AskedQueue, SeqElement
<1>3. e.tasks[1].state = buffer /\ e.tasks[1].kind \in Kind
  <2>1. e.tasks = ParseTask(s.unsaved[q]) /\ s.unsaved[q] \in BufferState \cup {NoState}
    BY EmacsParts DEF Types, IsAsked
  <2> QED
    BY <2>1, ParseTaskShape DEF Buffers, Kind
<1>4. Ranked(s, q, buffer) /\ OnRecord(s, srv, q)
      /\ (srv[q].unread \/ \A i \in DOMAIN s.queue[q] : Promised(s, q, i, disk))
  <2>1. CASE q = s.made
    BY <1>1, <2>1 DEF Told
  <2>2. CASE q = s.made + 1
    <3>1. q > s.made
      BY <1>1, <2>2
    <3>2. s.queue[q] = <<>> /\ s.unsaved[q] = NoState /\ srv[q].text = 0
      BY <1>1, <3>1 DEF Processes
    <3>3. DOMAIN s.queue[q] = {}
      BY <3>2
    <3> QED
      BY <3>2, <3>3 DEF Ranked, OnRecord
  <2> QED
    BY <1>1, <2>1, <2>2
<1>5. buffer \in BufferState /\ Rank(buffer) \in Nat
  BY RankTypes DEF Buffers
<1>6. Ranked(t, q, buffer)
  <2>1. ASSUME s.unsaved[q] # NoState
        PROVE  /\ s.unsaved[q].modified /\ Rank(s.unsaved[q]) <= Rank(buffer)
               /\ \A i \in DOMAIN t.queue[q] : Rank(s.unsaved[q]) <= Rank(t.queue[q][i].tasks[1].state)
    <3>1. s.unsaved[q].modified /\ Rank(s.unsaved[q]) <= Rank(buffer)
      BY <1>4, <2>1 DEF Ranked
    <3>2. ASSUME NEW i \in DOMAIN t.queue[q] PROVE Rank(s.unsaved[q]) <= Rank(t.queue[q][i].tasks[1].state)
      <4>1. CASE i \in DOMAIN s.queue[q]
        BY <1>4, <2>1, <4>1, AskedQueue DEF Ranked
      <4>2. CASE i \notin DOMAIN s.queue[q]
        BY <1>3, <3>1, <4>2, AskedQueue
      <4> QED
        BY <4>1, <4>2
    <3> QED
      BY <3>1, <3>2
  <2>2. ASSUME NEW i \in DOMAIN t.queue[q] PROVE Rank(t.queue[q][i].tasks[1].state) <= Rank(buffer)
    <3>1. CASE i \in DOMAIN s.queue[q]
      BY <1>4, <3>1, AskedQueue DEF Ranked
    <3>2. CASE i \notin DOMAIN s.queue[q]
      BY <1>3, <1>5, <3>2, AskedQueue
    <3> QED
      BY <3>1, <3>2
  <2>3. ASSUME NEW i \in DOMAIN t.queue[q], NEW j \in DOMAIN t.queue[q], i < j
        PROVE  Rank(t.queue[q][i].tasks[1].state) <= Rank(t.queue[q][j].tasks[1].state)
    <3>1. CASE j \in DOMAIN s.queue[q]
      <4>1. i \in DOMAIN s.queue[q]
        BY <1>2, <2>3, <3>1, AskedQueue
      <4> QED
        BY <1>4, <2>3, <3>1, <4>1, AskedQueue DEF Ranked
    <3>2. CASE j \notin DOMAIN s.queue[q]
      <4>1. t.queue[q][j].tasks[1].state = buffer
        BY <1>3, <3>2, AskedQueue
      <4> QED
        BY <2>2, <4>1
    <3> QED
      BY <3>1, <3>2
  <2> QED
    BY <1>1, <2>1, <2>2, <2>3 DEF Ranked
<1>7. OnRecord(t, srv, q)
  <2>1. CASE s.queue[q] # <<>>
    <3>1. t.queue[q] # <<>> /\ Head(t.queue[q]) = Head(s.queue[q]) /\ Task(t, q) = Task(s, q)
      BY <2>1, AskedQueue DEF Task
    <3> QED
      BY <1>1, <1>4, <2>1, <3>1 DEF OnRecord
  <2>2. CASE s.queue[q] = <<>>
    <3>1. Head(t.queue[q]) = e
      BY <2>2, AskedQueue
    <3> QED
      BY <1>1, <1>4, <2>2, <3>1 DEF OnRecord
  <2> QED
    BY <2>1, <2>2
<1>8. ASSUME ~srv[q].unread, NEW i \in DOMAIN t.queue[q] PROVE Promised(t, q, i, disk)
  <2>1. CASE i \in DOMAIN s.queue[q]
    <3>1. Promised(s, q, i, disk) /\ t.queue[q][i] = s.queue[q][i]
      BY <1>4, <1>8, <2>1, AskedQueue
    <3>2. \A j \in 1..(i - 1) : t.queue[q][j] = s.queue[q][j]
      <4>1. DOMAIN s.queue[q] = 1..Len(s.queue[q]) /\ i \in Nat /\ i <= Len(s.queue[q])
        BY <1>2, <2>1, SeqElement
      <4>2. \A j \in 1..(i - 1) : j \in DOMAIN s.queue[q]
        BY <1>2, <4>1
      <4> QED
        BY <4>2, AskedQueue
    <3> QED
      BY <1>1, <3>1, <3>2, ZenonT(60) DEF Promised
  <2>2. CASE i \notin DOMAIN s.queue[q]
    BY <1>4, <2>2, AskedQueue, NewPromise
  <2> QED
    BY <2>1, <2>2
<1> QED
  BY <1>1, <1>6, <1>7, <1>8 DEF Told

----------------------------------------------------------------------------
(* The first request of a process is started, or goes on with its parse.    *)

HeadChanged(s, t, p, h) ==
  /\ t \in EmacsSet /\ p \in Process /\ s.queue[p] # <<>>
  /\ h \in EctxSet /\ Shaped(h) /\ h.started
  /\ h.id = Head(s.queue[p]).id /\ h.want = Head(s.queue[p]).want
  /\ t.queue = [s.queue EXCEPT ![p] = <<h>> \o Tail(@)]
  /\ t.process = s.process /\ t.made = s.made /\ t.requests = s.requests /\ t.done = s.done
  /\ t.gone = s.gone /\ t.mixed = s.mixed

LEMMA ChangedQueue ==
  ASSUME NEW s, NEW srv, Types(s, srv), NEW t, NEW p, NEW h, HeadChanged(s, t, p, h)
  PROVE  /\ t.queue[p] # <<>> /\ DOMAIN t.queue[p] = DOMAIN s.queue[p]
         /\ Head(t.queue[p]) = h /\ t.queue[p][1] = h /\ 1 \in DOMAIN s.queue[p]
         /\ Head(s.queue[p]) = s.queue[p][1]
         /\ \A i \in DOMAIN s.queue[p] : i # 1 => t.queue[p][i] = s.queue[p][i]
         /\ \A q \in Process : q # p => t.queue[q] = s.queue[q]
         /\ \A q \in Process : DOMAIN t.queue[q] = DOMAIN s.queue[q]
         /\ \A q \in Process : \A i \in DOMAIN s.queue[q] : t.queue[q][i].id = s.queue[q][i].id
         /\ \A q \in Process : QueueIds(t, q) = QueueIds(s, q) /\ DoneIds(t, q) = DoneIds(s, q)
<1>1. s.queue[p] \in Seq(EctxSet) /\ s.queue \in [Process -> Seq(EctxSet)] /\ s.queue[p] # <<>> /\ h \in EctxSet
  BY EmacsParts DEF Types, HeadChanged
<1>2. t.queue[p] = <<h>> \o Tail(s.queue[p]) /\ \A q \in Process : q # p => t.queue[q] = s.queue[q]
  BY <1>1 DEF HeadChanged
<1>3. /\ t.queue[p] # <<>> /\ DOMAIN t.queue[p] = DOMAIN s.queue[p]
      /\ Head(t.queue[p]) = h /\ t.queue[p][1] = h
      /\ \A i \in DOMAIN s.queue[p] : i # 1 => t.queue[p][i] = s.queue[p][i]
  BY <1>1, <1>2, HeadReplaced
<1>4. 1 \in DOMAIN s.queue[p] /\ Head(s.queue[p]) = s.queue[p][1]
  BY <1>1, HeadAndTail
<1>5. \A q \in Process : DOMAIN t.queue[q] = DOMAIN s.queue[q]
  BY <1>2, <1>3
<1>6. \A q \in Process : \A i \in DOMAIN s.queue[q] : t.queue[q][i].id = s.queue[q][i].id
  <2>1. h.id = s.queue[p][1].id
    BY <1>4 DEF HeadChanged
  <2> QED
    BY <1>2, <1>3, <2>1
<1>7. \A q \in Process : QueueIds(t, q) = QueueIds(s, q)
  BY <1>5, <1>6 DEF QueueIds
<1>8. \A q \in Process : DoneIds(t, q) = DoneIds(s, q)
  BY DEF DoneIds, HeadChanged
<1> QED
  BY <1>2, <1>3, <1>4, <1>5, <1>6, <1>7, <1>8

LEMMA ChangedShapes ==
  ASSUME NEW s, NEW srv, Types(s, srv), NEW t, NEW p, NEW h, HeadChanged(s, t, p, h)
  PROVE  \A q \in Process : \A i \in DOMAIN t.queue[q] : Shaped(t.queue[q][i])
<1> SUFFICES ASSUME NEW q \in Process, NEW i \in DOMAIN t.queue[q] PROVE Shaped(t.queue[q][i])
  OBVIOUS
<1>1. CASE q = p /\ i = 1
  <2>1. t.queue[p][1] = h
    BY ChangedQueue
  <2>2. Shaped(h)
    BY DEF HeadChanged
  <2> QED
    BY <1>1, <2>1, <2>2
<1>2. CASE ~(q = p /\ i = 1)
  <2>1. t.queue[q][i] = s.queue[q][i] /\ i \in DOMAIN s.queue[q]
    BY <1>2, ChangedQueue
  <2> QED
    BY <2>1 DEF Types
<1> QED
  BY <1>1, <1>2

LEMMA ChangedOrdered ==
  ASSUME NEW s, NEW srv, Types(s, srv), NEW t, NEW p, NEW h, HeadChanged(s, t, p, h), Ordered(s)
  PROVE  Ordered(t)
<1>1. \A q \in Process : Ids(t, q) = Ids(s, q)
  BY ChangedQueue DEF Ids
<1>2. t.done = s.done /\ t.requests = s.requests
  BY DEF HeadChanged
<1>3. \A q \in Process : \A i \in DOMAIN t.queue[q] : t.queue[q][i].started => i = 1
  BY ChangedQueue DEF Ordered
<1>4. \A q \in Process : \A i, j \in DOMAIN t.queue[q] : i < j => t.queue[q][i].id < t.queue[q][j].id
  BY ChangedQueue DEF Ordered
<1>5. \A q \in Process : \A a \in DoneIds(t, q), b \in QueueIds(t, q) : a < b
  BY ChangedQueue DEF Ordered
<1> QED
  BY <1>1, <1>2, <1>3, <1>4, <1>5 DEF Ordered

(* The first request is started: its task gets a result at once, or its     *)
(* command is sent.                                                         *)
IsStarted(s, t, p) ==
  LET h == [Head(s.queue[p]) EXCEPT !.started = TRUE]
  IN  /\ HeadChanged(s, t, p, h)
      /\ h.tasks = Head(s.queue[p]).tasks /\ Task(t, p) = Task(s, p)
      /\ t.output = <<>> /\ t.mark = [q \in Process |-> 0] /\ t.unsaved = s.unsaved
      /\ t.temp = IF Task(s, p).kind = "set-unsaved" THEN s.temp \cup {h.id} ELSE s.temp
      /\ StartResult(s, p) = Nothing => t.pipe = [s.pipe EXCEPT ![p] = Append(@, Command(s, p))]
      /\ StartResult(s, p) # Nothing => t.pipe = s.pipe

LEMMA StartFields ==
  ASSUME NEW s, NEW srv, Types(s, srv), NEW p \in Process, s.queue[p] # <<>>, buffer \in BufferState
  PROVE  IsStarted(s, Start(s, p), p) /\ Command(s, p) \in CommandSet
<1> DEFINE h == [Head(s.queue[p]) EXCEPT !.started = TRUE]
           queue == [s.queue EXCEPT ![p] = <<h>> \o Tail(@)]
           pipe == [s.pipe EXCEPT ![p] = IF StartResult(s, p) = Nothing THEN Append(@, Command(s, p)) ELSE @]
           temp == IF Task(s, p).kind = "set-unsaved" THEN s.temp \cup {Head(s.queue[p]).id} ELSE s.temp
           t == [s EXCEPT !.queue = queue, !.output = <<>>, !.mark = [q \in Process |-> 0],
                          !.temp = temp, !.pipe = pipe]
<1>1. /\ s \in EmacsSet /\ s.queue \in [Process -> Seq(EctxSet)] /\ s.queue[p] \in Seq(EctxSet)
      /\ s.pipe \in [Process -> Seq(CommandSet)] /\ s.pipe[p] \in Seq(CommandSet) /\ s.temp \in SUBSET Request
  BY EmacsParts DEF Types
<1>2. /\ Head(s.queue[p]) \in EctxSet /\ Shaped(Head(s.queue[p])) /\ Head(s.queue[p]).id \in Request
      /\ Task(s, p) \in TaskSet /\ Task(s, p).kind \in Kind /\ Task(s, p) = Head(s.queue[p]).tasks[1]
  BY FirstRequest
<1>3. /\ h \in EctxSet /\ h.started /\ h.id = Head(s.queue[p]).id /\ h.want = Head(s.queue[p]).want
      /\ h.tasks = Head(s.queue[p]).tasks
  BY <1>2 DEF EctxSet
<1> HIDE DEF h
<1>4. Shaped(h)
  BY <1>2, <1>3 DEF Shaped
<1>5. Command(s, p) \in CommandSet
  BY <1>2, RankTypes DEF Command, CommandSet
<1>6. <<h>> \o Tail(s.queue[p]) \in Seq(EctxSet)
  BY <1>1, <1>3, HeadReplaced
<1>7. queue \in [Process -> Seq(EctxSet)] /\ pipe \in [Process -> Seq(CommandSet)] /\ temp \in SUBSET Request
      /\ [q \in Process |-> 0] \in [Process -> Nat] /\ <<>> \in Seq(PartSet)
  BY <1>1, <1>2, <1>5, <1>6
<1>8. Start(s, p) = t
  BY DEF Start, h
<1>9. queue = [s.queue EXCEPT ![p] = <<h>> \o Tail(@)]
  OBVIOUS
<1>10. /\ StartResult(s, p) = Nothing => pipe = [s.pipe EXCEPT ![p] = Append(@, Command(s, p))]
       /\ StartResult(s, p) # Nothing => pipe = s.pipe
  BY <1>1
<1>11. temp = IF Task(s, p).kind = "set-unsaved" THEN s.temp \cup {h.id} ELSE s.temp
  BY <1>3
<1> HIDE DEF queue, pipe, temp
<1>12. t \in EmacsSet
  BY <1>1, <1>7 DEF EmacsSet
<1>13. /\ t.queue = queue /\ t.output = <<>> /\ t.mark = [q \in Process |-> 0] /\ t.temp = temp /\ t.pipe = pipe
       /\ t.process = s.process /\ t.made = s.made /\ t.requests = s.requests /\ t.done = s.done
       /\ t.gone = s.gone /\ t.mixed = s.mixed /\ t.unsaved = s.unsaved
  BY <1>1 DEF EmacsSet
<1> HIDE DEF t
<1>14. HeadChanged(s, t, p, h)
  BY <1>3, <1>4, <1>9, <1>12, <1>13 DEF HeadChanged
<1>15. Task(t, p) = Task(s, p)
  <2>1. Head(t.queue[p]) = h
    BY <1>14, ChangedQueue
  <2> QED
    BY <2>1, <1>3 DEF Task
<1>16. IsStarted(s, t, p)
  BY <1>3, <1>10, <1>11, <1>13, <1>14, <1>15 DEF IsStarted, h
<1> QED
  BY <1>5, <1>8, <1>16

LEMMA Replies ==
  /\ Replied(TRUE, 0, 0) \in Reply /\ Failed \in Reply /\ ~Failed.ok
  /\ Replied(TRUE, 0, 0) # Nothing /\ Failed # Nothing
<1>1. 0 \in 0..MaxRequest /\ 0 \in Tick
  BY NatBounds DEF Tick
<1>2. Replied(TRUE, 0, 0) \in Reply /\ Replied(FALSE, 0, 0) \in Reply
  BY <1>1 DEF Replied, Reply
<1>3. ~Failed.ok
  BY DEF Failed, Replied
<1> QED
  BY <1>2, <1>3, NothingAssumption DEF Failed

LEMMA StartedTypes ==
  ASSUME NEW s, NEW srv, Types(s, srv), NEW p, NEW t, IsStarted(s, t, p)
  PROVE  Types(t, srv)
<1> DEFINE h == [Head(s.queue[p]) EXCEPT !.started = TRUE]
<1>1. HeadChanged(s, t, p, h) /\ t.output = <<>> /\ t.mark = [q \in Process |-> 0]
  BY DEF IsStarted
<1> HIDE DEF h
<1>2. t \in EmacsSet /\ srv \in ServerSet
  BY <1>1 DEF Types, HeadChanged
<1>3. \A q \in Process : t.mark[q] <= Len(t.output)
  BY <1>1
<1> QED
  BY <1>1, <1>2, <1>3, ChangedShapes DEF Types

LEMMA StartedProcesses ==
  ASSUME NEW s, NEW srv, Types(s, srv), NEW p, NEW t, IsStarted(s, t, p), Processes(s, srv), Agree(srv)
  PROVE  Processes(t, srv)
<1> DEFINE h == [Head(s.queue[p]) EXCEPT !.started = TRUE]
<1>1. HeadChanged(s, t, p, h)
  BY DEF IsStarted
<1> HIDE DEF h
<1>2. /\ t.process = s.process /\ t.made = s.made /\ t.done = s.done /\ t.unsaved = s.unsaved
      /\ p \in Process /\ s.queue[p] # <<>>
  BY <1>1 DEF HeadChanged, IsStarted
<1>3. \A q \in Process : q # p => t.pipe[q] = s.pipe[q]
  <2>1. s.pipe \in [Process -> Seq(CommandSet)]
    BY <1>2, EmacsParts DEF Types
  <2> QED
    BY <2>1 DEF IsStarted
<1>4. srv[p].alive \/ t.pipe[p] = s.pipe[p]
  <2>1. StartResult(s, p) = Nothing => srv[p].alive
    BY <1>2, Replies DEF StartResult, Agree
  <2> QED
    BY <2>1 DEF IsStarted
<1>5. \A q \in Process : q # p => t.queue[q] = s.queue[q]
  BY <1>1, ChangedQueue
<1>6. ~(p > s.made)
  BY <1>2 DEF Processes
<1> QED
  BY <1>2, <1>3, <1>4, <1>5, <1>6 DEF Processes

LEMMA StartedTempFiles ==
  ASSUME NEW s, NEW srv, Types(s, srv), NEW p, NEW t, IsStarted(s, t, p), TempFiles(s)
  PROVE  TempFiles(t)
<1> DEFINE h == [Head(s.queue[p]) EXCEPT !.started = TRUE]
<1>1. HeadChanged(s, t, p, h) /\ Task(t, p) = Task(s, p)
      /\ t.temp = IF Task(s, p).kind = "set-unsaved" THEN s.temp \cup {h.id} ELSE s.temp
  BY DEF IsStarted
<1> HIDE DEF h
<1>2. t.done = s.done /\ p \in Process /\ h.id = Head(s.queue[p]).id
  BY <1>1 DEF HeadChanged
<1>3. \A q \in Process : s.queue[q] # <<>> =>
        t.queue[q] # <<>> /\ Head(t.queue[q]).id = Head(s.queue[q]).id /\ Task(t, q) = Task(s, q)
  <2>1. \A q \in Process : q # p => t.queue[q] = s.queue[q]
    BY <1>1, ChangedQueue
  <2>2. t.queue[p] # <<>> /\ Head(t.queue[p]).id = Head(s.queue[p]).id
    BY <1>1, <1>2, ChangedQueue
  <2> QED
    BY <1>1, <2>1, <2>2 DEF Task
<1>4. ASSUME NEW r \in t.temp
      PROVE  \E q \in Process :
               \/ t.queue[q] # <<>> /\ Head(t.queue[q]).id = r /\ Task(t, q).kind = "set-unsaved"
               \/ \E i \in DOMAIN t.done[q] : t.done[q][i].id = r /\ t.done[q][i].kind = "aborted"
  <2>1. CASE r \in s.temp
    BY <1>2, <1>3, <2>1 DEF TempFiles
  <2>2. CASE r \notin s.temp
    <3>1. r = h.id /\ Task(s, p).kind = "set-unsaved"
      BY <1>1, <1>4, <2>2
    <3>2. t.queue[p] # <<>> /\ Head(t.queue[p]) = h
      BY <1>1, ChangedQueue
    <3> QED
      BY <1>1, <1>2, <3>1, <3>2
  <2> QED
    BY <2>1, <2>2
<1> QED
  BY <1>4 DEF TempFiles

LEMMA RankBoundsTick ==
  ASSUME NEW a \in BufferState, NEW b \in BufferState, Rank(a) <= Rank(b)
  PROVE  a.tick <= b.tick
<1>1. /\ Rank(a) = (IF a.modified THEN 2 * a.tick ELSE 2 * a.tick + 1) /\ a.tick \in Nat /\ a.modified \in BOOLEAN
      /\ Rank(b) = (IF b.modified THEN 2 * b.tick ELSE 2 * b.tick + 1) /\ b.tick \in Nat /\ b.modified \in BOOLEAN
  BY RankTypes
<1>2. Rank(a) >= 2 * a.tick /\ Rank(b) <= 2 * b.tick + 1
  BY <1>1
<1>3. 2 * a.tick <= 2 * b.tick + 1
  BY <1>1, <1>2
<1> QED
  BY <1>1, <1>3

LEMMA StartedFlow ==
  ASSUME NEW s, NEW srv, Types(s, srv), NEW p, NEW t, IsStarted(s, t, p), Processes(s, srv), Agree(srv),
         Buffers(buffer, disk), Told(s, srv, buffer, disk), Command(s, p) \in CommandSet,
         NEW X, X \subseteq {p}, Flow(s, srv, X), Quiet(s, p, X),
         p # s.made /\ s.made # 0 => s.output = <<>> \/ Quiet(s, s.made, X)
  PROVE  Flow(t, srv, IF StartResult(s, p) = Nothing THEN {} ELSE {p})
<1> DEFINE h == [Head(s.queue[p]) EXCEPT !.started = TRUE]
           Y == IF StartResult(s, p) = Nothing THEN {} ELSE {p}
           m == s.made
<1>1. HeadChanged(s, t, p, h) /\ Task(t, p) = Task(s, p)
      /\ t.output = <<>> /\ t.mark = [q \in Process |-> 0]
  BY DEF IsStarted
<1> HIDE DEF h
<1>2. t.made = m /\ m \in Nat /\ m \in 0..MaxProcess /\ p \in Process /\ s.queue[p] # <<>>
      /\ h.started /\ h.id = Head(s.queue[p]).id /\ h.want = Head(s.queue[p]).want
  BY <1>1, EmacsParts, NatBounds DEF Types, HeadChanged
<1> SUFFICES ASSUME m # 0 PROVE Flow(t, srv, Y)
  BY <1>2 DEF Flow
<1>3. m \in Process
  BY <1>2, NatBounds DEF Process
<1>4. t.mark[m] = Len(t.output)
  BY <1>1, <1>3
<1>5. s.pipe \in [Process -> Seq(CommandSet)] /\ s.queue[p] \in Seq(EctxSet) /\ srv[m].busy \in Reply \cup {Nothing}
  BY <1>2, <1>3, EmacsParts, ServerParts DEF Types
<1>6. CASE p = m
  <2>1. s.pipe[p] = <<>> /\ srv[p].out = <<>> /\ srv[p].busy = Nothing
    BY <1>6 DEF Flow
  <2>2. t.queue[p] # <<>> /\ Head(t.queue[p]) = h
    BY <1>1, ChangedQueue
  <2>3. CASE StartResult(s, p) = Nothing
    <3> DEFINE c == Command(s, p)
    <3>1. t.pipe = [s.pipe EXCEPT ![p] = Append(@, c)]
      BY <2>3 DEF IsStarted
    <3>2. t.pipe[p] = <<c>>
      BY <1>2, <1>5, <2>1, <3>1
    <3>3. c.of = h.id /\ c.kind = Task(t, p).kind /\ c.tick = buffer.tick
      BY <1>1, <1>2 DEF Command
    <3>4. Task(t, p).state.tick <= buffer.tick
      <4>1. Ranked(s, p, buffer)
        BY <1>6 DEF Told
      <4>2. Rank(s.queue[p][1].tasks[1].state) <= Rank(buffer) /\ Task(s, p) = s.queue[p][1].tasks[1]
            /\ Task(s, p).state \in BufferState
        BY <1>2, <4>1, FirstRequest DEF Ranked
      <4> QED
        BY <1>1, <4>2, RankBoundsTick DEF Buffers
    <3>5. c.tick >= Task(t, p).state.tick
      <4>1. Task(t, p).state \in BufferState /\ buffer \in BufferState
        BY <1>1, <1>2, FirstRequest DEF Buffers
      <4> QED
        BY <3>3, <3>4, <4>1, RankTypes
    <3> HIDE DEF c
    <3>6. Sent(t, srv, p)
      BY <1>1, <2>1, <2>2, <3>2, <3>3, <3>5 DEF Sent, c
    <3>7. ~Quiet(t, p, Y)
      BY <1>2, <2>2, <2>3 DEF Quiet
    <3> QED
      BY <1>2, <1>4, <1>6, <3>6, <3>7 DEF Flow
  <2>4. CASE StartResult(s, p) # Nothing
    <3>1. Quiet(t, p, Y)
      BY <2>4 DEF Quiet
    <3>2. t.pipe = s.pipe
      BY <2>4 DEF IsStarted
    <3> QED
      BY <1>2, <1>4, <1>6, <2>1, <3>1, <3>2 DEF Flow
  <2> QED
    BY <2>3, <2>4
<1>7. CASE p # m
  <2>1. t.queue[m] = s.queue[m] /\ t.pipe[m] = s.pipe[m]
    BY <1>1, <1>2, <1>3, <1>5, <1>7, ChangedQueue DEF IsStarted
  <2>2. Quiet(t, m, Y) <=> Quiet(s, m, X)
    BY <1>7, <2>1 DEF Quiet
  <2>3. CASE Quiet(s, m, X)
    BY <1>2, <1>4, <2>1, <2>2, <2>3 DEF Flow
  <2>4. CASE ~Quiet(s, m, X)
    <3>1. s.output = t.output
      BY <1>1, <1>7, <2>4
    <3>2. Sent(s, srv, m) \/ Answering(s, srv, m) \/ Cut(s, srv, m)
      BY <2>4 DEF Flow
    <3>3. Sent(t, srv, m) \/ Answering(t, srv, m) \/ Cut(t, srv, m)
      BY <2>1, <3>1, <3>2 DEF Sent, Answering, Cut, Right, Task
    <3> QED
      BY <1>2, <1>4, <2>2, <2>4, <3>3 DEF Flow
  <2> QED
    BY <2>3, <2>4
<1> QED
  BY <1>6, <1>7

LEMMA StartedTold ==
  ASSUME NEW s, NEW srv, Types(s, srv), NEW p, NEW t, IsStarted(s, t, p), Processes(s, srv), Agree(srv),
         Command(s, p) \in CommandSet, NEW b, NEW d, Told(s, srv, b, d)
  PROVE  Told(t, srv, b, d)
<1> DEFINE h == [Head(s.queue[p]) EXCEPT !.started = TRUE]
           m == s.made
<1>1. HeadChanged(s, t, p, h) /\ Task(t, p) = Task(s, p) /\ h.tasks = Head(s.queue[p]).tasks
      /\ t.unsaved = s.unsaved
  BY DEF IsStarted
<1> HIDE DEF h
<1>2. t.made = m /\ m \in 0..MaxProcess /\ p \in Process /\ s.queue[p] # <<>> /\ h.want = Head(s.queue[p]).want
  BY <1>1, EmacsParts DEF Types, HeadChanged
<1> SUFFICES ASSUME m # 0 PROVE Told(t, srv, b, d)
  BY <1>2 DEF Told
<1>3. m \in Process /\ m \in Nat
  BY <1>2, NatBounds DEF Process
<1>4. \A i \in DOMAIN t.queue[m] :
        t.queue[m][i].tasks = s.queue[m][i].tasks /\ t.queue[m][i].want = s.queue[m][i].want
  <2>1. CASE p = m
    BY <1>1, <1>2, <2>1, ChangedQueue
  <2>2. CASE p # m
    BY <1>1, <1>3, <2>2, ChangedQueue
  <2> QED
    BY <2>1, <2>2
<1>5. DOMAIN t.queue[m] = DOMAIN s.queue[m]
  BY <1>1, <1>3, ChangedQueue
<1>6. Ranked(s, m, b) /\ OnRecord(s, srv, m)
      /\ (srv[m].unread \/ \A i \in DOMAIN s.queue[m] : Promised(s, m, i, d))
  BY DEF Told
<1>7. Ranked(t, m, b)
  BY <1>1, <1>4, <1>5, <1>6 DEF Ranked
<1>8. ASSUME ~srv[m].unread, NEW i \in DOMAIN t.queue[m] PROVE Promised(t, m, i, d)
  <2>1. \A j \in 1..(i - 1) : j \in DOMAIN t.queue[m]
    <3>1. t.queue[m] \in Seq(EctxSet)
      BY <1>1, <1>3, EmacsParts DEF HeadChanged
    <3> QED
      BY <1>8, <3>1
  <2>2. Promised(s, m, i, d)
    BY <1>5, <1>6, <1>8
  <2>3. \A j \in 1..(i - 1) : t.queue[m][j].tasks = s.queue[m][j].tasks
    BY <1>4, <2>1
  <2> QED
    BY <1>1, <1>4, <1>8, <2>2, <2>3 DEF Promised
<1>9. OnRecord(t, srv, m)
  <2>1. CASE p # m
    <3>1. t.queue[m] = s.queue[m]
      BY <1>1, <1>3, <2>1, ChangedQueue
    <3>2. t.pipe[m] = s.pipe[m]
      <4>1. s.pipe \in [Process -> Seq(CommandSet)]
        BY <1>2, EmacsParts DEF Types
      <4> QED
        BY <1>3, <2>1, <4>1 DEF IsStarted
    <3> QED
      BY <1>1, <1>6, <3>1, <3>2 DEF OnRecord, Task
  <2>2. CASE p = m
    <3>1. t.queue[m] # <<>> /\ s.queue[m] # <<>> /\ Task(t, m) = Task(s, m)
      BY <1>1, <1>2, <2>2, ChangedQueue
    <3>2. CASE StartResult(s, p) = Nothing
      <4>1. t.pipe = [s.pipe EXCEPT ![p] = Append(@, Command(s, p))]
        BY <3>2 DEF IsStarted
      <4>2. s.pipe \in [Process -> Seq(CommandSet)] /\ s.pipe[p] \in Seq(CommandSet)
            /\ t.pipe \in [Process -> Seq(CommandSet)]
        BY <1>1, <1>2, EmacsParts DEF Types, HeadChanged
      <4>3. t.pipe[m] # <<>>
        BY <1>2, <2>2, <4>1, <4>2, Appended
      <4> QED
        BY <1>1, <1>6, <3>1, <4>3 DEF OnRecord
    <3>3. CASE StartResult(s, p) # Nothing /\ srv[m].alive
      <4>1. Task(s, m).kind = "reset-unsaved" /\ s.unsaved[m] = NoState
        BY <1>2, <2>2, <3>3 DEF StartResult, Agree
      <4> QED
        BY <1>1, <1>6, <3>1, <4>1 DEF OnRecord
    <3>4. CASE ~srv[m].alive
      BY <3>4 DEF OnRecord
    <3> QED
      BY <3>2, <3>3, <3>4
  <2> QED
    BY <2>1, <2>2
<1> QED
  BY <1>2, <1>7, <1>8, <1>9 DEF Told

(* What a task gets at once is no answer of a server.                       *)
LEMMA StartedRight ==
  ASSUME NEW s, NEW srv, NEW p, NEW t, IsStarted(s, t, p), StartResult(s, p) # Nothing, Agree(srv)
  PROVE  StartResult(s, p) \in Reply /\ Right(t, srv, p, StartResult(s, p))
<1>1. Task(t, p) = Task(s, p) /\ p \in Process
  BY DEF IsStarted, HeadChanged
<1>2. \/ StartResult(s, p) = Failed /\ ~srv[p].alive
      \/ StartResult(s, p) = Replied(TRUE, 0, 0) /\ Task(s, p).kind = "reset-unsaved"
  BY <1>1 DEF StartResult, Agree
<1>3. Replied(TRUE, 0, 0).ok
  BY DEF Replied
<1> QED
  BY <1>1, <1>2, <1>3, Replies DEF Right

----------------------------------------------------------------------------
(* A task is over.                                                          *)

IsFinished(s, f, p, ok) ==
  LET kind == Task(s, p).kind
  IN  /\ f \in EmacsSet
      /\ f.unsaved = IF kind = "set-unsaved" /\ ok THEN [s.unsaved EXCEPT ![p] = Task(s, p).state]
                     ELSE IF kind = "reset-unsaved" THEN [s.unsaved EXCEPT ![p] = NoState]
                     ELSE s.unsaved
      /\ f.temp = IF kind = "set-unsaved" THEN s.temp \ {Head(s.queue[p]).id} ELSE s.temp
      /\ f.process = s.process /\ f.made = s.made /\ f.queue = s.queue /\ f.output = s.output
      /\ f.mark = s.mark /\ f.gone = s.gone /\ f.pipe = s.pipe /\ f.requests = s.requests
      /\ f.done = s.done /\ f.mixed = s.mixed

Finished(s, p, ok) == Finish(IF ok THEN OnSuccess(s, p) ELSE s, p)

LEMMA FinishFields ==
  ASSUME NEW s, NEW srv, Types(s, srv), NEW p \in Process, s.queue[p] # <<>>, NEW ok \in BOOLEAN
  PROVE  IsFinished(s, Finished(s, p, ok), p, ok)
<1> DEFINE kind == Task(s, p).kind
           told == [s EXCEPT !.unsaved[p] = Task(s, p).state]
<1>1. s \in EmacsSet /\ s.unsaved \in [Process -> BufferState \cup {NoState}] /\ s.temp \in SUBSET Request
  BY EmacsParts DEF Types
<1>2. kind \in Kind /\ Task(s, p).state \in BufferState
  BY FirstRequest
<1>3. /\ [s.unsaved EXCEPT ![p] = Task(s, p).state] \in [Process -> BufferState \cup {NoState}]
      /\ [s.unsaved EXCEPT ![p] = NoState] \in [Process -> BufferState \cup {NoState}]
      /\ s.temp \ {Head(s.queue[p]).id} \in SUBSET Request
  BY <1>1, <1>2
<1>4. CASE kind = "set-unsaved" /\ ok
  <2>1. OnSuccess(s, p) = told
    BY <1>4 DEF OnSuccess
  <2>2. told.queue = s.queue /\ told.temp = s.temp
    BY <1>1 DEF EmacsSet
  <2>3. Task(told, p).kind = "set-unsaved" /\ Head(told.queue[p]).id = Head(s.queue[p]).id
    BY <1>4, <2>2 DEF Task
  <2>4. Finished(s, p, ok) = [told EXCEPT !.temp = s.temp \ {Head(s.queue[p]).id}]
    BY <1>4, <2>1, <2>2, <2>3 DEF Finished, Finish
  <2> QED
    BY <1>1, <1>3, <1>4, <2>4 DEF IsFinished, EmacsSet
<1>5. CASE kind = "set-unsaved" /\ ~ok
  <2>1. Finished(s, p, ok) = [s EXCEPT !.temp = s.temp \ {Head(s.queue[p]).id}]
    BY <1>5 DEF Finished, Finish
  <2> QED
    BY <1>1, <1>3, <1>5, <2>1 DEF IsFinished, EmacsSet
<1>6. CASE kind = "reset-unsaved"
  <2>1. Finished(s, p, ok) = [s EXCEPT !.unsaved[p] = NoState]
    BY <1>6 DEF Finished, Finish, OnSuccess
  <2> QED
    BY <1>1, <1>3, <1>6, <2>1 DEF IsFinished, EmacsSet
<1>7. CASE kind = "parse"
  <2>1. Finished(s, p, ok) = s
    BY <1>7 DEF Finished, Finish, OnSuccess
  <2> QED
    BY <1>1, <1>7, <2>1 DEF IsFinished
<1> QED
  BY <1>2, <1>4, <1>5, <1>6, <1>7 DEF Kind

(* The first task succeeded and its parse is next.                          *)
Chain(s, p) ==
  LET chained == [Head(s.queue[p]) EXCEPT !.tasks = Tail(@)]
  IN  [Finished(s, p, TRUE) EXCEPT !.queue[p] = <<chained>> \o Tail(@)]

IsChained(s, t, p, h) ==
  /\ HeadChanged(s, t, p, h)
  /\ Len(h.tasks) = 1 /\ h.tasks[1].kind = "parse" /\ h.tasks[1].state = Task(s, p).state
  /\ \/ /\ Task(s, p).kind = "set-unsaved" /\ Task(s, p).state.modified
        /\ t.unsaved = [s.unsaved EXCEPT ![p] = Task(s, p).state] /\ t.temp = s.temp \ {h.id}
     \/ /\ Task(s, p).kind = "reset-unsaved"
        /\ t.unsaved = [s.unsaved EXCEPT ![p] = NoState] /\ t.temp = s.temp
  /\ t.output = s.output /\ t.mark = s.mark /\ t.pipe = s.pipe

LEMMA ChainFields ==
  ASSUME NEW s, NEW srv, Types(s, srv), NEW p \in Process, s.queue[p] # <<>>,
         Head(s.queue[p]).started, Len(Head(s.queue[p]).tasks) > 1
  PROVE  \E h : IsChained(s, Chain(s, p), p, h)
<1> DEFINE e == Head(s.queue[p])
           h == [e EXCEPT !.tasks = Tail(@)]
           f == Finished(s, p, TRUE)
           queue == [f.queue EXCEPT ![p] = <<h>> \o Tail(@)]
           t == [f EXCEPT !.queue = queue]
<1>1. /\ e \in EctxSet /\ Shaped(e) /\ e.tasks \in Seq(TaskSet) /\ e.tasks # <<>> /\ Task(s, p) = e.tasks[1]
      /\ e.want.tick = e.tasks[1].state.tick
  BY FirstRequest DEF Shaped
<1>2. /\ Len(e.tasks) = 2 /\ e.tasks[2].kind = "parse" /\ e.tasks[2].state = e.tasks[1].state
      /\ \/ e.tasks[1].kind = "set-unsaved" /\ e.tasks[1].state.modified
         \/ e.tasks[1].kind = "reset-unsaved" /\ ~e.tasks[1].state.modified
  BY <1>1, SMTT(90) DEF Shaped
<1>3. Tail(e.tasks) \in Seq(TaskSet) /\ Len(Tail(e.tasks)) = 1 /\ Tail(e.tasks)[1] = e.tasks[2]
  BY <1>1, <1>2, SMTT(90)
<1>4. h \in EctxSet /\ h.id = e.id /\ h.want = e.want /\ h.started = e.started /\ h.tasks = Tail(e.tasks)
  BY <1>1, <1>3 DEF EctxSet
<1> HIDE DEF h, f
<1>5. Shaped(h)
  <2>1. h.tasks # <<>>
    <3>1. h.tasks \in Seq(TaskSet) /\ Len(h.tasks) >= 1
      BY <1>3, <1>4
    <3> HIDE DEF e, queue, t
    <3> QED
      BY <3>1, NotEmpty
  <2> QED
    BY <1>1, <1>2, <1>3, <1>4, <2>1 DEF Shaped
<1>6. IsFinished(s, f, p, TRUE)
  BY FinishFields DEF f
<1>7. f \in EmacsSet /\ f.queue = s.queue /\ s.queue \in [Process -> Seq(EctxSet)] /\ s.queue[p] \in Seq(EctxSet)
  BY <1>6, EmacsParts DEF IsFinished, Types
<1>8. <<h>> \o Tail(s.queue[p]) \in Seq(EctxSet)
  BY <1>4, <1>7, HeadReplaced
<1>9. queue \in [Process -> Seq(EctxSet)] /\ queue = [s.queue EXCEPT ![p] = <<h>> \o Tail(@)]
  BY <1>7, <1>8
<1>10. Chain(s, p) = t
  BY DEF Chain, h, f
<1> HIDE DEF queue
<1>11. t \in EmacsSet
  BY <1>7, <1>9 DEF EmacsSet
<1>12. /\ t.queue = queue /\ t.output = f.output /\ t.mark = f.mark /\ t.temp = f.temp /\ t.pipe = f.pipe
       /\ t.process = f.process /\ t.made = f.made /\ t.requests = f.requests /\ t.done = f.done
       /\ t.gone = f.gone /\ t.mixed = f.mixed /\ t.unsaved = f.unsaved
  BY <1>7 DEF EmacsSet
<1> HIDE DEF t
<1>13. HeadChanged(s, t, p, h)
  BY <1>4, <1>5, <1>6, <1>9, <1>11, <1>12 DEF HeadChanged, IsFinished
<1>14. IsChained(s, t, p, h)
  <2>1. /\ t.output = s.output /\ t.mark = s.mark /\ t.pipe = s.pipe
    BY <1>6, <1>12 DEF IsFinished
  <2>2. Len(h.tasks) = 1 /\ h.tasks[1].kind = "parse" /\ h.tasks[1].state = Task(s, p).state
    BY <1>1, <1>2, <1>3, <1>4
  <2>3. CASE Task(s, p).kind = "set-unsaved"
    <3>1. t.unsaved = [s.unsaved EXCEPT ![p] = Task(s, p).state] /\ t.temp = s.temp \ {e.id}
      BY <1>6, <1>12, <2>3 DEF IsFinished
    <3>2. Task(s, p).state.modified
      BY <1>1, <1>2, <2>3
    <3> QED
      BY <1>4, <1>13, <2>1, <2>2, <2>3, <3>1, <3>2 DEF IsChained
  <2>4. CASE Task(s, p).kind = "reset-unsaved"
    <3>1. t.unsaved = [s.unsaved EXCEPT ![p] = NoState] /\ t.temp = s.temp
      BY <1>6, <1>12, <2>4 DEF IsFinished
    <3> QED
      BY <1>13, <2>1, <2>2, <2>4, <3>1 DEF IsChained
  <2> QED
    BY <1>1, <1>2, <2>3, <2>4
<1> QED
  BY <1>10, <1>14

LEMMA ChainedFields ==
  ASSUME NEW s, NEW srv, Types(s, srv), NEW t, NEW p, NEW h, IsChained(s, t, p, h)
  PROVE  /\ HeadChanged(s, t, p, h) /\ t \in EmacsSet /\ p \in Process /\ s.queue[p] # <<>>
         /\ Task(t, p) = h.tasks[1] /\ Task(t, p).kind = "parse" /\ h.id = Head(s.queue[p]).id
         /\ t.unsaved[p] \in BufferState \cup {NoState}
         /\ \A q \in Process : q # p => t.unsaved[q] = s.unsaved[q]
         /\ t.output = s.output /\ t.mark = s.mark /\ t.pipe = s.pipe
         /\ t.process = s.process /\ t.made = s.made /\ t.requests = s.requests /\ t.done = s.done
<1>1. HeadChanged(s, t, p, h) /\ h.tasks[1].kind = "parse"
      /\ t.output = s.output /\ t.mark = s.mark /\ t.pipe = s.pipe
  BY DEF IsChained
<1>2. /\ t \in EmacsSet /\ p \in Process /\ s.queue[p] # <<>> /\ h.id = Head(s.queue[p]).id
      /\ t.process = s.process /\ t.made = s.made /\ t.requests = s.requests /\ t.done = s.done
  BY <1>1 DEF HeadChanged
<1>3. Task(t, p) = h.tasks[1]
  <2>1. Head(t.queue[p]) = h /\ h \in EctxSet /\ Shaped(h)
    <3>1. Head(t.queue[p]) = h
      BY <1>1, ChangedQueue
    <3>2. h \in EctxSet /\ Shaped(h)
      BY <1>1 DEF HeadChanged
    <3> QED
      BY <3>1, <3>2
  <2>2. h.tasks \in Seq(TaskSet) /\ h.tasks # <<>>
    BY <2>1 DEF EctxSet, Shaped
  <2> QED
    BY <2>1, <2>2, HeadAndTail DEF Task
<1>4. s.unsaved \in [Process -> BufferState \cup {NoState}] /\ t.unsaved[p] \in BufferState \cup {NoState}
  BY <1>2, EmacsParts DEF Types
<1>5. \A q \in Process : q # p => t.unsaved[q] = s.unsaved[q]
  BY <1>4 DEF IsChained
<1> QED
  BY <1>1, <1>2, <1>3, <1>4, <1>5

LEMMA ChainedTypes ==
  ASSUME NEW s, NEW srv, Types(s, srv), NEW t, NEW p, NEW h, IsChained(s, t, p, h)
  PROVE  Types(t, srv)
<1>1. HeadChanged(s, t, p, h) /\ t \in EmacsSet /\ t.output = s.output /\ t.mark = s.mark
  BY ChainedFields
<1> QED
  BY <1>1, ChangedShapes DEF Types

LEMMA ChainedProcesses ==
  ASSUME NEW s, NEW srv, Types(s, srv), NEW t, NEW p, NEW h, IsChained(s, t, p, h), Processes(s, srv)
  PROVE  Processes(t, srv)
<1>1. /\ HeadChanged(s, t, p, h) /\ t.pipe = s.pipe /\ t.process = s.process /\ t.made = s.made
      /\ t.done = s.done /\ s.queue[p] # <<>> /\ p \in Process
      /\ \A q \in Process : q # p => t.unsaved[q] = s.unsaved[q]
  BY ChainedFields
<1>2. \A q \in Process : q # p => t.queue[q] = s.queue[q]
  BY <1>1, ChangedQueue
<1>3. ~(p > s.made)
  BY <1>1 DEF Processes
<1> QED
  BY <1>1, <1>2, <1>3 DEF Processes

LEMMA ChainedTempFiles ==
  ASSUME NEW s, NEW srv, Types(s, srv), NEW t, NEW p, NEW h, IsChained(s, t, p, h), TempFiles(s)
  PROVE  TempFiles(t)
<1>1. /\ HeadChanged(s, t, p, h) /\ t.done = s.done /\ p \in Process /\ h.id = Head(s.queue[p]).id
  BY ChainedFields
<1>2. \A q \in Process : q # p => t.queue[q] = s.queue[q]
  BY <1>1, ChangedQueue
<1>3. ASSUME NEW r \in t.temp
      PROVE  r \in s.temp /\ ~(Head(s.queue[p]).id = r /\ Task(s, p).kind = "set-unsaved")
  BY <1>1, <1>3 DEF IsChained
<1>4. ASSUME NEW r \in t.temp
      PROVE  \E q \in Process :
               \/ t.queue[q] # <<>> /\ Head(t.queue[q]).id = r /\ Task(t, q).kind = "set-unsaved"
               \/ \E i \in DOMAIN t.done[q] : t.done[q][i].id = r /\ t.done[q][i].kind = "aborted"
  <2>1. PICK q \in Process :
               \/ s.queue[q] # <<>> /\ Head(s.queue[q]).id = r /\ Task(s, q).kind = "set-unsaved"
               \/ \E i \in DOMAIN s.done[q] : s.done[q][i].id = r /\ s.done[q][i].kind = "aborted"
    BY <1>3 DEF TempFiles
  <2>2. CASE \E i \in DOMAIN s.done[q] : s.done[q][i].id = r /\ s.done[q][i].kind = "aborted"
    BY <1>1, <2>2
  <2>3. CASE s.queue[q] # <<>> /\ Head(s.queue[q]).id = r /\ Task(s, q).kind = "set-unsaved"
    <3>1. q # p
      BY <1>3, <2>3
    <3> QED
      BY <1>2, <2>3, <3>1 DEF Task
  <2> QED
    BY <2>1, <2>2, <2>3
<1> QED
  BY <1>4 DEF TempFiles

LEMMA ChainedFlow ==
  ASSUME NEW s, NEW srv, Types(s, srv), NEW t, NEW p, NEW h, IsChained(s, t, p, h), Flow(s, srv, {p})
  PROVE  Flow(t, srv, {p})
<1> DEFINE m == s.made
<1>1. /\ HeadChanged(s, t, p, h) /\ t.output = s.output /\ t.mark = s.mark /\ t.pipe = s.pipe /\ t.made = m
      /\ p \in Process /\ m \in 0..MaxProcess
  BY ChainedFields, EmacsParts DEF Types
<1> SUFFICES ASSUME m # 0 PROVE Flow(t, srv, {p})
  BY <1>1 DEF Flow
<1>2. m \in Process
  BY <1>1, NatBounds DEF Process
<1>3. CASE p = m
  <2>1. Quiet(t, m, {p}) /\ Quiet(s, m, {p})
    BY <1>3 DEF Quiet
  <2> QED
    BY <1>1, <2>1 DEF Flow
<1>4. CASE p # m
  <2>1. t.queue[m] = s.queue[m]
    BY <1>1, <1>2, <1>4, ChangedQueue
  <2>2. Quiet(t, m, {p}) <=> Quiet(s, m, {p})
    BY <2>1 DEF Quiet
  <2>3. /\ Sent(s, srv, m) => Sent(t, srv, m)
        /\ Answering(s, srv, m) => Answering(t, srv, m)
        /\ Cut(s, srv, m) => Cut(t, srv, m)
    BY <1>1, <2>1 DEF Sent, Answering, Cut, Right, Task
  <2> QED
    BY <1>1, <2>2, <2>3 DEF Flow
<1> QED
  BY <1>3, <1>4

LEMMA ChainedTold ==
  ASSUME NEW s, NEW srv, Types(s, srv), NEW t, NEW p, NEW h, IsChained(s, t, p, h),
         Head(s.queue[p]).started, Flow(s, srv, {p}), NEW b, NEW d, Told(s, srv, b, d)
  PROVE  Told(t, srv, b, d)
<1> DEFINE m == s.made
           state == Task(s, p).state
<1>1. /\ HeadChanged(s, t, p, h) /\ t.output = s.output /\ t.mark = s.mark /\ t.pipe = s.pipe /\ t.made = m
      /\ p \in Process /\ m \in 0..MaxProcess /\ s.queue[p] # <<>>
      /\ \A q \in Process : q # p => t.unsaved[q] = s.unsaved[q]
      /\ Task(t, p).kind = "parse" /\ Task(t, p) = h.tasks[1] /\ t \in EmacsSet
  BY ChainedFields, EmacsParts DEF Types
<1> SUFFICES ASSUME m # 0 PROVE Told(t, srv, b, d)
  BY <1>1 DEF Told
<1>2. m \in Process
  BY <1>1, NatBounds DEF Process
<1>3. Ranked(s, m, b) /\ OnRecord(s, srv, m)
      /\ (srv[m].unread \/ \A i \in DOMAIN s.queue[m] : Promised(s, m, i, d))
  BY DEF Told
<1>4. CASE p # m
  <2>1. t.queue[m] = s.queue[m] /\ t.unsaved[m] = s.unsaved[m]
    BY <1>1, <1>2, <1>4, ChangedQueue
  <2>2. Ranked(t, m, b)
    BY <1>3, <2>1 DEF Ranked
  <2>3. OnRecord(t, srv, m)
    BY <1>1, <1>3, <2>1 DEF OnRecord, Task
  <2>4. srv[m].unread \/ \A i \in DOMAIN t.queue[m] : Promised(t, m, i, d)
    BY <1>3, <2>1, ZenonT(60) DEF Promised
  <2> QED
    BY <1>1, <2>2, <2>3, <2>4 DEF Told
<1>5. CASE p = m
  <2>1. s.pipe[m] = <<>>
    BY <1>5 DEF Flow, Quiet
  <2>2. /\ Task(s, m) = s.queue[m][1].tasks[1] /\ state \in BufferState /\ state.tick \in Nat
        /\ 1 \in DOMAIN s.queue[m] /\ Head(s.queue[m]) = s.queue[m][1]
        /\ s.queue[m][1].want.tick = state.tick
    BY <1>1, <1>5, FirstRequest, SMTT(90) DEF Shaped
  <2>3. s.unsaved \in [Process -> BufferState \cup {NoState}] /\ s.queue[m] \in Seq(EctxSet)
    BY <1>2, EmacsParts DEF Types
  <2>4. DOMAIN t.queue[m] = DOMAIN s.queue[m] /\ t.queue[m] # <<>> /\ t.queue[m][1] = h
        /\ \A i \in DOMAIN s.queue[m] : i # 1 => t.queue[m][i] = s.queue[m][i]
    BY <1>1, <1>5, ChangedQueue
  <2>5. h.tasks[1].state = state /\ h.tasks[1].kind = "parse" /\ h.want = s.queue[m][1].want
    BY <1>1, <1>5, <2>2 DEF IsChained, HeadChanged
  <2>6. \A i \in DOMAIN t.queue[m] : t.queue[m][i].tasks[1].state = s.queue[m][i].tasks[1].state
    BY <1>5, <2>2, <2>4, <2>5
  <2>7. ~srv[m].unread => \A i \in DOMAIN s.queue[m] : Promised(s, m, i, d)
    BY <1>3
  <2>8. \A i \in DOMAIN s.queue[m] : i \in Nat /\ i >= 1 /\ \A j \in 1..(i - 1) : j \in DOMAIN s.queue[m]
    BY <2>3
  <2>9. CASE Task(s, p).kind = "set-unsaved"
    <3>1. t.unsaved[m] = state /\ state.modified /\ t.unsaved[m] # NoState
      <4>1. t.unsaved = [s.unsaved EXCEPT ![p] = state] /\ state.modified
        BY <2>9 DEF IsChained
      <4> HIDE DEF state
      <4>2. t.unsaved[m] = state
        BY <1>2, <1>5, <2>3, <4>1
      <4> QED
        BY <2>2, <4>1, <4>2, NothingAssumption
    <3>2. Ranked(t, m, b)
      <4>1. s.queue[m][1].tasks[1].state = state
        BY <1>5, <2>2
      <4>2. Rank(state) <= Rank(b)
        BY <1>3, <2>2, <4>1 DEF Ranked
      <4>3. \A i \in DOMAIN s.queue[m] : Rank(state) <= Rank(s.queue[m][i].tasks[1].state)
        <5>1. Rank(state) \in Nat
          BY <2>2, RankTypes
        <5>2. \A i \in DOMAIN s.queue[m] : i = 1 \/ 1 < i
          BY <2>8
        <5>3. ASSUME NEW i \in DOMAIN s.queue[m], 1 < i PROVE Rank(state) <= Rank(s.queue[m][i].tasks[1].state)
          <6>1. Rank(s.queue[m][1].tasks[1].state) <= Rank(s.queue[m][i].tasks[1].state)
            BY <1>3, <2>2, <5>3 DEF Ranked
          <6> QED
            BY <4>1, <6>1
        <5> HIDE DEF state
        <5>4. Rank(s.queue[m][1].tasks[1].state) = Rank(state)
          BY <4>1
        <5> QED
          BY <5>1, <5>2, <5>3, <5>4
      <4> HIDE DEF state
      <4> QED
        BY <1>3, <2>4, <2>6, <3>1, <4>2, <4>3 DEF Ranked
    <3>3. OnRecord(t, srv, m)
      <4>1. srv[m].alive /\ ~srv[m].unread => srv[m].text >= state.tick
        BY <1>1, <1>3, <1>5, <2>1, <2>9 DEF OnRecord
      <4> QED
        BY <1>1, <1>5, <3>1, <4>1 DEF OnRecord
    <3>4. ASSUME ~srv[m].unread, NEW i \in DOMAIN t.queue[m] PROVE Promised(t, m, i, d)
      <4>1. CASE i = 1
        <5>1. h.want.tick = state.tick
          BY <2>2, <2>5
        <5>2. \A j \in 1..(1 - 1) : FALSE
          OBVIOUS
        <5>3. t.unsaved[m].tick >= h.want.tick
          BY <2>2, <3>1, <5>1
        <5> QED
          BY <2>4, <2>5, <3>1, <4>1, <5>2, <5>3 DEF Promised
      <4>2. CASE i # 1
        <5>1. Promised(s, m, i, d) /\ t.queue[m][i] = s.queue[m][i] /\ 1 \in 1..(i - 1)
          BY <2>4, <2>7, <2>8, <3>4, <4>2
        <5>2. \A j \in 1..(i - 1) : \/ j = 1 /\ t.queue[m][j].tasks[1].kind = "parse"
                                    \/ j # 1 /\ t.queue[m][j] = s.queue[m][j]
          BY <2>4, <2>5, <2>8, <3>4
        <5>3. s.queue[m][1].tasks[1].kind = "set-unsaved" /\ s.queue[m][1].tasks[1].state = state
          BY <1>5, <2>2, <2>9
        <5> HIDE DEF state
        <5>4. \A kind \in {"set-unsaved", "reset-unsaved"} : \A j \in 1..(i - 1) :
                t.queue[m][j].tasks[1].kind = kind => s.queue[m][j].tasks[1].kind = kind /\ t.queue[m][j] = s.queue[m][j]
          BY <5>2
        <5>5. CASE s.queue[m][i].tasks[1].kind = "parse" /\ ~s.queue[m][i].want.untold
          <6>1. ~(s.queue[m][i].tasks[1].kind = "set-unsaved" \/ s.queue[m][i].tasks[1].kind = "reset-unsaved")
            BY <5>5
          <6>2. /\ {j \in 1..(i - 1) : s.queue[m][j].tasks[1].kind = "reset-unsaved"} = {}
                /\ \A j \in {k \in 1..(i - 1) : s.queue[m][k].tasks[1].kind = "set-unsaved"} :
                     s.queue[m][j].tasks[1].state.tick >= s.queue[m][i].want.tick
            BY <5>1, <5>3, <5>5, <6>1 DEF Promised
          <6>3. state.tick >= s.queue[m][i].want.tick
            BY <5>1, <5>3, <6>2
          <6>4. {j \in 1..(i - 1) : t.queue[m][j].tasks[1].kind = "reset-unsaved"} = {}
            BY <5>4, <6>2
          <6>5. \A j \in {k \in 1..(i - 1) : t.queue[m][k].tasks[1].kind = "set-unsaved"} :
                  t.queue[m][j].tasks[1].state.tick >= s.queue[m][i].want.tick
            BY <5>4, <6>2
          <6> QED
            BY <3>1, <5>1, <5>5, <6>3, <6>4, <6>5 DEF Promised
        <5>6. CASE s.queue[m][i].tasks[1].kind # "parse" \/ s.queue[m][i].want.untold
          BY <5>1, <5>6 DEF Promised
        <5> QED
          BY <5>5, <5>6
      <4> QED
        BY <4>1, <4>2
    <3> QED
      BY <1>1, <3>2, <3>3, <3>4 DEF Told
  <2>10. CASE Task(s, p).kind = "reset-unsaved"
    <3>1. t.unsaved[m] = NoState
      BY <1>1, <1>5, <2>2, <2>3, <2>10 DEF IsChained
    <3>2. Ranked(t, m, b)
      BY <1>3, <2>4, <2>6, <3>1 DEF Ranked
    <3>3. OnRecord(t, srv, m)
      <4>1. srv[m].alive /\ ~srv[m].unread => srv[m].text = 0
        BY <1>1, <1>3, <1>5, <2>1, <2>10 DEF OnRecord
      <4> QED
        BY <1>1, <1>5, <3>1, <4>1 DEF OnRecord
    <3>4. ASSUME ~srv[m].unread, NEW i \in DOMAIN t.queue[m] PROVE Promised(t, m, i, d)
      <4>1. CASE i = 1
        <5>1. \A j \in 1..(1 - 1) : FALSE
          OBVIOUS
        <5>2. Promised(s, m, 1, d) /\ s.queue[m][1].tasks[1].kind = "reset-unsaved"
          BY <1>5, <2>2, <2>7, <2>10, <3>4
        <5>3. h.want.untold \/ h.want.tick <= d
          BY <2>5, <5>2 DEF Promised
        <5> QED
          BY <2>4, <2>5, <3>1, <4>1, <5>1, <5>3 DEF Promised
      <4>2. CASE i # 1
        <5>1. Promised(s, m, i, d) /\ t.queue[m][i] = s.queue[m][i] /\ 1 \in 1..(i - 1)
          BY <2>4, <2>7, <2>8, <3>4, <4>2
        <5>2. \A j \in 1..(i - 1) : \/ j = 1 /\ t.queue[m][j].tasks[1].kind = "parse"
                                    \/ j # 1 /\ t.queue[m][j] = s.queue[m][j]
          BY <2>4, <2>5, <2>8, <3>4
        <5>3. s.queue[m][1].tasks[1].kind = "reset-unsaved"
          BY <1>5, <2>2, <2>10
        <5> QED
          BY <3>1, <5>1, <5>2, <5>3, ZenonT(60) DEF Promised
      <4> QED
        BY <4>1, <4>2
    <3> QED
      BY <1>1, <3>2, <3>3, <3>4 DEF Told
  <2> QED
    BY <2>9, <2>10 DEF IsChained
<1> QED
  BY <1>4, <1>5

----------------------------------------------------------------------------
(* The first request of a process is over.                                  *)

IsPopped(s, t, p, done) ==
  LET kind == Task(s, p).kind
      aborted == done.kind = "aborted"
  IN  /\ t \in EmacsSet /\ p \in Process /\ s.queue[p] # <<>>
      /\ done \in DoneSet /\ done.id = Head(s.queue[p]).id
      /\ t.queue = [s.queue EXCEPT ![p] = Tail(@)] /\ t.done = [s.done EXCEPT ![p] = Append(@, done)]
      /\ t.unsaved = IF ~aborted /\ kind = "reset-unsaved" THEN [s.unsaved EXCEPT ![p] = NoState] ELSE s.unsaved
      /\ t.temp = IF ~aborted /\ kind = "set-unsaved" THEN s.temp \ {done.id} ELSE s.temp
      /\ t.process = s.process /\ t.made = s.made /\ t.requests = s.requests /\ t.gone = s.gone
      /\ t.mixed = s.mixed /\ t.output = s.output /\ t.mark = s.mark /\ t.pipe = s.pipe

PopsTo(s, f, p, t, done) ==
  /\ t \in EmacsSet /\ done \in DoneSet /\ done.id = Head(s.queue[p]).id
  /\ t.queue = [s.queue EXCEPT ![p] = Tail(@)] /\ t.done = [s.done EXCEPT ![p] = Append(@, done)]
  /\ t.unsaved = f.unsaved /\ t.temp = f.temp
  /\ t.process = f.process /\ t.made = f.made /\ t.requests = f.requests /\ t.gone = f.gone
  /\ t.mixed = f.mixed /\ t.output = f.output /\ t.mark = f.mark /\ t.pipe = f.pipe

IsOver(e, kind, reply, done) ==
  done.kind = kind /\ done.own = (reply.of = e.id) /\ done.fresh = Fresh(e.want, reply)

LEMMA PopFields ==
  ASSUME NEW s, NEW srv, Types(s, srv), NEW p \in Process, s.queue[p] # <<>>, NEW f \in EmacsSet,
         f.queue = s.queue, f.done = s.done, NEW kind \in {"value", "error", "aborted"}, NEW reply \in Reply
  PROVE  \E done : PopsTo(s, f, p, Popped(f, p, kind, reply), done) /\ IsOver(Head(s.queue[p]), kind, reply, done)
<1> DEFINE e == Head(s.queue[p])
           called == e.id \notin f.gone
           done == Done(e, kind, reply, called)
           queue == [f.queue EXCEPT ![p] = Tail(@)]
           over == [f.done EXCEPT ![p] = Append(@, done)]
           t == [f EXCEPT !.queue = queue, !.done = over]
<1>1. /\ s.queue \in [Process -> Seq(EctxSet)] /\ s.queue[p] \in Seq(EctxSet)
      /\ s.done \in [Process -> Seq(DoneSet)] /\ s.done[p] \in Seq(DoneSet)
  BY EmacsParts DEF Types
<1>2. e.id \in Request
  BY FirstRequest
<1>3. Fresh(e.want, reply) \in BOOLEAN /\ called \in BOOLEAN /\ (reply.of = e.id) \in BOOLEAN
  BY DEF Fresh
<1>4. /\ done \in DoneSet /\ done.id = e.id /\ done.kind = kind /\ done.own = (reply.of = e.id)
      /\ done.fresh = Fresh(e.want, reply)
  <2> DEFINE own == reply.of = e.id
             fresh == Fresh(e.want, reply)
  <2>1. done = [id |-> e.id, kind |-> kind, own |-> own, fresh |-> fresh, called |-> called]
    BY DEF Done
  <2>2. own \in BOOLEAN /\ fresh \in BOOLEAN /\ called \in BOOLEAN
    BY <1>3
  <2> HIDE DEF own, fresh, called, done, e
  <2>3. done \in DoneSet /\ done.id = e.id /\ done.kind = kind /\ done.own = own /\ done.fresh = fresh
    BY <1>2, <2>1, <2>2 DEF DoneSet
  <2> QED
    BY <2>3 DEF own, fresh
<1>5. Popped(f, p, kind, reply) = t
  BY DEF Popped, Pop
<1> HIDE DEF done
<1>6. queue \in [Process -> Seq(EctxSet)] /\ over \in [Process -> Seq(DoneSet)]
  <2>1. Tail(s.queue[p]) \in Seq(EctxSet) /\ Append(s.done[p], done) \in Seq(DoneSet)
    BY <1>1, <1>4, HeadAndTail
  <2> QED
    BY <1>1, <2>1
<1>7. queue = [s.queue EXCEPT ![p] = Tail(@)] /\ over = [s.done EXCEPT ![p] = Append(@, done)]
  OBVIOUS
<1> HIDE DEF queue, over
<1>8. t \in EmacsSet
  BY <1>6 DEF EmacsSet
<1>9. /\ t.queue = queue /\ t.done = over /\ t.unsaved = f.unsaved /\ t.temp = f.temp
      /\ t.process = f.process /\ t.made = f.made /\ t.requests = f.requests /\ t.gone = f.gone
      /\ t.mixed = f.mixed /\ t.output = f.output /\ t.mark = f.mark /\ t.pipe = f.pipe
  BY DEF EmacsSet
<1> HIDE DEF t, e
<1>10. PopsTo(s, f, p, t, done)
  BY <1>4, <1>7, <1>8, <1>9 DEF PopsTo, e
<1>11. IsOver(e, kind, reply, done)
  BY <1>4, Zenon DEF IsOver
<1> QED
  BY <1>5, <1>10, <1>11 DEF e

LEMMA PoppedQueue ==
  ASSUME NEW s, NEW srv, Types(s, srv), NEW t, NEW p, NEW done, IsPopped(s, t, p, done)
  PROVE  /\ t.queue[p] = Tail(s.queue[p]) /\ t.queue[p] \in Seq(EctxSet)
         /\ Head(s.queue[p]) = s.queue[p][1] /\ 1 \in DOMAIN s.queue[p]
         /\ \A i \in DOMAIN t.queue[p] :
              i \in Nat /\ i >= 1 /\ i + 1 \in DOMAIN s.queue[p] /\ t.queue[p][i] = s.queue[p][i + 1]
         /\ \A i \in DOMAIN s.queue[p] : i # 1 => i - 1 \in DOMAIN t.queue[p] /\ t.queue[p][i - 1] = s.queue[p][i]
         /\ \A q \in Process : q # p => t.queue[q] = s.queue[q] /\ t.done[q] = s.done[q]
         /\ t.done[p] = Append(s.done[p], done) /\ Len(s.done[p]) \in Nat
         /\ Len(s.done[p]) + 1 \in DOMAIN t.done[p] /\ t.done[p][Len(s.done[p]) + 1] = done
         /\ \A i \in DOMAIN s.done[p] : i \in DOMAIN t.done[p] /\ t.done[p][i] = s.done[p][i] /\ i <= Len(s.done[p])
         /\ \A i \in DOMAIN t.done[p] : i \in DOMAIN s.done[p] \/ i = Len(s.done[p]) + 1
<1>1. /\ s.queue[p] \in Seq(EctxSet) /\ s.queue \in [Process -> Seq(EctxSet)] /\ s.queue[p] # <<>>
      /\ s.done \in [Process -> Seq(DoneSet)] /\ s.done[p] \in Seq(DoneSet) /\ done \in DoneSet
      /\ t.queue = [s.queue EXCEPT ![p] = Tail(@)] /\ t.done = [s.done EXCEPT ![p] = Append(@, done)]
      /\ p \in Process
  BY EmacsParts DEF Types, IsPopped
<1>2. /\ t.queue[p] = Tail(s.queue[p]) /\ t.done[p] = Append(s.done[p], done)
      /\ \A q \in Process : q # p => t.queue[q] = s.queue[q] /\ t.done[q] = s.done[q]
  BY <1>1
<1>3. /\ Head(s.queue[p]) = s.queue[p][1] /\ 1 \in DOMAIN s.queue[p] /\ t.queue[p] \in Seq(EctxSet)
      /\ \A i \in DOMAIN t.queue[p] :
           i \in Nat /\ i >= 1 /\ i + 1 \in DOMAIN s.queue[p] /\ t.queue[p][i] = s.queue[p][i + 1]
      /\ Len(s.queue[p]) \in Nat /\ Len(t.queue[p]) = Len(s.queue[p]) - 1
  BY <1>1, <1>2, HeadAndTail
<1>4. \A i \in DOMAIN s.queue[p] : i # 1 => i - 1 \in DOMAIN t.queue[p] /\ t.queue[p][i - 1] = s.queue[p][i]
  <2>1. DOMAIN s.queue[p] = 1..Len(s.queue[p]) /\ DOMAIN t.queue[p] = 1..Len(t.queue[p])
    BY <1>1, <1>3, SeqElement
  <2>2. ASSUME NEW i \in DOMAIN s.queue[p], i # 1
        PROVE  i - 1 \in DOMAIN t.queue[p] /\ t.queue[p][i - 1] = s.queue[p][i]
    <3>1. i \in Nat /\ i > 1 /\ i <= Len(s.queue[p])
      BY <1>3, <2>1, <2>2
    <3>2. i - 1 \in DOMAIN t.queue[p] /\ (i - 1) + 1 = i
      BY <1>3, <2>1, <3>1
    <3> QED
      BY <1>3, <3>2
  <2> QED
    BY <2>2
<1>5. /\ Len(s.done[p]) \in Nat
      /\ Len(s.done[p]) + 1 \in DOMAIN t.done[p] /\ t.done[p][Len(s.done[p]) + 1] = done
      /\ \A i \in DOMAIN s.done[p] : i \in DOMAIN t.done[p] /\ t.done[p][i] = s.done[p][i]
      /\ \A i \in DOMAIN t.done[p] : i \in DOMAIN s.done[p] \/ i = Len(s.done[p]) + 1
  BY <1>1, <1>2, Appended
<1>6. \A i \in DOMAIN s.done[p] : i <= Len(s.done[p])
  BY <1>1
<1> QED
  BY <1>2, <1>3, <1>4, <1>5, <1>6

LEMMA PoppedTypes ==
  ASSUME NEW s, NEW srv, Types(s, srv), NEW t, NEW p, NEW done, IsPopped(s, t, p, done)
  PROVE  Types(t, srv)
<1>1. t \in EmacsSet /\ t.output = s.output /\ t.mark = s.mark /\ p \in Process
  BY DEF IsPopped
<1>2. ASSUME NEW q \in Process, NEW i \in DOMAIN t.queue[q] PROVE Shaped(t.queue[q][i])
  <2>1. CASE q # p
    BY <1>2, <2>1, PoppedQueue DEF Types
  <2>2. CASE q = p
    <3>1. i + 1 \in DOMAIN s.queue[p] /\ t.queue[q][i] = s.queue[p][i + 1]
      BY <1>2, <2>2, PoppedQueue
    <3> QED
      BY <1>1, <3>1 DEF Types
  <2> QED
    BY <2>1, <2>2
<1> QED
  BY <1>1, <1>2 DEF Types

LEMMA PoppedIds ==
  ASSUME NEW s, NEW srv, Types(s, srv), NEW t, NEW p, NEW done, IsPopped(s, t, p, done)
  PROVE  /\ DoneIds(t, p) = DoneIds(s, p) \cup {done.id}
         /\ QueueIds(s, p) = QueueIds(t, p) \cup {done.id}
         /\ \A q \in Process : Ids(t, q) = Ids(s, q)
         /\ \A q \in Process : q # p => DoneIds(t, q) = DoneIds(s, q) /\ QueueIds(t, q) = QueueIds(s, q)
<1>1. done.id = s.queue[p][1].id /\ 1 \in DOMAIN s.queue[p]
  <2>1. done.id = Head(s.queue[p]).id
    BY DEF IsPopped
  <2>2. Head(s.queue[p]) = s.queue[p][1] /\ 1 \in DOMAIN s.queue[p]
    BY PoppedQueue
  <2> QED
    BY <2>1, <2>2
<1>2. DoneIds(t, p) = DoneIds(s, p) \cup {done.id}
  BY PoppedQueue DEF DoneIds
<1>3. QueueIds(s, p) = QueueIds(t, p) \cup {done.id}
  <2>1. ASSUME NEW a \in QueueIds(s, p) PROVE a \in QueueIds(t, p) \cup {done.id}
    <3>1. PICK i \in DOMAIN s.queue[p] : a = s.queue[p][i].id
      BY <2>1 DEF QueueIds
    <3>2. i = 1 \/ (i - 1 \in DOMAIN t.queue[p] /\ t.queue[p][i - 1] = s.queue[p][i])
      BY PoppedQueue
    <3> QED
      BY <1>1, <3>1, <3>2 DEF QueueIds
  <2>2. ASSUME NEW a \in QueueIds(t, p) PROVE a \in QueueIds(s, p)
    <3>1. PICK i \in DOMAIN t.queue[p] : a = t.queue[p][i].id
      BY <2>2 DEF QueueIds
    <3>2. i + 1 \in DOMAIN s.queue[p] /\ t.queue[p][i] = s.queue[p][i + 1]
      BY PoppedQueue
    <3> QED
      BY <3>1, <3>2 DEF QueueIds
  <2>3. done.id \in QueueIds(s, p)
    BY <1>1 DEF QueueIds
  <2> QED
    BY <2>1, <2>2, <2>3
<1>4. \A q \in Process : q # p => DoneIds(t, q) = DoneIds(s, q) /\ QueueIds(t, q) = QueueIds(s, q)
  BY PoppedQueue DEF DoneIds, QueueIds
<1>5. \A q \in Process : Ids(t, q) = Ids(s, q)
  <2>1. Ids(t, p) = Ids(s, p)
    BY <1>2, <1>3 DEF Ids
  <2> QED
    BY <1>4, <2>1 DEF Ids
<1> QED
  BY <1>2, <1>3, <1>4, <1>5

LEMMA PoppedOrdered ==
  ASSUME NEW s, NEW srv, Types(s, srv), NEW t, NEW p, NEW done, IsPopped(s, t, p, done), Ordered(s)
  PROVE  /\ Ordered(t) /\ done.id \notin DoneIds(s, p)
         /\ \A i \in DOMAIN t.queue[p] : ~t.queue[p][i].started
<1>1. t.requests = s.requests /\ p \in Process /\ done.id = s.queue[p][1].id
  BY PoppedQueue DEF IsPopped
<1>2. /\ \A a \in DoneIds(s, p) : a < done.id
      /\ \A b \in QueueIds(t, p) : done.id < b
  <2>1. \A a \in DoneIds(s, p) : a < done.id
    <3>1. done.id \in QueueIds(s, p)
      BY PoppedIds
    <3> QED
      BY <1>1, <3>1 DEF Ordered
  <2>2. ASSUME NEW b \in QueueIds(t, p) PROVE done.id < b
    <3>1. PICK i \in DOMAIN t.queue[p] : b = t.queue[p][i].id
      BY DEF QueueIds
    <3>2. i \in Nat /\ i >= 1 /\ i + 1 \in DOMAIN s.queue[p] /\ t.queue[p][i] = s.queue[p][i + 1] /\ 1 \in DOMAIN s.queue[p]
      BY PoppedQueue
    <3>3. 1 < i + 1
      BY <3>2
    <3>4. s.queue[p][1].id < s.queue[p][i + 1].id
      BY <1>1, <3>2, <3>3 DEF Ordered
    <3> QED
      BY <1>1, <3>1, <3>2, <3>4
  <2> QED
    BY <2>1, <2>2
<1>3. ASSUME NEW q \in Process, NEW i \in DOMAIN t.queue[q], NEW j \in DOMAIN t.queue[q], i < j
      PROVE  t.queue[q][i].id < t.queue[q][j].id
  <2>1. CASE q # p
    BY <1>3, <2>1, PoppedQueue DEF Ordered
  <2>2. CASE q = p
    <3>1. i + 1 \in DOMAIN s.queue[p] /\ j + 1 \in DOMAIN s.queue[p] /\ i \in Nat /\ j \in Nat
          /\ t.queue[q][i] = s.queue[p][i + 1] /\ t.queue[q][j] = s.queue[p][j + 1]
      BY <1>3, <2>2, PoppedQueue
    <3>2. i + 1 < j + 1
      BY <1>3, <3>1
    <3> QED
      BY <1>1, <3>1, <3>2 DEF Ordered
  <2> QED
    BY <2>1, <2>2
<1>4. ASSUME NEW q \in Process, NEW i \in DOMAIN t.done[q], NEW j \in DOMAIN t.done[q], i < j
      PROVE  t.done[q][i].id < t.done[q][j].id
  <2>1. CASE q # p
    BY <1>4, <2>1, PoppedQueue DEF Ordered
  <2>2. CASE q = p /\ j \in DOMAIN s.done[p]
    <3>1. i \in DOMAIN s.done[p]
      BY <1>4, <2>2, PoppedQueue
    <3> QED
      BY <1>4, <2>2, <3>1, PoppedQueue DEF Ordered
  <2>3. CASE q = p /\ j \notin DOMAIN s.done[p]
    <3>1. j = Len(s.done[p]) + 1 /\ t.done[p][j] = done
      BY <1>4, <2>3, PoppedQueue
    <3>2. i \in DOMAIN s.done[p] /\ t.done[p][i] = s.done[p][i]
      BY <1>4, <2>3, <3>1, PoppedQueue
    <3>3. s.done[p][i].id \in DoneIds(s, p)
      BY <3>2 DEF DoneIds
    <3> QED
      BY <1>2, <2>3, <3>1, <3>2, <3>3
  <2> QED
    BY <2>1, <2>2, <2>3
<1>5. \A q \in Process : \A a \in DoneIds(t, q), b \in QueueIds(t, q) : a < b
  <2>1. \A a \in DoneIds(t, p), b \in QueueIds(t, p) : a < b
    <3>1. \A b \in QueueIds(t, p) : b \in QueueIds(s, p)
      BY PoppedIds
    <3> QED
      BY <1>1, <1>2, <3>1, PoppedIds DEF Ordered
  <2> QED
    BY <2>1, PoppedIds DEF Ordered
<1>6. \A i \in DOMAIN t.queue[p] : ~t.queue[p][i].started
  <2> SUFFICES ASSUME NEW i \in DOMAIN t.queue[p] PROVE ~t.queue[p][i].started
    OBVIOUS
  <2>1. i \in Nat /\ i >= 1 /\ i + 1 \in DOMAIN s.queue[p] /\ t.queue[p][i] = s.queue[p][i + 1]
    BY PoppedQueue
  <2>2. i + 1 # 1
    BY <2>1
  <2> QED
    BY <1>1, <2>1, <2>2 DEF Ordered
<1>7. \A q \in Process : \A i \in DOMAIN t.queue[q] : t.queue[q][i].started => i = 1
  BY <1>6, PoppedQueue DEF Ordered
<1>8. /\ \A q \in Process : \A a \in Ids(t, q) : a <= t.requests
      /\ \A q, r \in Process : q # r => Ids(t, q) \cap Ids(t, r) = {}
      /\ \A r \in 1..t.requests : \E q \in Process : r \in Ids(t, q)
  BY <1>1, PoppedIds DEF Ordered
<1>9. Ordered(t)
  BY <1>3, <1>4, <1>5, <1>7, <1>8 DEF Ordered
<1>10. done.id \notin DoneIds(s, p)
  <2>1. done.id \in Int
    BY DEF IsPopped, DoneSet, Request
  <2> QED
    BY <1>2, <2>1
<1> QED
  BY <1>6, <1>9, <1>10

LEMMA PoppedProcesses ==
  ASSUME NEW s, NEW srv, Types(s, srv), NEW t, NEW p, NEW done, IsPopped(s, t, p, done), Processes(s, srv)
  PROVE  Processes(t, srv)
<1>1. /\ p \in Process /\ s.queue[p] # <<>> /\ t.pipe = s.pipe /\ t.process = s.process /\ t.made = s.made
      /\ s.unsaved \in [Process -> BufferState \cup {NoState}]
  BY EmacsParts DEF Types, IsPopped
<1>2. \A q \in Process : q # p => t.unsaved[q] = s.unsaved[q]
  BY <1>1 DEF IsPopped
<1>3. \A q \in Process : q # p => t.queue[q] = s.queue[q] /\ t.done[q] = s.done[q]
  BY PoppedQueue
<1>4. ~(p > s.made)
  BY <1>1 DEF Processes
<1> QED
  BY <1>1, <1>2, <1>3, <1>4 DEF Processes

LEMMA PoppedTempFiles ==
  ASSUME NEW s, NEW srv, Types(s, srv), NEW t, NEW p, NEW done, IsPopped(s, t, p, done), TempFiles(s)
  PROVE  TempFiles(t)
<1>1. p \in Process /\ done.id = Head(s.queue[p]).id
  BY DEF IsPopped
<1>2. ASSUME NEW r \in t.temp
      PROVE  r \in s.temp /\ (Head(s.queue[p]).id = r /\ Task(s, p).kind = "set-unsaved" => done.kind = "aborted")
  BY <1>1, <1>2 DEF IsPopped
<1>3. \A q \in Process : \A i \in DOMAIN s.done[q] : i \in DOMAIN t.done[q] /\ t.done[q][i] = s.done[q][i]
  BY PoppedQueue
<1>4. ASSUME NEW r \in t.temp
      PROVE  \E q \in Process :
               \/ t.queue[q] # <<>> /\ Head(t.queue[q]).id = r /\ Task(t, q).kind = "set-unsaved"
               \/ \E i \in DOMAIN t.done[q] : t.done[q][i].id = r /\ t.done[q][i].kind = "aborted"
  <2>1. PICK q \in Process :
               \/ s.queue[q] # <<>> /\ Head(s.queue[q]).id = r /\ Task(s, q).kind = "set-unsaved"
               \/ \E i \in DOMAIN s.done[q] : s.done[q][i].id = r /\ s.done[q][i].kind = "aborted"
    BY <1>2 DEF TempFiles
  <2>2. CASE \E i \in DOMAIN s.done[q] : s.done[q][i].id = r /\ s.done[q][i].kind = "aborted"
    BY <1>3, <2>2
  <2>3. CASE s.queue[q] # <<>> /\ Head(s.queue[q]).id = r /\ Task(s, q).kind = "set-unsaved"
    <3>1. CASE q # p
      <4>1. t.queue[q] = s.queue[q]
        BY <3>1, PoppedQueue
      <4> QED
        BY <2>3, <4>1 DEF Task
    <3>2. CASE q = p
      <4>1. done.id = r /\ done.kind = "aborted"
        BY <1>1, <1>2, <2>3, <3>2
      <4>2. Len(s.done[p]) + 1 \in DOMAIN t.done[p] /\ t.done[p][Len(s.done[p]) + 1] = done
        BY PoppedQueue
      <4> QED
        BY <1>1, <4>1, <4>2
    <3> QED
      BY <3>1, <3>2
  <2> QED
    BY <2>1, <2>2, <2>3
<1> QED
  BY <1>4 DEF TempFiles

(* A process whose first request leaves has nothing under way.              *)
LEMMA PoppedFlow ==
  ASSUME NEW s, NEW srv, Types(s, srv), NEW t, NEW p, NEW done, IsPopped(s, t, p, done), Ordered(s),
         NEW X, X \subseteq {p}, Flow(s, srv, X),
         p = s.made => s.pipe[p] = <<>> /\ srv[p].out = <<>> /\ srv[p].busy = Nothing
  PROVE  Flow(t, srv, {}) /\ Quiet(t, p, {})
<1> DEFINE m == s.made
<1>1. /\ p \in Process /\ t.output = s.output /\ t.mark = s.mark /\ t.pipe = s.pipe /\ t.made = m
      /\ m \in 0..MaxProcess
  BY EmacsParts DEF Types, IsPopped
<1>2. Quiet(t, p, {})
  <2>1. t.queue[p] \in Seq(EctxSet) /\ \A i \in DOMAIN t.queue[p] : ~t.queue[p][i].started
    BY PoppedQueue, PoppedOrdered
  <2> SUFFICES ASSUME t.queue[p] # <<>> PROVE ~Head(t.queue[p]).started
    BY DEF Quiet
  <2> QED
    BY <2>1, HeadAndTail
<1>3. ASSUME m # 0 PROVE Flow(t, srv, {})
  <2>1. m \in Process
    BY <1>1, <1>3, NatBounds DEF Process
  <2>2. CASE p = m
    <3>1. t.mark[m] = Len(t.output)
      BY <1>1, <1>3 DEF Flow
    <3> QED
      BY <1>1, <1>2, <2>2, <3>1 DEF Flow
  <2>3. CASE p # m
    <3>1. t.queue[m] = s.queue[m]
      BY <2>1, <2>3, PoppedQueue
    <3>2. Quiet(t, m, {}) <=> Quiet(s, m, X)
      BY <2>3, <3>1 DEF Quiet
    <3>3. /\ Sent(s, srv, m) => Sent(t, srv, m)
          /\ Answering(s, srv, m) => Answering(t, srv, m)
          /\ Cut(s, srv, m) => Cut(t, srv, m)
      BY <1>1, <3>1 DEF Sent, Answering, Cut, Right, Task
    <3> QED
      BY <1>1, <1>3, <3>2, <3>3 DEF Flow
  <2> QED
    BY <2>2, <2>3
<1> QED
  BY <1>1, <1>2, <1>3 DEF Flow

LEMMA PoppedRanked ==
  ASSUME NEW s, NEW srv, Types(s, srv), NEW t, NEW p, NEW done, IsPopped(s, t, p, done),
         NEW b, Ranked(s, p, b)
  PROVE  Ranked(t, p, b)
<1>1. t.unsaved[p] = s.unsaved[p] \/ t.unsaved[p] = NoState
  <2>1. s.unsaved \in [Process -> BufferState \cup {NoState}] /\ p \in Process
    BY EmacsParts DEF Types, IsPopped
  <2> QED
    BY <2>1 DEF IsPopped
<1>2. \A i \in DOMAIN t.queue[p] : i + 1 \in DOMAIN s.queue[p] /\ t.queue[p][i] = s.queue[p][i + 1] /\ i \in Nat
  BY PoppedQueue
<1>3. \A i, j \in DOMAIN t.queue[p] : i < j => i + 1 < j + 1
  BY <1>2
<1> QED
  BY <1>1, <1>2, <1>3 DEF Ranked

LEMMA PoppedPromised ==
  ASSUME NEW s, NEW srv, Types(s, srv), NEW t, NEW p, NEW done, IsPopped(s, t, p, done),
         NEW d, NEW i \in DOMAIN t.queue[p], Promised(s, p, i + 1, d)
  PROVE  Promised(t, p, i, d)
<1>1. /\ i \in Nat /\ i >= 1 /\ i + 1 \in DOMAIN s.queue[p] /\ t.queue[p][i] = s.queue[p][i + 1]
      /\ Task(s, p) = s.queue[p][1].tasks[1] /\ p \in Process
  <2>1. s.queue[p] # <<>> /\ p \in Process
    BY DEF IsPopped
  <2>2. Task(s, p) = s.queue[p][1].tasks[1]
    BY <2>1, FirstRequest
  <2> QED
    BY <2>1, <2>2, PoppedQueue
<1>2. \A j \in 1..(i - 1) : j + 1 \in 1..i /\ t.queue[p][j] = s.queue[p][j + 1]
  <2>1. t.queue[p] \in Seq(EctxSet)
    BY PoppedQueue
  <2>2. \A j \in 1..(i - 1) : j \in DOMAIN t.queue[p]
    BY <1>1, <2>1
  <2> QED
    BY <1>1, <2>2, PoppedQueue
<1>3. (i + 1) - 1 = i /\ 1 \in 1..i
  BY <1>1
<1>4. s.unsaved \in [Process -> BufferState \cup {NoState}]
  BY <1>1, EmacsParts DEF Types
<1> DEFINE e == s.queue[p][i + 1]
<1>5. CASE e.want.untold \/ e.tasks[1].kind = "set-unsaved" \/ (e.tasks[1].kind = "reset-unsaved" /\ e.want.tick <= d)
  BY <1>1, <1>5 DEF Promised
<1>6. CASE /\ e.tasks[1].kind = "parse" /\ e.want.tick <= d /\ s.unsaved[p] = NoState
           /\ {j \in 1..i : s.queue[p][j].tasks[1].kind = "set-unsaved"} = {}
  <2>1. t.unsaved[p] = NoState
    BY <1>1, <1>4, <1>6 DEF IsPopped
  <2>2. {j \in 1..(i - 1) : t.queue[p][j].tasks[1].kind = "set-unsaved"} = {}
    BY <1>2, <1>6
  <2> QED
    BY <1>1, <1>6, <2>1, <2>2 DEF Promised
<1>7. CASE /\ e.tasks[1].kind = "parse" /\ s.unsaved[p] # NoState /\ s.unsaved[p].tick >= e.want.tick
           /\ {j \in 1..i : s.queue[p][j].tasks[1].kind = "reset-unsaved"} = {}
           /\ \A j \in {k \in 1..i : s.queue[p][k].tasks[1].kind = "set-unsaved"} :
                s.queue[p][j].tasks[1].state.tick >= e.want.tick
  <2>1. s.queue[p][1].tasks[1].kind # "reset-unsaved"
    BY <1>3, <1>7
  <2>2. t.unsaved = s.unsaved
    BY <1>1, <2>1 DEF IsPopped
  <2>3. {j \in 1..(i - 1) : t.queue[p][j].tasks[1].kind = "reset-unsaved"} = {}
    BY <1>2, <1>7
  <2>4. \A j \in {k \in 1..(i - 1) : t.queue[p][k].tasks[1].kind = "set-unsaved"} :
          t.queue[p][j].tasks[1].state.tick >= e.want.tick
    BY <1>2, <1>7
  <2> QED
    BY <1>1, <1>7, <2>2, <2>3, <2>4 DEF Promised
<1>8. \/ e.want.untold \/ e.tasks[1].kind = "set-unsaved" \/ (e.tasks[1].kind = "reset-unsaved" /\ e.want.tick <= d)
      \/ /\ e.tasks[1].kind = "parse" /\ e.want.tick <= d /\ s.unsaved[p] = NoState
         /\ {j \in 1..i : s.queue[p][j].tasks[1].kind = "set-unsaved"} = {}
      \/ /\ e.tasks[1].kind = "parse" /\ s.unsaved[p] # NoState /\ s.unsaved[p].tick >= e.want.tick
         /\ {j \in 1..i : s.queue[p][j].tasks[1].kind = "reset-unsaved"} = {}
         /\ \A j \in {k \in 1..i : s.queue[p][k].tasks[1].kind = "set-unsaved"} :
              s.queue[p][j].tasks[1].state.tick >= e.want.tick
  BY <1>3 DEF Promised
<1> QED
  BY <1>5, <1>6, <1>7, <1>8

LEMMA PoppedTold ==
  ASSUME NEW s, NEW srv, Types(s, srv), NEW t, NEW p, NEW done, IsPopped(s, t, p, done),
         NEW b, NEW d, Told(s, srv, b, d), Ordered(s),
         p = s.made /\ srv[p].alive /\ ~srv[p].unread =>
           /\ done.kind # "aborted" /\ Task(s, p).kind # "set-unsaved"
           /\ Head(s.queue[p]).started /\ s.pipe[p] = <<>>
  PROVE  Told(t, srv, b, d)
<1> DEFINE m == s.made
<1>1. p \in Process /\ s.queue[p] # <<>> /\ t.pipe = s.pipe /\ t.made = m /\ m \in 0..MaxProcess
      /\ s.unsaved \in [Process -> BufferState \cup {NoState}]
  BY EmacsParts DEF Types, IsPopped
<1> SUFFICES ASSUME m # 0 PROVE Told(t, srv, b, d)
  BY <1>1 DEF Told
<1>2. m \in Process
  BY <1>1, NatBounds DEF Process
<1>3. Ranked(s, m, b) /\ OnRecord(s, srv, m)
      /\ (srv[m].unread \/ \A i \in DOMAIN s.queue[m] : Promised(s, m, i, d))
  BY DEF Told
<1>4. CASE p # m
  <2>1. t.queue[m] = s.queue[m] /\ t.unsaved[m] = s.unsaved[m]
    BY <1>1, <1>2, <1>4, PoppedQueue, SMTT(90) DEF IsPopped
  <2>2. Ranked(t, m, b)
    BY <1>3, <2>1 DEF Ranked
  <2>3. OnRecord(t, srv, m)
    BY <1>1, <1>3, <2>1 DEF OnRecord, Task
  <2>4. srv[m].unread \/ \A i \in DOMAIN t.queue[m] : Promised(t, m, i, d)
    BY <1>3, <2>1, ZenonT(60) DEF Promised
  <2> QED
    BY <1>1, <2>2, <2>3, <2>4 DEF Told
<1>5. CASE p = m
  <2>1. Ranked(t, m, b)
    BY <1>3, <1>5, PoppedRanked
  <2>2. ASSUME ~srv[m].unread, NEW i \in DOMAIN t.queue[m] PROVE Promised(t, m, i, d)
    <3>1. i + 1 \in DOMAIN s.queue[p]
      BY <1>5, <2>2, PoppedQueue
    <3>2. Promised(s, p, i + 1, d)
      BY <1>3, <1>5, <2>2, <3>1
    <3> QED
      BY <1>5, <2>2, <3>2, PoppedPromised
  <2>3. OnRecord(t, srv, m)
    <3>1. SUFFICES ASSUME srv[m].alive, ~srv[m].unread PROVE OnRecord(t, srv, m)
      BY DEF OnRecord
    <3>2. /\ done.kind # "aborted" /\ Task(s, m).kind # "set-unsaved"
          /\ Head(s.queue[m]).started /\ s.pipe[m] = <<>>
      BY <1>5, <3>1
    <3>3. t.queue[m] \in Seq(EctxSet) /\ \A i \in DOMAIN t.queue[m] : t.queue[m][i] = s.queue[m][i + 1]
      BY <1>5, PoppedQueue
    <3>4. t.queue[m] # <<>> => ~Head(t.queue[m]).started
      <4>1. \A i \in DOMAIN t.queue[m] : ~t.queue[m][i].started
        BY <1>5, PoppedOrdered
      <4> QED
        BY <3>3, <4>1, HeadAndTail
    <3>5. srv[m].text # 0 => s.unsaved[m] # NoState
      BY <1>3, <3>1, <3>2 DEF OnRecord
    <3>6. CASE Task(s, m).kind = "reset-unsaved"
      <4>1. t.unsaved[m] = NoState
        BY <1>1, <1>5, <3>2, <3>6 DEF IsPopped
      <4>2. srv[m].text = 0
        BY <1>1, <1>3, <1>5, <3>1, <3>2, <3>6 DEF OnRecord
      <4> QED
        BY <3>4, <4>1, <4>2 DEF OnRecord
    <3>7. CASE Task(s, m).kind # "reset-unsaved"
      <4>1. t.unsaved = s.unsaved
        BY <1>5, <3>7 DEF IsPopped
      <4>2. s.unsaved[m] # NoState => srv[m].text >= s.unsaved[m].tick
        BY <1>3, <3>1, <3>7 DEF OnRecord
      <4> QED
        BY <3>4, <3>5, <4>1, <4>2 DEF OnRecord
    <3> QED
      BY <3>6, <3>7
  <2> QED
    BY <1>1, <2>1, <2>2, <2>3 DEF Told
<1> QED
  BY <1>4, <1>5

LEMMA PoppedAnswered ==
  ASSUME NEW s, NEW srv, Types(s, srv), NEW t, NEW p, NEW done, IsPopped(s, t, p, done), Answered(s, srv),
         done.kind = "value" => done.own /\ (done.fresh \/ srv[p].unread)
  PROVE  Answered(t, srv)
<1> SUFFICES ASSUME NEW q \in Process, NEW i \in DOMAIN t.done[q], t.done[q][i].kind = "value"
             PROVE  t.done[q][i].own /\ (t.done[q][i].fresh \/ srv[q].unread)
  BY DEF Answered
<1>1. CASE q # p
  BY <1>1, PoppedQueue DEF Answered
<1>2. CASE q = p
  <2>1. t.done[p][i] = done \/ (i \in DOMAIN s.done[p] /\ t.done[p][i] = s.done[p][i])
    BY <1>2, PoppedQueue
  <2> QED
    BY <1>2, <2>1 DEF Answered
<1> QED
  BY <1>1, <1>2

----------------------------------------------------------------------------
(* What a callback leaves: Emacs' state, and a call for the process of a    *)
(* new request that is the only one of its queue.                           *)

(* The requests that are over.                                              *)
Over(s) == {r \in Request : \E p \in Process : r \in DoneIds(s, p)}

LEMMA PoppedOver ==
  ASSUME NEW s, NEW srv, Types(s, srv), NEW t, NEW p, NEW done, IsPopped(s, t, p, done), Ordered(s)
  PROVE  Over(t) = Over(s) \cup {done.id} /\ done.id \in Request \ Over(s)
<1>1. p \in Process /\ done.id \in Request
  BY DEF IsPopped, DoneSet
<1>2. done.id \in Ids(s, p)
  BY PoppedIds DEF Ids
<1>3. done.id \notin Over(s)
  <2>1. ASSUME NEW q \in Process, done.id \in DoneIds(s, q) PROVE FALSE
    <3>1. done.id \in Ids(s, q)
      BY <2>1 DEF Ids
    <3>2. q = p
      BY <1>1, <1>2, <3>1 DEF Ordered
    <3> QED
      BY <2>1, <3>2, PoppedOrdered
  <2> QED
    BY <2>1 DEF Over
<1>4. \A r : (\E q \in Process : r \in DoneIds(t, q)) <=> (r = done.id \/ \E q \in Process : r \in DoneIds(s, q))
  BY <1>1, PoppedIds
<1> QED
  BY <1>1, <1>3, <1>4 DEF Over

LEMMA OverBounded ==
  ASSUME NEW s
  PROVE  /\ IsFiniteSet(Over(s)) /\ Cardinality(Over(s)) \in Nat /\ Cardinality(Over(s)) <= MaxRequest
         /\ \A r \in Request \ Over(s) : Cardinality(Over(s) \cup {r}) = Cardinality(Over(s)) + 1
<1>1. IsFiniteSet(Request) /\ Cardinality(Request) = MaxRequest
  <2>1. MaxRequest \in Nat /\ MaxRequest \in Int /\ 1 \in Int
    BY NatBounds
  <2>2. IsFiniteSet(1..MaxRequest) /\ Cardinality(1..MaxRequest) = (IF 1 > MaxRequest THEN 0 ELSE MaxRequest - 1 + 1)
    BY <2>1, FS_Interval
  <2> QED
    BY <2>1, <2>2 DEF Request
<1>2. Over(s) \subseteq Request
  BY DEF Over
<1>3. IsFiniteSet(Over(s)) /\ Cardinality(Over(s)) <= MaxRequest
  BY <1>1, <1>2, FS_Subset
<1>4. Cardinality(Over(s)) \in Nat
  BY <1>3, FS_CardinalityType
<1>5. \A r \in Request \ Over(s) : Cardinality(Over(s) \cup {r}) = Cardinality(Over(s)) + 1
  BY <1>3, FS_AddElement
<1> QED
  BY <1>3, <1>4, <1>5

Added(s, st) ==
  LET t == st.emacs
  IN  /\ t.output = s.output /\ t.mixed = s.mixed /\ t.done = s.done
      /\ Quiet(s, s.made, {}) => Quiet(t, t.made, {})
      /\ \/ /\ st.calls = <<>> /\ \A q \in Process : Idle(t, q) => Idle(s, q)
         \/ /\ st.calls = <<Call("schedule", t.made)>> /\ t.made \in Process /\ Idle(t, t.made)
            /\ \A q \in Process : Idle(t, q) => Idle(s, q) \/ q = t.made

LEMMA Scheduled ==
  ASSUME NEW s, NEW srv, Inv(s, srv, buffer, disk, {}), Agree(srv), MayAsk(s)
  PROVE  /\ Inv(Schedule(s).emacs, srv, buffer, disk, {}) /\ Added(s, Schedule(s))
         /\ Schedule(s) = Remains(Schedule(s).emacs, Schedule(s).calls)
<1> DEFINE t == Asked(s)
           st == Schedule(s)
<1>1. Types(s, srv) /\ Ordered(s) /\ Processes(s, srv) /\ TempFiles(s) /\ Buffers(buffer, disk)
      /\ (~s.mixed => Flow(s, srv, {}) /\ Told(s, srv, buffer, disk) /\ Answered(s, srv))
  BY DEF Inv
<1>2. PICK q, e : IsAsked(s, srv, t, q, e)
  BY <1>1, NewRequest DEF Buffers
<1>3. st = Remains(t, IF StartsNow(t.queue[t.process]) THEN <<Call("schedule", t.process)>> ELSE <<>>)
  BY DEF Schedule, Asked
<1> HIDE DEF t, st
<1>4. /\ t.process = q /\ t.made = q /\ t.output = s.output /\ t.mixed = s.mixed /\ t.done = s.done
      /\ q \in Process /\ e \in EctxSet /\ ~e.started /\ t.queue = [s.queue EXCEPT ![q] = Append(@, e)]
      /\ (q = s.made \/ q = s.made + 1)
  BY <1>2 DEF IsAsked
<1>5. /\ st.emacs = t /\ st.calls = (IF StartsNow(t.queue[q]) THEN <<Call("schedule", q)>> ELSE <<>>)
      /\ st = Remains(st.emacs, st.calls)
  BY <1>3, <1>4 DEF Remains
<1>6. Inv(t, srv, buffer, disk, {})
  <2>1. Types(t, srv) /\ Ordered(t) /\ Processes(t, srv) /\ TempFiles(t)
    BY <1>1, <1>2, AskedTypes, AskedOrdered, AskedProcesses, AskedTempFiles
  <2>2. ASSUME ~t.mixed PROVE Flow(t, srv, {}) /\ Told(t, srv, buffer, disk) /\ Answered(t, srv)
    <3>1. Flow(s, srv, {}) /\ Told(s, srv, buffer, disk) /\ Answered(s, srv)
      BY <1>1, <1>4, <2>2
    <3>2. Flow(t, srv, {}) /\ Told(t, srv, buffer, disk)
      BY <1>1, <1>2, <3>1, AskedFlow, AskedTold
    <3>3. Answered(t, srv)
      BY <1>4, <3>1 DEF Answered
    <3> QED
      BY <3>2, <3>3
  <2> QED
    BY <1>1, <2>1, <2>2 DEF Inv
<1>7. /\ s.queue \in [Process -> Seq(EctxSet)] /\ s.queue[q] \in Seq(EctxSet)
      /\ t.queue[q] = Append(s.queue[q], e)
      /\ \A r \in Process : r # q => t.queue[r] = s.queue[r]
  <2>1. s.queue \in [Process -> Seq(EctxSet)] /\ s.queue[q] \in Seq(EctxSet)
    BY <1>1, <1>4, EmacsParts DEF Types
  <2> QED
    BY <1>4, <2>1
<1>8. Added(s, st)
  <2>1. CASE s.queue[q] = <<>>
    <3>1. StartsNow(t.queue[q])
      BY <1>4, <1>7, <2>1 DEF StartsNow
    <3>2. Idle(t, q)
      <4>1. t.queue[q] # <<>> /\ Head(t.queue[q]) = e
        BY <1>4, <1>7, <2>1, Appended, AppendedHead
      <4> QED
        BY <1>4, <4>1 DEF Idle
    <3>3. \A r \in Process : Idle(t, r) => Idle(s, r) \/ r = q
      BY <1>7 DEF Idle
    <3>4. Quiet(t, q, {})
      BY <3>2 DEF Quiet, Idle
    <3> QED
      BY <1>4, <1>5, <3>1, <3>2, <3>3, <3>4 DEF Added
  <2>2. CASE s.queue[q] # <<>>
    <3>1. ~StartsNow(t.queue[q])
      <4>1. Len(t.queue[q]) = Len(s.queue[q]) + 1
        BY <1>4, <1>7, Appended
      <4>2. Len(s.queue[q]) \in Nat /\ Len(s.queue[q]) >= 1
        BY <1>7, <2>2, HeadAndTail
      <4> QED
        BY <4>1, <4>2 DEF StartsNow
    <3>2. Head(t.queue[q]) = Head(s.queue[q])
      BY <1>4, <1>7, <2>2, AppendedHead
    <3>3. \A r \in Process : Idle(t, r) => Idle(s, r)
      BY <1>7, <2>2, <3>2 DEF Idle
    <3>4. q = s.made
      <4>1. q = s.made + 1 => q > s.made
        BY <1>1, <1>4, EmacsParts DEF Types
      <4> QED
        BY <1>1, <1>4, <2>2, <4>1 DEF Processes
    <3>5. Quiet(s, q, {}) => Quiet(t, q, {})
      BY <2>2, <3>2 DEF Quiet
    <3> QED
      BY <1>4, <1>5, <3>1, <3>3, <3>4, <3>5 DEF Added
  <2> QED
    BY <2>1, <2>2
<1> QED
  BY <1>5, <1>6, <1>8 DEF st

LEMMA CalledBack ==
  ASSUME NEW s, NEW srv, Inv(s, srv, buffer, disk, {}), Agree(srv), NEW r
  PROVE  /\ Inv(Callback(s, r).emacs, srv, buffer, disk, {}) /\ Added(s, Callback(s, r))
         /\ Callback(s, r) = Remains(Callback(s, r).emacs, Callback(s, r).calls)
<1>1. CASE r \notin s.gone /\ r \in Again /\ MayAsk(s)
  BY <1>1, Scheduled DEF Callback
<1>2. CASE ~(r \notin s.gone /\ r \in Again /\ MayAsk(s))
  <2>1. Callback(s, r) = Remains(s, <<>>)
    BY <1>2 DEF Callback
  <2>2. Remains(s, <<>>).emacs = s /\ Remains(s, <<>>).calls = <<>>
    BY DEF Remains
  <2> QED
    BY <2>1, <2>2 DEF Added
<1> QED
  BY <1>1, <1>2

StateSet == [emacs : EmacsSet, calls : Seq(CallSet)]

LEMMA CalledThen ==
  ASSUME NEW s, NEW srv, Inv(s, srv, buffer, disk, {}), Agree(srv), NEW r, NEW call \in CallSet
  PROVE  LET st == CallbackThen(s, r, call)
             t == st.emacs
         IN  /\ st \in StateSet /\ Inv(t, srv, buffer, disk, {})
             /\ t.output = s.output /\ t.mixed = s.mixed /\ Over(t) = Over(s)
             /\ Quiet(s, s.made, {}) => Quiet(t, t.made, {})
             /\ \/ /\ st.calls = <<call>> /\ \A q \in Process : Idle(t, q) => Idle(s, q)
                \/ /\ st.calls = <<Call("schedule", t.made), call>> /\ t.made \in Process /\ Idle(t, t.made)
                   /\ \A q \in Process : Idle(t, q) => Idle(s, q) \/ q = t.made
<1> DEFINE cb == Callback(s, r)
           st == CallbackThen(s, r, call)
           t == cb.emacs
           first == Call("schedule", t.made)
<1>1. Inv(t, srv, buffer, disk, {}) /\ Added(s, cb) /\ cb = Remains(t, cb.calls)
  BY CalledBack
<1>2. st = [cb EXCEPT !.calls = Append(@, call)]
  BY DEF CallbackThen
<1> HIDE DEF cb, st, first
<1>3. st = Remains(t, Append(cb.calls, call))
  BY <1>1, <1>2 DEF Remains
<1>4. st.emacs = t /\ st.calls = Append(cb.calls, call)
  BY <1>3 DEF Remains
<1>5. /\ t \in EmacsSet /\ t.output = s.output /\ t.mixed = s.mixed /\ Over(t) = Over(s)
      /\ Quiet(s, s.made, {}) => Quiet(t, t.made, {})
  BY <1>1 DEF Inv, Types, Added, Over, DoneIds
<1>6. CASE cb.calls = <<>>
  <2>1. st.calls = <<call>> /\ st.calls \in Seq(CallSet)
    BY <1>4, <1>6
  <2>2. \A q \in Process : Idle(t, q) => Idle(s, q)
    <3>1. <<Call("schedule", t.made)>> # <<>>
      OBVIOUS
    <3> QED
      BY <1>1, <1>6, <3>1 DEF Added
  <2>3. st \in StateSet
    BY <1>3, <1>4, <1>5, <2>1 DEF StateSet, Remains
  <2> QED
    BY <1>1, <1>4, <1>5, <2>1, <2>2, <2>3 DEF st
<1>7. CASE cb.calls = <<first>> /\ t.made \in Process /\ Idle(t, t.made)
           /\ \A q \in Process : Idle(t, q) => Idle(s, q) \/ q = t.made
  <2>1. first \in CallSet
    BY <1>7 DEF first, Call, CallSet
  <2>2. st.calls = <<first, call>>
    BY <1>4, <1>7, <2>1, AppendPair
  <2>3. st.calls \in Seq(CallSet)
    BY <2>1, <2>2
  <2>4. st \in StateSet
    BY <1>3, <1>4, <1>5, <2>3 DEF StateSet, Remains
  <2> QED
    BY <1>1, <1>4, <1>5, <1>7, <2>2, <2>4 DEF st, first
<1> QED
  BY <1>1, <1>6, <1>7 DEF Added, first

----------------------------------------------------------------------------
(* Calls that remain to be made. They are right to make, and one remains    *)
(* for each process that is idle.                                           *)

Chosen(calls) == IF calls # <<>> /\ Head(calls).by = "continuation" THEN {Head(calls).process} ELSE {}
Started(s, p) == s.queue[p] # <<>> /\ Head(s.queue[p]).started
Gone(srv, p) == ~srv[p].alive /\ srv[p].out = <<>>

Callable(s, srv, calls) ==
  /\ calls # <<>> /\ Head(calls).by = "schedule" => Idle(s, Head(calls).process)
  /\ calls # <<>> /\ Head(calls).by = "continuation" =>
       Started(s, Head(calls).process) /\ Len(Head(s.queue[Head(calls).process]).tasks) = 1
  /\ \A i \in DOMAIN calls : i # 1 => calls[i].by \in {"start-next-safe", "abort-all"}
  /\ \A i \in DOMAIN calls : calls[i].by = "abort-all" => Gone(srv, calls[i].process)

(* What a result leaves of the request that was started.                    *)
Resulted(s, srv, p, made) ==
  LET t == made.emacs
      c == made.calls
  IN  /\ made \in StateSet /\ Inv(t, srv, buffer, disk, Chosen(c)) /\ Callable(t, srv, c)
      /\ \A q \in Process : Idle(t, q) => Idle(s, q) \/ \E i \in DOMAIN c : c[i].process = q
      /\ t.output = s.output /\ t.mixed = s.mixed
      /\ p = s.made => Quiet(t, t.made, Chosen(c))
      /\ \/ Over(t) = Over(s) /\ Len(c) = 1 /\ Chosen(c) # {} /\ Len(Head(s.queue[p]).tasks) > 1
         \/ Len(c) <= 2 /\ Chosen(c) = {} /\ \E r \in Request \ Over(s) : Over(t) = Over(s) \cup {r}

LEMMA ResultChained ==
  ASSUME NEW s, NEW srv, NEW p \in Process, Inv(s, srv, buffer, disk, {p}), Started(s, p),
         Len(Head(s.queue[p]).tasks) > 1
  PROVE  Resulted(s, srv, p, Remains(Chain(s, p), <<Call("continuation", p)>>))
<1> DEFINE t == Chain(s, p)
           call == Call("continuation", p)
           c == <<call>>
           made == Remains(t, c)
<1>1. Types(s, srv) /\ Ordered(s) /\ Processes(s, srv) /\ TempFiles(s) /\ Buffers(buffer, disk)
      /\ (~s.mixed => Flow(s, srv, {p}) /\ Told(s, srv, buffer, disk) /\ Answered(s, srv))
  BY DEF Inv
<1>2. s.queue[p] # <<>> /\ Head(s.queue[p]).started
  BY DEF Started
<1>3. PICK h : IsChained(s, t, p, h)
  BY <1>1, <1>2, ChainFields
<1> HIDE DEF t
<1>4. /\ HeadChanged(s, t, p, h) /\ t \in EmacsSet /\ t.made = s.made /\ t.done = s.done /\ t.output = s.output
  BY <1>1, <1>3, ChainedFields
<1>5. t.mixed = s.mixed /\ h.started
  BY <1>4 DEF HeadChanged
<1>6. Len(h.tasks) = 1
  BY <1>3 DEF IsChained
<1>7. Inv(t, srv, buffer, disk, {p})
  <2>1. Types(t, srv) /\ Ordered(t) /\ Processes(t, srv) /\ TempFiles(t)
    BY <1>1, <1>3, <1>4, ChainedTypes, ChangedOrdered, ChainedProcesses, ChainedTempFiles
  <2>2. ASSUME ~t.mixed PROVE Flow(t, srv, {p}) /\ Told(t, srv, buffer, disk) /\ Answered(t, srv)
    <3>1. Flow(s, srv, {p}) /\ Told(s, srv, buffer, disk) /\ Answered(s, srv)
      BY <1>1, <1>5, <2>2
    <3>2. Flow(t, srv, {p}) /\ Told(t, srv, buffer, disk)
      BY <1>1, <1>2, <1>3, <3>1, ChainedFlow, ChainedTold
    <3>3. Answered(t, srv)
      BY <1>4, <3>1 DEF Answered
    <3> QED
      BY <3>2, <3>3
  <2> QED
    BY <1>1, <2>1, <2>2 DEF Inv
<1>8. t.queue[p] # <<>> /\ Head(t.queue[p]) = h /\ \A q \in Process : q # p => t.queue[q] = s.queue[q]
  BY <1>1, <1>4, ChangedQueue
<1>9. call \in CallSet /\ call.by = "continuation" /\ call.process = p
  BY DEF Call, CallSet
<1> HIDE DEF call
<1>10. c \in Seq(CallSet) /\ Head(c) = call /\ c # <<>> /\ Len(c) = 1 /\ c[1] = call /\ DOMAIN c = {1}
  BY <1>9
<1> HIDE DEF c
<1>11. Chosen(c) = {p}
  BY <1>9, <1>10 DEF Chosen
<1>12. Callable(t, srv, c)
  BY <1>5, <1>6, <1>8, <1>9, <1>10 DEF Callable, Started
<1>13. \A q \in Process : Idle(t, q) => Idle(s, q)
  BY <1>5, <1>8 DEF Idle
<1>14. Quiet(t, p, {p})
  BY DEF Quiet
<1>15. Over(t) = Over(s)
  BY <1>4 DEF Over, DoneIds
<1>16. made \in StateSet /\ made.emacs = t /\ made.calls = c
  BY <1>4, <1>10 DEF Remains, StateSet
<1> HIDE DEF made
<1>17. Resulted(s, srv, p, made)
  BY <1>4, <1>5, <1>7, <1>10, <1>11, <1>12, <1>13, <1>14, <1>15, <1>16 DEF Resulted
<1> QED
  BY <1>17 DEF made, t, c, call

(* The calls of a process whose first request left.                         *)
CalledOn(s, srv, p, by, st) ==
  LET t == st.emacs
      c == st.calls
  IN  /\ st \in StateSet /\ Inv(t, srv, buffer, disk, {}) /\ Callable(t, srv, c)
      /\ t.output = s.output /\ t.mixed = s.mixed /\ Over(t) = Over(s)
      /\ Chosen(c) = {} /\ Len(c) <= 2 /\ \E i \in DOMAIN c : c[i].process = p
      /\ \A q \in Process : Idle(t, q) => Idle(s, q) \/ \E i \in DOMAIN c : c[i].process = q
      /\ Quiet(s, s.made, {}) => Quiet(t, t.made, {})
      /\ Quiet(t, t.made, {}) \/ \A i \in DOMAIN c : c[i].by = by

LEMMA CallsOn ==
  ASSUME NEW s, NEW srv, Inv(s, srv, buffer, disk, {}), Agree(srv), NEW r, NEW p \in Process,
         NEW by \in {"start-next-safe", "abort-all"}, by = "abort-all" => Gone(srv, p)
  PROVE  CalledOn(s, srv, p, by, CallbackThen(s, r, Call(by, p)))
<1> DEFINE call == Call(by, p)
           st == CallbackThen(s, r, call)
           t == st.emacs
           c == st.calls
           first == Call("schedule", t.made)
<1>1. call \in CallSet /\ call.by = by /\ call.process = p
  BY DEF Call, CallSet
<1> HIDE DEF call
<1>2. /\ st \in StateSet /\ Inv(t, srv, buffer, disk, {})
      /\ t.output = s.output /\ t.mixed = s.mixed /\ Over(t) = Over(s)
      /\ Quiet(s, s.made, {}) => Quiet(t, t.made, {})
      /\ \/ /\ c = <<call>> /\ \A q \in Process : Idle(t, q) => Idle(s, q)
         \/ /\ c = <<first, call>> /\ t.made \in Process /\ Idle(t, t.made)
            /\ \A q \in Process : Idle(t, q) => Idle(s, q) \/ q = t.made
  BY <1>1, CalledThen
<1>3. first.by = "schedule" /\ first.process = t.made
  BY DEF Call
<1> HIDE DEF st, first
<1>4. CASE c = <<call>> /\ \A q \in Process : Idle(t, q) => Idle(s, q)
  <2>1. Head(c) = call /\ Len(c) = 1 /\ c[1] = call /\ DOMAIN c = {1} /\ c # <<>>
    BY <1>4
  <2>2. Chosen(c) = {} /\ Callable(t, srv, c)
    BY <1>1, <2>1 DEF Chosen, Callable
  <2> QED
    BY <1>1, <1>2, <1>4, <2>1, <2>2 DEF CalledOn, st, call
<1>5. CASE /\ c = <<first, call>> /\ t.made \in Process /\ Idle(t, t.made)
           /\ \A q \in Process : Idle(t, q) => Idle(s, q) \/ q = t.made
  <2>1. Head(c) = first /\ Len(c) = 2 /\ c[1] = first /\ c[2] = call /\ DOMAIN c = {1, 2} /\ c # <<>>
    BY <1>5
  <2>2. Chosen(c) = {} /\ Callable(t, srv, c)
    BY <1>1, <1>3, <1>5, <2>1 DEF Chosen, Callable
  <2>3. Quiet(t, t.made, {})
    BY <1>5 DEF Quiet, Idle
  <2> QED
    BY <1>1, <1>2, <1>3, <1>5, <2>1, <2>2, <2>3 DEF CalledOn, st, call
<1> QED
  BY <1>2, <1>4, <1>5

LEMMA ResultPopped ==
  ASSUME NEW s, NEW srv, NEW p \in Process, Inv(s, srv, buffer, disk, {p}), Started(s, p), Agree(srv),
         NEW result \in Reply, s.mixed \/ Right(s, srv, p, result),
         result.ok => ~(Len(Head(s.queue[p]).tasks) > 1), NEW r
  PROVE  Resulted(s, srv, p,
           CallbackThen(Popped(Finished(s, p, result.ok), p, IF result.ok THEN "value" ELSE "error", result), r,
                        Call("start-next-safe", p)))
<1> DEFINE f == Finished(s, p, result.ok)
           kind == IF result.ok THEN "value" ELSE "error"
           e == Head(s.queue[p])
           u == Popped(f, p, kind, result)
           made == CallbackThen(u, r, Call("start-next-safe", p))
           t == made.emacs
           c == made.calls
<1>1. Types(s, srv) /\ Ordered(s) /\ Processes(s, srv) /\ TempFiles(s) /\ Buffers(buffer, disk)
      /\ (~s.mixed => Flow(s, srv, {p}) /\ Told(s, srv, buffer, disk) /\ Answered(s, srv))
  BY DEF Inv
<1>2. s.queue[p] # <<>> /\ e.started /\ result.ok \in BOOLEAN
  BY DEF Started, Reply
<1>3. IsFinished(s, f, p, result.ok)
  BY <1>1, <1>2, FinishFields
<1>4. /\ Task(s, p) = e.tasks[1] /\ Task(s, p).kind \in Kind /\ e.tasks \in Seq(TaskSet) /\ Shaped(e)
  BY <1>1, <1>2, FirstRequest
<1>5. result.ok => Task(s, p).kind = "parse"
  <2>1. Len(e.tasks) = 1 \/ Len(e.tasks) = 2
    BY <1>4 DEF Shaped
  <2> QED
    BY <1>4, <2>1, SMTT(90) DEF Shaped
<1> HIDE DEF f
<1>6. kind \in {"value", "error", "aborted"} /\ kind # "aborted" /\ (kind = "value" => result.ok)
  OBVIOUS
<1>7. /\ f \in EmacsSet /\ f.queue = s.queue /\ f.done = s.done
      /\ f.process = s.process /\ f.made = s.made /\ f.output = s.output
      /\ f.mark = s.mark /\ f.gone = s.gone /\ f.pipe = s.pipe /\ f.requests = s.requests /\ f.mixed = s.mixed
  BY <1>3 DEF IsFinished
<1>8. /\ f.unsaved = IF Task(s, p).kind = "reset-unsaved" THEN [s.unsaved EXCEPT ![p] = NoState] ELSE s.unsaved
      /\ f.temp = IF Task(s, p).kind = "set-unsaved" THEN s.temp \ {e.id} ELSE s.temp
  BY <1>3, <1>5 DEF IsFinished
<1> HIDE DEF kind
<1> HIDE DEF u, e
<1>9. PICK done : PopsTo(s, f, p, u, done) /\ IsOver(e, kind, result, done)
  BY <1>1, <1>2, <1>6, <1>7, PopFields DEF u, e
<1> USE DEF e
<1>10. done.kind = kind /\ (done.own <=> result.of = e.id) /\ (done.fresh <=> Fresh(e.want, result))
  BY <1>9, Zenon DEF IsOver
<1>11. /\ u \in EmacsSet /\ done \in DoneSet /\ done.id = e.id
       /\ u.queue = [s.queue EXCEPT ![p] = Tail(@)] /\ u.done = [s.done EXCEPT ![p] = Append(@, done)]
       /\ u.unsaved = f.unsaved /\ u.temp = f.temp
       /\ u.process = f.process /\ u.made = f.made /\ u.requests = f.requests /\ u.gone = f.gone
       /\ u.mixed = f.mixed /\ u.output = f.output /\ u.mark = f.mark /\ u.pipe = f.pipe
  BY <1>9 DEF PopsTo
<1>12. IsPopped(s, u, p, done)
  <2>1. done.kind # "aborted"
    BY <1>6, <1>10, <1>11
  <2>2. /\ u.unsaved = IF Task(s, p).kind = "reset-unsaved" THEN [s.unsaved EXCEPT ![p] = NoState] ELSE s.unsaved
        /\ u.temp = IF Task(s, p).kind = "set-unsaved" THEN s.temp \ {done.id} ELSE s.temp
    BY <1>8, <1>10, <1>11
  <2> QED
    BY <1>2, <1>7, <1>10, <1>11, <2>1, <2>2 DEF IsPopped
<1>13. Inv(u, srv, buffer, disk, {})
  <2>1. Types(u, srv) /\ Ordered(u) /\ Processes(u, srv) /\ TempFiles(u)
    BY <1>1, <1>12, PoppedTypes, PoppedOrdered, PoppedProcesses, PoppedTempFiles
  <2>2. ASSUME ~u.mixed PROVE Flow(u, srv, {}) /\ Told(u, srv, buffer, disk) /\ Answered(u, srv)
    <3>1. Flow(s, srv, {p}) /\ Told(s, srv, buffer, disk) /\ Answered(s, srv) /\ Right(s, srv, p, result)
      BY <1>1, <1>7, <1>10, <1>11, <2>2
    <3>2. p = s.made => s.pipe[p] = <<>> /\ srv[p].out = <<>> /\ srv[p].busy = Nothing
      <4>1. p # 0
        BY NatBounds DEF Process
      <4> QED
        BY <3>1, <4>1 DEF Flow, Quiet
    <3>3. Flow(u, srv, {})
      <4> DEFINE X == {p}
      <4>1. X \subseteq {p} /\ Flow(s, srv, X)
        BY <3>1
      <4> HIDE DEF X
      <4> QED
        BY <1>1, <1>12, <3>2, <4>1, PoppedFlow
    <3>4. srv[p].alive /\ ~srv[p].unread => Task(s, p).kind # "set-unsaved"
      BY <1>5, <3>1 DEF Right
    <3>5. Told(u, srv, buffer, disk)
      <4>1. done.kind # "aborted"
        BY <1>6, <1>10, <1>11
      <4> QED
        BY <1>1, <1>2, <1>12, <3>1, <3>2, <3>4, <4>1, PoppedTold
    <3>6. Answered(u, srv)
      <4>1. ASSUME done.kind = "value" PROVE done.own /\ (done.fresh \/ srv[p].unread)
        <5>1. result.ok /\ Task(s, p).kind = "parse"
          BY <1>5, <1>6, <1>10, <1>11, <4>1
        <5>2. result.of = e.id /\ (Fresh(e.want, result) \/ srv[p].unread)
          BY <3>1, <5>1 DEF Right
        <5> QED
          BY <1>10, <1>11, <5>2
      <4> QED
        BY <1>1, <1>12, <3>1, <4>1, PoppedAnswered
    <3> QED
      BY <3>3, <3>5, <3>6
  <2> QED
    BY <1>1, <2>1, <2>2 DEF Inv
<1>14. /\ made \in StateSet /\ Inv(t, srv, buffer, disk, {}) /\ Callable(t, srv, c)
       /\ t.output = u.output /\ t.mixed = u.mixed /\ Over(t) = Over(u)
       /\ Chosen(c) = {} /\ Len(c) <= 2 /\ \E i \in DOMAIN c : c[i].process = p
       /\ \A q \in Process : Idle(t, q) => Idle(u, q) \/ \E i \in DOMAIN c : c[i].process = q
       /\ Quiet(u, u.made, {}) => Quiet(t, t.made, {})
  <2>1. CalledOn(u, srv, p, "start-next-safe", made)
    BY <1>13, CallsOn
  <2> HIDE DEF made
  <2> QED
    BY <2>1 DEF CalledOn
<1> HIDE DEF made
<1>15. \A q \in Process : Idle(t, q) => Idle(s, q) \/ \E i \in DOMAIN c : c[i].process = q
  <2>1. \A q \in Process : q # p => u.queue[q] = s.queue[q]
    BY <1>1, <1>12, PoppedQueue
  <2> QED
    BY <1>14, <2>1 DEF Idle
<1>16. p = s.made => Quiet(t, t.made, {})
  <2>1. \A i \in DOMAIN u.queue[p] : ~u.queue[p][i].started
    BY <1>1, <1>12, PoppedOrdered
  <2>2. u.queue[p] \in Seq(EctxSet)
    BY <1>1, <1>12, PoppedQueue
  <2>3. Quiet(u, p, {})
    BY <2>1, <2>2, HeadAndTail DEF Quiet
  <2> QED
    BY <1>7, <1>10, <1>11, <1>14, <2>3
<1>17. \E i \in Request \ Over(s) : Over(t) = Over(s) \cup {i}
  BY <1>1, <1>12, <1>14, PoppedOver
<1>18. Resulted(s, srv, p, made)
  BY <1>7, <1>10, <1>11, <1>14, <1>15, <1>16, <1>17 DEF Resulted
<1> QED
  BY <1>18 DEF made, u, f, kind

(* irony-iotask--check-result of a task that has its result.                *)
LEMMA ResultChecked ==
  ASSUME NEW s, NEW srv, NEW p \in Process, Inv(s, srv, buffer, disk, {p}), Started(s, p), Agree(srv),
         NEW result \in Reply, s.mixed \/ Right(s, srv, p, result)
  PROVE  Resulted(s, srv, p, CheckResult(s, p, result))
<1>1. result # Nothing
  BY NothingAssumption
<1>2. CASE result.ok /\ Len(Head(s.queue[p]).tasks) > 1
  <2>1. CheckResult(s, p, result) = Remains(Chain(s, p), <<Call("continuation", p)>>)
    BY <1>1, <1>2 DEF CheckResult, Chain, Finished
  <2> QED
    BY <1>2, <2>1, ResultChained
<1>3. CASE ~(result.ok /\ Len(Head(s.queue[p]).tasks) > 1)
  <2>1. CheckResult(s, p, result) =
          CallbackThen(Popped(Finished(s, p, result.ok), p, IF result.ok THEN "value" ELSE "error", result),
                       Head(s.queue[p]).id, Call("start-next-safe", p))
    BY <1>1, <1>3 DEF CheckResult, Finished
  <2> QED
    BY <1>3, <2>1, ResultPopped
<1> QED
  BY <1>2, <1>3

----------------------------------------------------------------------------
(* One call is made.                                                        *)

(* A process that is started takes the process buffer: the last one made    *)
(* has nothing in it then.                                                  *)
Clear(s, calls) ==
  \/ s.made = 0 \/ s.output = <<>> \/ Quiet(s, s.made, Chosen(calls))
  \/ \A i \in DOMAIN calls : calls[i].by = "abort-all"

Good(st, srv) ==
  LET s == st.emacs
      c == st.calls
  IN  /\ st \in StateSet /\ Inv(s, srv, buffer, disk, Chosen(c)) /\ Callable(s, srv, c)
      /\ \A p \in Process : Idle(s, p) => \E i \in DOMAIN c : c[i].process = p
      /\ ~s.mixed => Clear(s, c)

MadeCall(st, srv, made) ==
  LET s == st.emacs
      p == Head(st.calls).process
      t == made.emacs
      c == made.calls
  IN  /\ made \in StateSet /\ Inv(t, srv, buffer, disk, Chosen(c)) /\ Callable(t, srv, c)
      /\ \A q \in Process : Idle(t, q) => (Idle(s, q) /\ q # p) \/ \E i \in DOMAIN c : c[i].process = q
      /\ ~t.mixed => \/ Clear(t, c) /\ \A i \in DOMAIN st.calls : st.calls[i].by = "abort-all"
                     \/ t.made = 0 \/ t.output = <<>> \/ Quiet(t, t.made, Chosen(c))
      /\ \/ c = <<>> /\ Over(t) = Over(s)
         \/ Len(c) = 1 /\ Chosen(c) # {} /\ Chosen(st.calls) = {} /\ Over(t) = Over(s)
         \/ Len(c) <= 2 /\ Chosen(c) = {} /\ \E r \in Request \ Over(s) : Over(t) = Over(s) \cup {r}

LEMMA FirstCall ==
  ASSUME NEW st, NEW srv, Good(st, srv), st.calls # <<>>
  PROVE  LET call == Head(st.calls)
         IN  /\ call = st.calls[1] /\ 1 \in DOMAIN st.calls /\ call \in CallSet /\ call.process \in Process
             /\ call.by \in {"schedule", "continuation", "start-next-safe", "abort-all"}
             /\ Chosen(st.calls) = IF call.by = "continuation" THEN {call.process} ELSE {}
             /\ Tail(st.calls) \in Seq(CallSet) /\ st.emacs \in EmacsSet /\ Types(st.emacs, srv)
<1>1. st.calls \in Seq(CallSet) /\ st.emacs \in EmacsSet
  BY DEF Good, StateSet
<1>2. Head(st.calls) = st.calls[1] /\ 1 \in DOMAIN st.calls /\ Head(st.calls) \in CallSet
      /\ Tail(st.calls) \in Seq(CallSet)
  BY <1>1, HeadAndTail
<1>3. Types(st.emacs, srv)
  BY DEF Good, Inv
<1> QED
  BY <1>1, <1>2, <1>3 DEF Chosen, CallSet

LEMMA NothingMade ==
  ASSUME NEW st, NEW srv, Good(st, srv), st.calls # <<>>, Chosen(st.calls) = {},
         ~Idle(st.emacs, Head(st.calls).process)
  PROVE  MadeCall(st, srv, Remains(st.emacs, <<>>))
<1> DEFINE s == st.emacs
           made == Remains(s, <<>>)
<1>1. s \in EmacsSet /\ Inv(s, srv, buffer, disk, {}) /\ (~s.mixed => Clear(s, st.calls))
  BY DEF Good, StateSet
<1>2. made \in StateSet /\ made.emacs = s /\ made.calls = <<>>
  BY <1>1 DEF Remains, StateSet
<1>3. Chosen(<<>>) = {} /\ Callable(s, srv, <<>>)
  BY DEF Chosen, Callable
<1>4. ~s.mixed => \/ Clear(s, <<>>) /\ \A i \in DOMAIN st.calls : st.calls[i].by = "abort-all"
                  \/ s.made = 0 \/ s.output = <<>> \/ Quiet(s, s.made, {})
  BY <1>1 DEF Clear
<1> HIDE DEF made
<1>5. MadeCall(st, srv, made)
  BY <1>1, <1>2, <1>3, <1>4 DEF MadeCall
<1> QED
  BY <1>5 DEF made

LEMMA Aborted ==
  ASSUME NEW st, NEW srv, Good(st, srv), Agree(srv), st.calls # <<>>, Head(st.calls).by = "abort-all"
  PROVE  MadeCall(st, srv, AbortAll(st.emacs, Head(st.calls).process))
<1> DEFINE s == st.emacs
           p == Head(st.calls).process
           e == Head(s.queue[p])
           u == Popped(s, p, "aborted", Failed)
           made == CallbackThen(u, e.id, Call("abort-all", p))
           t == made.emacs
           c == made.calls
<1>1. /\ p \in Process /\ Chosen(st.calls) = {} /\ s \in EmacsSet /\ Types(s, srv)
      /\ 1 \in DOMAIN st.calls /\ st.calls[1] = Head(st.calls)
  BY FirstCall
<1>2. /\ Inv(s, srv, buffer, disk, {}) /\ (~s.mixed => Clear(s, st.calls)) /\ Gone(srv, p)
  BY <1>1 DEF Good, Callable
<1>3. Ordered(s) /\ Processes(s, srv) /\ TempFiles(s) /\ Buffers(buffer, disk)
      /\ (~s.mixed => Flow(s, srv, {}) /\ Told(s, srv, buffer, disk) /\ Answered(s, srv))
  BY <1>2 DEF Inv
<1> HIDE DEF p, s
<1>4. CASE s.queue[p] = <<>>
  <2>1. AbortAll(s, p) = Remains(s, <<>>)
    BY <1>4 DEF AbortAll
  <2>2. ~Idle(s, p)
    BY <1>4 DEF Idle
  <2> QED
    BY <1>1, <2>1, <2>2, NothingMade DEF p, s
<1>5. CASE s.queue[p] # <<>>
  <2>1. AbortAll(s, p) = made
    BY <1>5 DEF AbortAll
  <2> HIDE DEF u
  <2>2. PICK done : PopsTo(s, s, p, u, done) /\ IsOver(e, "aborted", Failed, done)
    <3>1. Failed \in Reply /\ "aborted" \in {"value", "error", "aborted"}
      BY Replies
    <3> QED
      BY <1>1, <1>5, <3>1, PopFields DEF u
  <2>3. IsPopped(s, u, p, done) /\ done.kind = "aborted" /\ u.mixed = s.mixed /\ u.output = s.output /\ u.made = s.made
    BY <1>1, <1>5, <2>2 DEF IsPopped, PopsTo, IsOver
  <2>4. p = s.made => s.pipe[p] = <<>> /\ srv[p].out = <<>> /\ srv[p].busy = Nothing
    BY <1>1, <1>2, <1>3 DEF Gone, Processes
  <2>5. ~s.mixed => Flow(u, srv, {}) /\ Quiet(u, p, {})
    <3> SUFFICES ASSUME ~s.mixed PROVE Flow(u, srv, {}) /\ Quiet(u, p, {})
      OBVIOUS
    <3> DEFINE X == {}
    <3>1. X \subseteq {p} /\ Flow(s, srv, X)
      BY <1>3
    <3> HIDE DEF X
    <3> QED
      BY <1>1, <1>3, <2>3, <2>4, <3>1, PoppedFlow
  <2>6. Inv(u, srv, buffer, disk, {})
    <3>1. Types(u, srv) /\ Ordered(u) /\ Processes(u, srv) /\ TempFiles(u)
      BY <1>1, <1>3, <2>3, PoppedTypes, PoppedOrdered, PoppedProcesses, PoppedTempFiles
    <3>2. ASSUME ~u.mixed PROVE Told(u, srv, buffer, disk) /\ Answered(u, srv)
      <4>1. Told(s, srv, buffer, disk) /\ Answered(s, srv)
        BY <1>3, <2>3, <3>2
      <4>2. ~srv[p].alive
        BY <1>2 DEF Gone
      <4>3. Told(u, srv, buffer, disk)
        BY <1>1, <1>3, <2>3, <4>1, <4>2, PoppedTold
      <4>4. done.kind # "value"
        BY <2>3
      <4>5. Answered(u, srv)
        BY <1>1, <2>3, <4>1, <4>4, PoppedAnswered
      <4> QED
        BY <4>3, <4>5
    <3> QED
      BY <1>3, <2>3, <2>5, <3>1, <3>2 DEF Inv
  <2>7. CalledOn(u, srv, p, "abort-all", made)
    BY <1>1, <1>2, <2>6, CallsOn
  <2> HIDE DEF made
  <2>8. /\ made \in StateSet /\ Inv(t, srv, buffer, disk, {}) /\ Callable(t, srv, c)
        /\ t.output = u.output /\ t.mixed = u.mixed /\ Over(t) = Over(u)
        /\ Chosen(c) = {} /\ Len(c) <= 2 /\ \E i \in DOMAIN c : c[i].process = p
        /\ \A q \in Process : Idle(t, q) => Idle(u, q) \/ \E i \in DOMAIN c : c[i].process = q
        /\ Quiet(u, u.made, {}) => Quiet(t, t.made, {})
        /\ Quiet(t, t.made, {}) \/ \A i \in DOMAIN c : c[i].by = "abort-all"
    BY <2>7 DEF CalledOn
  <2>9. \A q \in Process : q # p => u.queue[q] = s.queue[q]
    BY <1>1, <2>3, PoppedQueue
  <2>10. \A q \in Process : Idle(t, q) => (Idle(s, q) /\ q # p) \/ \E i \in DOMAIN c : c[i].process = q
    BY <2>8, <2>9 DEF Idle
  <2>11. ASSUME ~t.mixed
         PROVE  \/ Clear(t, c) /\ \A i \in DOMAIN st.calls : st.calls[i].by = "abort-all"
                \/ t.made = 0 \/ t.output = <<>> \/ Quiet(t, t.made, Chosen(c))
    <3>1. ~s.mixed /\ s.made # 0 /\ s.made \in Process
      <4>1. ~s.mixed
        BY <2>3, <2>8, <2>11
      <4>2. ~(p > s.made) /\ p \in Nat /\ p >= 1 /\ s.made \in 0..MaxProcess
        BY <1>1, <1>3, <1>5, EmacsParts, NatBounds DEF Processes, Process
      <4> QED
        BY <4>1, <4>2, NatBounds DEF Process
    <3>2. CASE Quiet(s, s.made, {})
      <4>1. Quiet(u, s.made, {})
        BY <2>5, <2>9, <3>1, <3>2 DEF Quiet
      <4> QED
        BY <2>3, <2>8, <4>1
    <3>3. CASE s.output = <<>>
      BY <2>3, <2>8, <3>3
    <3>4. CASE \A i \in DOMAIN st.calls : st.calls[i].by = "abort-all"
      BY <2>8, <3>4 DEF Clear
    <3> QED
      BY <1>1, <1>2, <3>1, <3>2, <3>3, <3>4 DEF Clear
  <2>12. \E r \in Request \ Over(s) : Over(t) = Over(s) \cup {r}
    BY <1>1, <1>3, <2>3, <2>8, PoppedOver
  <2>13. MadeCall(st, srv, made)
    BY <2>8, <2>10, <2>11, <2>12 DEF MadeCall, p, s
  <2> QED
    BY <2>1, <2>13 DEF p, s
<1> QED
  BY <1>4, <1>5

LEMMA StartMade ==
  ASSUME NEW st, NEW srv, Good(st, srv), Agree(srv), st.calls # <<>>, Head(st.calls).by # "abort-all",
         Idle(st.emacs, Head(st.calls).process) \/ Head(st.calls).by = "continuation"
  PROVE  MadeCall(st, srv, StartNext(st.emacs, Head(st.calls).process))
<1> DEFINE s == st.emacs
           p == Head(st.calls).process
           X == Chosen(st.calls)
           t == Start(s, p)
           result == StartResult(s, p)
           Y == IF result = Nothing THEN {} ELSE {p}
<1>1. /\ p \in Process /\ X = (IF Head(st.calls).by = "continuation" THEN {p} ELSE {})
      /\ s \in EmacsSet /\ Types(s, srv) /\ 1 \in DOMAIN st.calls /\ st.calls[1] = Head(st.calls)
  BY FirstCall
<1>2. Inv(s, srv, buffer, disk, X) /\ (~s.mixed => Clear(s, st.calls))
  BY DEF Good
<1>3. Ordered(s) /\ Processes(s, srv) /\ TempFiles(s) /\ Buffers(buffer, disk) /\ buffer \in BufferState
      /\ (~s.mixed => Flow(s, srv, X) /\ Told(s, srv, buffer, disk) /\ Answered(s, srv))
  BY <1>2 DEF Inv, Buffers
<1>4. Head(st.calls).by = "continuation" => Started(s, p) /\ Len(Head(s.queue[p]).tasks) = 1
  BY DEF Good, Callable
<1>5. s.queue[p] # <<>> /\ Quiet(s, p, X) /\ X \subseteq {p}
  <2>1. CASE Head(st.calls).by = "continuation"
    BY <1>1, <1>4, <2>1 DEF Started, Quiet
  <2>2. CASE Head(st.calls).by # "continuation"
    BY <1>1, <2>2 DEF Idle, Quiet
  <2> QED
    BY <2>1, <2>2
<1> HIDE DEF X, p, s
<1>6. IsStarted(s, t, p) /\ Command(s, p) \in CommandSet
  BY <1>1, <1>3, <1>5, StartFields
<1>7. StartNext(s, p) = CheckResult(t, p, result)
  BY DEF StartNext
<1> HIDE DEF t, result
<1> DEFINE h == [Head(s.queue[p]) EXCEPT !.started = TRUE]
<1>8. HeadChanged(s, t, p, h) /\ t.output = <<>> /\ h.tasks = Head(s.queue[p]).tasks
  BY <1>6 DEF IsStarted
<1> HIDE DEF h
<1>9. /\ t \in EmacsSet /\ h.started /\ t.made = s.made /\ t.mixed = s.mixed /\ t.done = s.done
  BY <1>8 DEF HeadChanged
<1>10. /\ t.queue[p] # <<>> /\ Head(t.queue[p]) = h /\ \A q \in Process : q # p => t.queue[q] = s.queue[q]
  BY <1>1, <1>8, ChangedQueue
<1>11. Inv(t, srv, buffer, disk, Y)
  <2>1. Types(t, srv) /\ Ordered(t) /\ Processes(t, srv) /\ TempFiles(t)
    BY <1>1, <1>3, <1>6, <1>8, StartedTypes, ChangedOrdered, StartedProcesses, StartedTempFiles
  <2>2. ASSUME ~t.mixed PROVE Flow(t, srv, Y) /\ Told(t, srv, buffer, disk) /\ Answered(t, srv)
    <3>1. Flow(s, srv, X) /\ Told(s, srv, buffer, disk) /\ Answered(s, srv) /\ Clear(s, st.calls)
      BY <1>2, <1>3, <1>9, <2>2
    <3>2. p # s.made /\ s.made # 0 => s.output = <<>> \/ Quiet(s, s.made, X)
      <4>1. ~(\A i \in DOMAIN st.calls : st.calls[i].by = "abort-all")
        BY <1>1
      <4> QED
        BY <3>1, <4>1 DEF Clear, X
    <3>3. Flow(t, srv, Y)
      BY <1>1, <1>3, <1>5, <1>6, <3>1, <3>2, StartedFlow DEF result
    <3>4. Told(t, srv, buffer, disk)
      BY <1>1, <1>3, <1>6, <3>1, StartedTold
    <3>5. Answered(t, srv)
      BY <1>9, <3>1 DEF Answered
    <3> QED
      BY <3>3, <3>4, <3>5
  <2> QED
    BY <1>3, <2>1, <2>2 DEF Inv
<1>12. \A q \in Process : Idle(t, q) => Idle(s, q) /\ q # p
  BY <1>9, <1>10 DEF Idle
<1>13. Over(t) = Over(s)
  BY <1>9 DEF Over, DoneIds
<1>14. CASE result = Nothing
  <2> DEFINE made == Remains(t, <<>>)
  <2>1. CheckResult(t, p, result) = made
    BY <1>14 DEF CheckResult
  <2>2. made \in StateSet /\ made.emacs = t /\ made.calls = <<>>
    BY <1>9 DEF Remains, StateSet
  <2>3. Chosen(<<>>) = {} /\ Callable(t, srv, <<>>)
    BY DEF Chosen, Callable
  <2> HIDE DEF made
  <2>4. MadeCall(st, srv, made)
    BY <1>8, <1>11, <1>12, <1>13, <1>14, <2>2, <2>3 DEF MadeCall, p, s
  <2> QED
    BY <1>7, <2>1, <2>4 DEF p, s
<1>15. CASE result # Nothing
  <2> DEFINE made == CheckResult(t, p, result)
  <2>1. result \in Reply /\ Right(t, srv, p, result)
    BY <1>6, <1>15, StartedRight DEF result
  <2>2. Started(t, p) /\ Inv(t, srv, buffer, disk, {p})
    BY <1>9, <1>10, <1>11, <1>15 DEF Started
  <2>3. Resulted(t, srv, p, made)
    BY <1>1, <2>1, <2>2, ResultChecked
  <2> HIDE DEF made
  <2>4. MadeCall(st, srv, made)
    <3>1. /\ made \in StateSet /\ Inv(made.emacs, srv, buffer, disk, Chosen(made.calls))
          /\ Callable(made.emacs, srv, made.calls)
          /\ \A q \in Process : Idle(made.emacs, q) => Idle(t, q) \/ \E i \in DOMAIN made.calls : made.calls[i].process = q
          /\ made.emacs.output = <<>>
      BY <1>8, <2>3 DEF Resulted
    <3>2. \/ Over(made.emacs) = Over(t) /\ Len(made.calls) = 1 /\ Chosen(made.calls) # {} /\ Len(Head(t.queue[p]).tasks) > 1
          \/ /\ Len(made.calls) <= 2 /\ Chosen(made.calls) = {}
             /\ \E r \in Request \ Over(t) : Over(made.emacs) = Over(t) \cup {r}
      BY <2>3 DEF Resulted
    <3>3. Len(Head(t.queue[p]).tasks) > 1 => X = {}
      <4> DEFINE n == Len(Head(t.queue[p]).tasks)
      <4>1. n = 1 => ~(n > 1)
        <5> HIDE DEF n
        <5> QED
          OBVIOUS
      <4> QED
        BY <1>1, <1>4, <1>8, <1>10, <4>1
    <3> QED
      BY <1>12, <1>13, <3>1, <3>2, <3>3 DEF MadeCall, p, s, X
  <2> QED
    BY <1>7, <2>4 DEF made, p, s
<1> QED
  BY <1>14, <1>15

LEMMA CallMade ==
  ASSUME NEW st, NEW srv, Good(st, srv), Agree(srv), st.calls # <<>>
  PROVE  \E made : /\ MadeCall(st, srv, made)
                   /\ MakeCall(st) = [made EXCEPT !.calls = @ \o Tail(st.calls)]
<1> DEFINE s == st.emacs
           call == Head(st.calls)
           p == call.process
           made == CASE call.by = "abort-all" -> AbortAll(s, p)
                     [] call.by = "start-next-safe" /\ ~StartsNext(s.queue[p]) -> Remains(s, <<>>)
                     [] OTHER -> StartNext(s, p)
<1>1. MakeCall(st) = [made EXCEPT !.calls = @ \o Tail(st.calls)]
  BY DEF MakeCall
<1>2. call.by \in {"schedule", "continuation", "start-next-safe", "abort-all"}
      /\ Chosen(st.calls) = IF call.by = "continuation" THEN {p} ELSE {}
  BY FirstCall
<1>3. CASE call.by = "abort-all"
  BY <1>1, <1>3, Aborted
<1>4. CASE call.by = "start-next-safe" /\ ~StartsNext(s.queue[p])
  <2>1. ~Idle(s, p)
    BY <1>4 DEF Idle, StartsNext
  <2>2. made = Remains(s, <<>>)
    BY <1>4
  <2> QED
    BY <1>1, <1>2, <1>4, <2>1, <2>2, NothingMade
<1>5. CASE call.by \in {"schedule", "continuation"} \/ (call.by = "start-next-safe" /\ StartsNext(s.queue[p]))
  <2>1. Idle(s, p) \/ call.by = "continuation"
    BY <1>5 DEF Good, Callable, Idle, StartsNext
  <2>2. made = StartNext(s, p) /\ call.by # "abort-all"
    BY <1>5
  <2> QED
    BY <1>1, <2>1, <2>2, StartMade
<1> QED
  BY <1>2, <1>3, <1>4, <1>5

----------------------------------------------------------------------------
(* All calls are made.                                                      *)

IsJoined(c, rest, all) ==
  /\ Len(all) = Len(c) + Len(rest) /\ Len(c) \in Nat /\ Len(rest) \in Nat
  /\ c # <<>> => all # <<>> /\ Head(all) = Head(c)
  /\ c = <<>> => all = rest
  /\ \A i \in DOMAIN c : i \in DOMAIN all /\ all[i] = c[i]
  /\ \A j \in DOMAIN rest : Len(c) + j \in DOMAIN all /\ all[Len(c) + j] = rest[j]
  /\ \A i \in DOMAIN all : i \in DOMAIN c \/ (i - Len(c) \in DOMAIN rest /\ all[i] = rest[i - Len(c)])

LEMMA Joined ==
  ASSUME NEW S, NEW c \in Seq(S), NEW rest \in Seq(S)
  PROVE  c \o rest \in Seq(S) /\ IsJoined(c, rest, c \o rest)
<1> DEFINE all == c \o rest
<1>1. all \in Seq(S) /\ Len(all) = Len(c) + Len(rest) /\ Len(c) \in Nat /\ Len(rest) \in Nat
  OBVIOUS
<1>2. /\ DOMAIN all = 1..(Len(c) + Len(rest)) /\ DOMAIN c = 1..Len(c) /\ DOMAIN rest = 1..Len(rest)
      /\ \A i \in 1..(Len(c) + Len(rest)) : all[i] = IF i <= Len(c) THEN c[i] ELSE rest[i - Len(c)]
  OBVIOUS
<1>3. c = <<>> => all = rest
  OBVIOUS
<1>4. c # <<>> => all # <<>> /\ Head(all) = Head(c)
  <2> SUFFICES ASSUME c # <<>> PROVE all # <<>> /\ Head(all) = Head(c)
    OBVIOUS
  <2>1. Len(c) >= 1 /\ Head(c) = c[1]
    BY HeadAndTail
  <2>2. Len(all) >= 1
    BY <1>1, <2>1
  <2> HIDE DEF all
  <2>3. all # <<>>
    BY <1>1, <2>2, NotEmpty
  <2>4. Head(all) = all[1]
    BY <1>1, <2>3, HeadAndTail
  <2> QED
    BY <1>1, <1>2, <2>1, <2>3, <2>4
<1> HIDE DEF all
<1>5. \A i \in DOMAIN c : i \in DOMAIN all /\ all[i] = c[i]
  BY <1>1, <1>2
<1>6. \A j \in DOMAIN rest : Len(c) + j \in DOMAIN all /\ all[Len(c) + j] = rest[j]
  BY <1>1, <1>2
<1>7. \A i \in DOMAIN all : i \in DOMAIN c \/ (i - Len(c) \in DOMAIN rest /\ all[i] = rest[i - Len(c)])
  BY <1>1, <1>2
<1> QED
  BY <1>1, <1>3, <1>4, <1>5, <1>6, <1>7 DEF IsJoined, all

LEMMA StateMade ==
  ASSUME NEW t \in EmacsSet, NEW c \in Seq(CallSet)
  PROVE  [emacs |-> t, calls |-> c] \in StateSet
BY DEF StateSet

LEMMA GoodAfterCall ==
  ASSUME NEW st, NEW srv, Good(st, srv), st.calls # <<>>, NEW made, MadeCall(st, srv, made), NEW next,
         next = [made EXCEPT !.calls = @ \o Tail(st.calls)]
  PROVE  /\ Good(next, srv) /\ next.emacs = made.emacs /\ Chosen(next.calls) = Chosen(made.calls)
         /\ Len(next.calls) = Len(made.calls) + Len(st.calls) - 1
<1> DEFINE s == st.emacs
           call == Head(st.calls)
           p == call.process
           t == made.emacs
           c == made.calls
           rest == Tail(st.calls)
           later == {"start-next-safe", "abort-all"}
<1>1. /\ made \in StateSet /\ Inv(t, srv, buffer, disk, Chosen(c)) /\ Callable(t, srv, c)
      /\ \A q \in Process : Idle(t, q) => (Idle(s, q) /\ q # p) \/ \E i \in DOMAIN c : c[i].process = q
      /\ ~t.mixed => \/ Clear(t, c) /\ \A i \in DOMAIN st.calls : st.calls[i].by = "abort-all"
                     \/ t.made = 0 \/ t.output = <<>> \/ Quiet(t, t.made, Chosen(c))
  BY DEF MadeCall
<1>2. /\ t \in EmacsSet /\ c \in Seq(CallSet) /\ rest \in Seq(CallSet) /\ st.calls \in Seq(CallSet)
      /\ call = st.calls[1]
  BY <1>1, FirstCall DEF StateSet, Good
<1>3. next = [emacs |-> t, calls |-> c \o rest]
  BY <1>1 DEF StateSet
<1>4. next.emacs = t /\ next.calls = c \o rest
  BY <1>3
<1>5. \A j \in DOMAIN rest : j \in Nat /\ j >= 1 /\ j + 1 \in DOMAIN st.calls /\ rest[j] = st.calls[j + 1]
  BY <1>2, HeadAndTail
<1>6. \A i \in DOMAIN st.calls : i = 1 \/ (i - 1 \in DOMAIN rest /\ rest[i - 1] = st.calls[i])
  <2>1. DOMAIN st.calls = 1..Len(st.calls) /\ DOMAIN rest = 1..Len(rest) /\ Len(st.calls) \in Nat
        /\ Len(rest) = Len(st.calls) - 1
    BY <1>2, HeadAndTail, SeqElement
  <2> SUFFICES ASSUME NEW i \in DOMAIN st.calls, i # 1 PROVE i - 1 \in DOMAIN rest /\ rest[i - 1] = st.calls[i]
    OBVIOUS
  <2>2. i \in Nat /\ i > 1 /\ i <= Len(st.calls)
    BY <2>1
  <2>3. i - 1 \in DOMAIN rest /\ (i - 1) + 1 = i
    BY <2>1, <2>2
  <2> QED
    BY <1>5, <2>3
<1>7. /\ \A j \in DOMAIN rest : rest[j].by \in later
      /\ \A j \in DOMAIN rest : rest[j].by = "abort-all" => Gone(srv, rest[j].process)
  <2>1. /\ \A i \in DOMAIN st.calls : i # 1 => st.calls[i].by \in later
        /\ \A i \in DOMAIN st.calls : st.calls[i].by = "abort-all" => Gone(srv, st.calls[i].process)
    BY DEF Good, Callable
  <2>2. \A j \in DOMAIN rest : j + 1 # 1
    BY <1>5
  <2> QED
    BY <1>5, <2>1, <2>2
<1> DEFINE all == c \o rest
<1>8. /\ all \in Seq(CallSet) /\ Len(all) = Len(c) + Len(rest) /\ Len(c) \in Nat /\ Len(rest) \in Nat
      /\ c # <<>> => all # <<>> /\ Head(all) = Head(c)
      /\ c = <<>> => all = rest
      /\ \A i \in DOMAIN c : i \in DOMAIN all /\ all[i] = c[i]
      /\ \A j \in DOMAIN rest : Len(c) + j \in DOMAIN all /\ all[Len(c) + j] = rest[j]
      /\ \A i \in DOMAIN all : \/ i \in DOMAIN c
                               \/ i - Len(c) \in DOMAIN rest /\ all[i] = rest[i - Len(c)]
  <2> HIDE DEF c, rest
  <2> QED
    BY <1>2, Joined DEF IsJoined
<1>9. rest # <<>> => Head(rest) = rest[1] /\ 1 \in DOMAIN rest
  BY <1>2, HeadAndTail
<1> HIDE DEF all, rest, c, t, s, p
<1>10. Chosen(all) = Chosen(c)
  <2>1. CASE c # <<>>
    BY <1>8, <2>1 DEF Chosen
  <2>2. CASE c = <<>>
    BY <1>7, <1>8, <1>9, <2>2 DEF Chosen
  <2> QED
    BY <2>1, <2>2
<1>11. Callable(t, srv, all)
  <2>1. ASSUME NEW i \in DOMAIN all
        PROVE  /\ i # 1 => all[i].by \in later
               /\ all[i].by = "abort-all" => Gone(srv, all[i].process)
    <3>1. CASE i \in DOMAIN c
      BY <1>1, <1>8, <3>1 DEF Callable
    <3>2. CASE i \notin DOMAIN c
      BY <1>7, <1>8, <2>1, <3>2
    <3> QED
      BY <3>1, <3>2
  <2>2. CASE c # <<>>
    BY <1>1, <1>8, <2>1, <2>2 DEF Callable
  <2>3. CASE c = <<>>
    <3>1. all # <<>> => Head(all).by \in later
      BY <1>7, <1>8, <1>9, <2>3
    <3> QED
      BY <2>1, <3>1 DEF Callable
  <2> QED
    BY <2>2, <2>3
<1>12. ASSUME NEW q \in Process, Idle(t, q) PROVE \E i \in DOMAIN all : all[i].process = q
  <2>1. CASE \E i \in DOMAIN c : c[i].process = q
    BY <1>8, <2>1
  <2>2. CASE Idle(s, q) /\ q # p
    <3>1. PICK i \in DOMAIN st.calls : st.calls[i].process = q
      BY <2>2 DEF Good, s
    <3>2. i # 1
      BY <1>2, <2>2, <3>1 DEF p
    <3>3. i - 1 \in DOMAIN rest /\ rest[i - 1].process = q
      BY <1>6, <3>1, <3>2
    <3> QED
      BY <1>8, <3>3
  <2> QED
    BY <1>1, <1>12, <2>1, <2>2
<1>13. ~t.mixed => Clear(t, all)
  <2> SUFFICES ASSUME ~t.mixed PROVE Clear(t, all)
    OBVIOUS
  <2>1. CASE t.made = 0 \/ t.output = <<>> \/ Quiet(t, t.made, Chosen(c))
    BY <1>10, <2>1 DEF Clear
  <2>2. CASE Clear(t, c) /\ \A i \in DOMAIN st.calls : st.calls[i].by = "abort-all"
    <3>1. CASE \A i \in DOMAIN c : c[i].by = "abort-all"
      <4>1. \A j \in DOMAIN rest : rest[j].by = "abort-all"
        BY <1>5, <2>2
      <4>2. \A i \in DOMAIN all : all[i].by = "abort-all"
        BY <1>8, <3>1, <4>1
      <4> QED
        BY <4>2 DEF Clear
    <3>2. CASE ~(\A i \in DOMAIN c : c[i].by = "abort-all")
      BY <1>10, <2>2, <3>2 DEF Clear
    <3> QED
      BY <3>1, <3>2
  <2> QED
    BY <1>1, <2>1, <2>2
<1>14. next \in StateSet
  <2>1. next = [emacs |-> t, calls |-> all] /\ t \in EmacsSet /\ all \in Seq(CallSet)
    BY <1>2, <1>3, <1>8 DEF all
  <2>2. [emacs |-> t, calls |-> all] \in StateSet
    BY <2>1, StateMade
  <2> QED
    BY <2>1, <2>2
<1>15. next.emacs = t /\ next.calls = all
  BY <1>4 DEF all
<1>16. Good(next, srv)
  BY <1>1, <1>10, <1>11, <1>12, <1>13, <1>14, <1>15 DEF Good
<1>17. Len(rest) = Len(st.calls) - 1 /\ Len(st.calls) \in Nat
  BY <1>2, HeadAndTail DEF rest
<1> QED
  BY <1>8, <1>10, <1>15, <1>16, <1>17 DEF t, c

(* No more calls are made than that.                                        *)
Measure(st) ==
  4 * (MaxRequest - Cardinality(Over(st.emacs))) + 2 * Len(st.calls) - (IF Chosen(st.calls) = {} THEN 0 ELSE 1)

LEMMA MeasureType ==
  ASSUME NEW st, st \in StateSet
  PROVE  Measure(st) \in Int /\ (st.calls # <<>> => Measure(st) >= 1)
<1> DEFINE n == Cardinality(Over(st.emacs))
           l == Len(st.calls)
           x == IF Chosen(st.calls) = {} THEN 0 ELSE 1
<1>1. n \in Nat /\ n <= MaxRequest /\ MaxRequest \in Nat
  BY OverBounded, NatBounds
<1>2. st.calls \in Seq(CallSet)
  BY DEF StateSet
<1>3. l \in Nat /\ (st.calls # <<>> => l >= 1)
  BY <1>2, HeadAndTail
<1>4. x \in 0..1
  OBVIOUS
<1>5. Measure(st) = 4 * (MaxRequest - n) + 2 * l - x
  BY DEF Measure
<1> HIDE DEF n, l, x
<1> QED
  BY <1>1, <1>3, <1>4, <1>5

LEMMA CallCounted ==
  ASSUME NEW st, NEW srv, Good(st, srv), Agree(srv), st.calls # <<>>
  PROVE  Good(MakeCall(st), srv) /\ Measure(MakeCall(st)) < Measure(st)
<1>1. PICK made : MadeCall(st, srv, made) /\ MakeCall(st) = [made EXCEPT !.calls = @ \o Tail(st.calls)]
  BY CallMade
<1> DEFINE next == MakeCall(st)
<1>2. /\ Good(next, srv) /\ next.emacs = made.emacs /\ Chosen(next.calls) = Chosen(made.calls)
      /\ Len(next.calls) = Len(made.calls) + Len(st.calls) - 1
  BY <1>1, GoodAfterCall
<1> HIDE DEF next
<1> DEFINE a == Cardinality(Over(st.emacs))
           b == Cardinality(Over(made.emacs))
           l == Len(st.calls)
           k == Len(made.calls)
           x == IF Chosen(st.calls) = {} THEN 0 ELSE 1
           y == IF Chosen(made.calls) = {} THEN 0 ELSE 1
<1>3. a \in Nat /\ b \in Nat /\ MaxRequest \in Nat
  BY OverBounded, NatBounds
<1>4. l \in Nat /\ k \in Nat /\ x \in 0..1 /\ y \in 0..1
  <2>1. st.calls \in Seq(CallSet) /\ made.calls \in Seq(CallSet)
    BY <1>1 DEF Good, MadeCall, StateSet
  <2> QED
    BY <2>1
<1>5. \/ k = 0 /\ y = 0 /\ b = a
      \/ k = 1 /\ x = 0 /\ y = 1 /\ b = a
      \/ k <= 2 /\ y = 0 /\ b = a + 1
  <2>1. CASE made.calls = <<>> /\ Over(made.emacs) = Over(st.emacs)
    BY <2>1 DEF Chosen
  <2>2. CASE Len(made.calls) = 1 /\ Chosen(made.calls) # {} /\ Chosen(st.calls) = {} /\ Over(made.emacs) = Over(st.emacs)
    BY <2>2
  <2>3. CASE /\ Len(made.calls) <= 2 /\ Chosen(made.calls) = {}
             /\ \E r \in Request \ Over(st.emacs) : Over(made.emacs) = Over(st.emacs) \cup {r}
    <3>1. b = a + 1
      BY <2>3, OverBounded
    <3> QED
      BY <2>3, <3>1
  <2> QED
    BY <1>1, <2>1, <2>2, <2>3 DEF MadeCall
<1>6. Measure(next) = 4 * (MaxRequest - b) + 2 * (k + l - 1) - y
  BY <1>2 DEF Measure
<1>7. Measure(st) = 4 * (MaxRequest - a) + 2 * l - x
  BY DEF Measure
<1> HIDE DEF a, b, l, k, x, y
<1>8. Measure(next) < Measure(st)
  <2>1. x >= 0 /\ x <= 1 /\ y >= 0 /\ y <= 1 /\ x \in Int /\ y \in Int
    BY <1>4
  <2>2. CASE k = 0 /\ y = 0 /\ b = a
    BY <1>3, <1>4, <1>6, <1>7, <2>1, <2>2
  <2>3. CASE k = 1 /\ x = 0 /\ y = 1 /\ b = a
    BY <1>3, <1>4, <1>6, <1>7, <2>1, <2>3
  <2>4. CASE k <= 2 /\ y = 0 /\ b = a + 1
    BY <1>3, <1>4, <1>6, <1>7, <2>1, <2>4
  <2> QED
    BY <1>5, <2>2, <2>3, <2>4
<1> QED
  BY <1>2, <1>8 DEF next

(* When Emacs returns no call remains.                                      *)
LEMMA AllReturned ==
  ASSUME NEW st, NEW srv, Good(st, srv), Agree(srv), Measure(st) <= MaxCalls
  PROVE  /\ Inv(Returned(st), srv, buffer, disk, {})
         /\ \A p \in Process : ~Idle(Returned(st), p)
<1> DEFINE n == MaxCalls
           S == {x \in StateSet : Good(x, srv)}
           step(g, i) == IF i = 0 THEN st ELSE Turn(g[i - 1])
           F == [i \in 1..n |-> [x \in S |-> Turn(x)]]
<1>1. n \in Nat
  BY NatBounds DEF MaxCalls
<1>2. ASSUME NEW x \in S
      PROVE  /\ Turn(x) \in S
             /\ x.calls = <<>> => Turn(x) = x
             /\ x.calls # <<>> => Measure(Turn(x)) < Measure(x)
             /\ Measure(x) \in Int /\ (x.calls # <<>> => Measure(x) >= 1)
  <2>1. CASE x.calls = <<>>
    BY <2>1, MeasureType DEF Turn
  <2>2. CASE x.calls # <<>>
    <3>1. Turn(x) = MakeCall(x)
      BY <2>2 DEF Turn
    <3>2. Good(MakeCall(x), srv) /\ Measure(MakeCall(x)) < Measure(x)
      BY <2>2, CallCounted
    <3>3. MakeCall(x) \in StateSet
      BY <3>2 DEF Good
    <3> QED
      BY <2>2, <3>1, <3>2, <3>3, MeasureType
  <2> QED
    BY <2>1, <2>2
<1>3. st \in S
  BY DEF Good
<1>4. F \in [1..n -> [S -> S]]
  BY <1>2
<1>5. PICK g \in [0..n -> S] : g[0] = st /\ \A i \in 1..n : g[i] = F[i][g[i - 1]]
  <2> HIDE DEF n, S, F
  <2> QED
    BY <1>1, <1>3, <1>4, RecursionSolved
<1>6. ASSUME NEW i \in 0..n PROVE g[i] = step(g, i)
  <2>1. CASE i = 0
    BY <1>5, <2>1
  <2>2. CASE i # 0
    <3>1. i \in 1..n /\ i - 1 \in 0..n
      BY <1>1, <2>2
    <3>2. g[i - 1] \in S
      BY <3>1
    <3>3. F[i][g[i - 1]] = Turn(g[i - 1])
      <4> HIDE DEF S
      <4> QED
        BY <3>1, <3>2
    <3> HIDE DEF F
    <3> QED
      BY <1>5, <2>2, <3>1, <3>3
  <2> QED
    BY <2>1, <2>2
<1>7. \E h : h = [i \in 0..n |-> step(h, i)]
  <2>1. g = [i \in 0..n |-> step(g, i)]
    BY <1>6
  <2> QED
    BY <2>1
<1> DEFINE after == CHOOSE h : h = [i \in 0..n |-> step(h, i)]
<1>8. after = [i \in 0..n |-> step(after, i)]
  BY <1>7
<1>9. Returned(st) = after[n].emacs
  BY DEF Returned
<1> HIDE DEF after
<1>10. \A i \in 0..n : after[i] = step(after, i)
  BY <1>8
<1> DEFINE done(m) == after[m] \in S /\ (after[m].calls = <<>> \/ Measure(after[m]) <= n - m)
           T == {m \in Nat : m <= n => done(m)}
<1> HIDE DEF n, S, F
<1>11. 0 \in T
  <2>1. after[0] = st
    BY <1>1, <1>10
  <2>2. Measure(st) \in Int /\ Measure(st) <= n - 0
    BY <1>1, <1>2, <1>3 DEF n
  <2> QED
    BY <1>3, <2>1, <2>2
<1>12. ASSUME NEW m \in Nat, m \in T, m + 1 <= n PROVE done(m + 1)
  <2>1. m <= n /\ m + 1 \in 0..n /\ m + 1 # 0 /\ (m + 1) - 1 = m
    BY <1>1, <1>12
  <2>2. done(m)
    BY <1>12, <2>1
  <2>3. after[m + 1] = Turn(after[m])
    BY <1>10, <2>1
  <2>4. after[m + 1] \in S
    BY <1>2, <2>2, <2>3
  <2>5. CASE after[m].calls = <<>>
    BY <1>2, <2>2, <2>3, <2>4, <2>5
  <2>6. CASE after[m].calls # <<>>
    <3> DEFINE a == Measure(after[m])
               b == Measure(after[m + 1])
    <3>1. a <= n - m /\ b < a /\ a \in Int
      BY <1>2, <2>2, <2>3, <2>6
    <3>2. b \in Int
      BY <1>2, <2>4
    <3> HIDE DEF a, b
    <3>3. b <= n - (m + 1)
      BY <1>1, <1>12, <3>1, <3>2
    <3> QED
      BY <2>4, <3>3 DEF b
  <2> QED
    BY <2>5, <2>6
<1>13. n \in T
  <2>1. \A m \in Nat : m \in T => m + 1 \in T
    BY <1>12
  <2> HIDE DEF T
  <2>2. Nat \subseteq T
    BY <1>11, <2>1, SetInduction
  <2> QED
    BY <1>1, <2>2
<1>14. after[n] \in S /\ after[n].calls = <<>>
  <2>1. done(n)
    BY <1>1, <1>13
  <2>2. after[n].calls # <<>> => Measure(after[n]) >= 1 /\ Measure(after[n]) \in Int
    BY <1>2, <2>1
  <2> DEFINE a == Measure(after[n])
  <2>3. a <= n - n /\ a \in Int => ~(a >= 1)
    <3> HIDE DEF a
    <3> QED
      BY <1>1
  <2> QED
    BY <2>1, <2>2, <2>3
<1> DEFINE last == after[n]
<1>15. Good(last, srv) /\ last.calls = <<>>
  BY <1>14 DEF S
<1> HIDE DEF last
<1>16. Inv(last.emacs, srv, buffer, disk, {})
  <2>1. Chosen(last.calls) = {}
    BY <1>15 DEF Chosen
  <2> QED
    BY <1>15, <2>1 DEF Good
<1>17. \A p \in Process : ~Idle(last.emacs, p)
  BY <1>15 DEF Good
<1> QED
  BY <1>9, <1>16, <1>17 DEF last
=============================================================================
