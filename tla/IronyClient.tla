---------------------------- MODULE IronyClient ----------------------------
(***************************************************************************)
(* irony-mode's side of irony-server: irony-iotask.el, which runs one task *)
(* of one request at a time on a process, and the part of irony.el that    *)
(* tells the server of unsaved buffers before a request, and takes that    *)
(* back when the buffer is saved.                                          *)
(*                                                                         *)
(* There is one source file and its buffer. A text is known by the tick of *)
(* the buffer that had it. A request is parse, with set-unsaved or         *)
(* reset-unsaved before it; complete and what is asked after either go the *)
(* same way. A reply comes in two parts, the second with the end marker.   *)
(* All processes put their output into one buffer, " *Irony*".             *)
(***************************************************************************)
EXTENDS Integers, Sequences, FiniteSets

CONSTANTS MaxRequest,  \* bound on requests
          MaxProcess,  \* bound on servers started
          MaxTick,     \* bound on the changes of the buffer
          MaxKilled,   \* bound on killed buffers
          Again,       \* the requests whose callback makes another
  NoState,     \* a buffer the process was not told of
  Nothing      \* no result, no request

ASSUME ClientAssumption ==
  /\ MaxRequest \in Nat /\ MaxProcess \in Nat /\ MaxTick \in Nat \ {0} /\ MaxKilled \in Nat
  /\ Again \subseteq 1..MaxRequest

Request == 1..MaxRequest
Process == 1..MaxProcess
NoProcess == 0
Tick == 0..MaxTick
BufferState == [tick : 1..MaxTick, modified : BOOLEAN, exists : BOOLEAN]
Reply == [ok : BOOLEAN, of : 0..MaxRequest, seen : Tick]

ASSUME NothingAssumption == NoState \notin BufferState /\ Nothing \notin Reply

VARIABLES
  buffer,   \* .tick, .modified, .exists: whether its file does
  disk,     \* the tick of the text in the file, 0 for an older one or none
  emacs,    \* .process: irony--server-process; .made: the number of processes started
            \* .queue[p]: :ectx-q; .unsaved[p]: :unsaved-buffers
            \* .output, .mark[p]: the process buffer and the process mark
            \* .temp: the requests with a temporary file; .gone: those with a killed buffer
            \* .pipe[p]: commands on their way
            \* what happened: .requests: their number, .done[p], .mixed: whether output of
            \* one process was put into the buffer after another one was started
  server    \* server[p]: .alive; .noticed, by Emacs; .closed, by the sentinel; .text: of set-unsaved, or 0;
            \* .busy: the reply half written; .out: what Emacs has not read;
            \* .unread: it once could not read a temporary file
vars == <<buffer, disk, emacs, server>>

----------------------------------------------------------------------------
(* Tasks of a request.                                                      *)

(* Mutated: two states with one modified flag are equal.                    *)
BufferStateCompareFlags(old, new) ==
  IF old # NoState /\ old.modified = new.modified THEN "noop"
  ELSE IF new.modified THEN "set-unsaved"
  ELSE IF old # NoState /\ old.modified /\ old.exists THEN "reset-unsaved"
  ELSE "noop"

BufferStateCompare(old, new) ==
  IF old = new THEN "noop"
  ELSE IF new.modified THEN "set-unsaved"
  ELSE IF old # NoState /\ old.modified /\ old.exists THEN "reset-unsaved"
  ELSE "noop"

ParseTask(old) ==
  LET change == BufferStateCompare(old, buffer)
      unsaved == IF change = "noop" THEN <<>> ELSE <<[kind |-> change, state |-> buffer]>>
  IN  Append(unsaved, [kind |-> "parse", state |-> buffer])

----------------------------------------------------------------------------
(* The queue of a process. The operators take Emacs' state and give it back *)
(* as the function leaves it. A result is a reply, or Nothing yet.          *)

Task(s, p) == Head(Head(s.queue[p]).tasks)
Replied(ok, of, seen) == [ok |-> ok, of |-> of, seen |-> seen]
Failed == Replied(FALSE, 0, 0)
Command(s, p) == [kind |-> Task(s, p).kind, of |-> Head(s.queue[p]).id, tick |-> buffer.tick]

(* Mutated: a request goes before those that wait.                          *)
EnqueueFirst(queue, ectx) == IF queue = <<>> THEN <<ectx>> ELSE <<Head(queue), ectx>> \o Tail(queue)
Enqueue(queue, ectx) == Append(queue, ectx)

(* Mutated: a request is started at once.                                   *)
StartsNowAlways(queue) == queue # <<>>
StartsNow(queue) == Len(queue) = 1

StartsNext(queue) == queue # <<>> /\ ~Head(queue).started

(* The result of :start, when there is one: a reset that was made already,  *)
(* or no process to send the command to. The early exit of set-unsaved is   *)
(* never taken: it asks whether the state on record is the very object the  *)
(* task has, and every request makes its states anew.                       *)
StartResult(s, p) ==
  IF Task(s, p).kind = "reset-unsaved" /\ s.unsaved[p] = NoState THEN Replied(TRUE, 0, 0)
  ELSE IF server[p].alive THEN Nothing ELSE Failed

Start(s, p) ==
  LET ectx == Head(s.queue[p])
  IN  [s EXCEPT !.queue[p] = <<[ectx EXCEPT !.started = TRUE]>> \o Tail(@),
                !.output = <<>>,
                !.mark = [q \in Process |-> 0],
                !.temp = IF Task(s, p).kind = "set-unsaved" THEN @ \cup {ectx.id} ELSE @,
                !.pipe[p] = IF StartResult(s, p) = Nothing THEN Append(@, Command(s, p)) ELSE @]

(* Mutated: the task and not the state is recorded.                         *)
OnSuccessTask(s, p) ==
  IF Task(s, p).kind = "set-unsaved" THEN [s EXCEPT !.unsaved[p] = Task(s, p)] ELSE s
OnSuccess(s, p) ==
  IF Task(s, p).kind = "set-unsaved" THEN [s EXCEPT !.unsaved[p] = Task(s, p).state] ELSE s

(* Mutated: the temporary file stays when the record does.                  *)
FinishReset(s, p) ==
  IF Task(s, p).kind = "reset-unsaved" THEN [s EXCEPT !.unsaved[p] = NoState] ELSE s
Finish(s, p) ==
  CASE Task(s, p).kind = "set-unsaved" -> [s EXCEPT !.temp = @ \ {Head(s.queue[p]).id}]
    [] Task(s, p).kind = "reset-unsaved" -> [s EXCEPT !.unsaved[p] = NoState]
    [] OTHER -> s

(* The process for a request. One that has ended is kept until Emacs has    *)
(* noticed.                                                                 *)
HasProcess(s) == s.process # NoProcess /\ ~server[s.process].noticed
MayAsk(s) == s.requests < MaxRequest /\ (HasProcess(s) \/ s.made < MaxProcess)
GetProcess(s) ==
  IF HasProcess(s) THEN s
  ELSE [s EXCEPT !.process = s.made + 1, !.made = s.made + 1,
                 !.mark[s.made + 1] = Len(s.output)]

(* What freshness depends on at the time of a request. A buffer that was    *)
(* saved while set-unsaved was on its way, or was new when it was recorded, *)
(* is not taken back.                                                       *)
Want(s, p) ==
  [tick |-> buffer.tick,
   untold |-> /\ ~buffer.modified
              /\ \/ \E i \in DOMAIN s.queue[p] : \E j \in DOMAIN s.queue[p][i].tasks :
                      s.queue[p][i].tasks[j].kind = "set-unsaved"
                 \/ s.unsaved[p] # NoState /\ ~s.unsaved[p].exists]
Fresh(want, reply) == reply.seen >= want.tick \/ want.untold

Queued(s) ==
  LET p == s.process
      ectx == [id |-> s.requests + 1, tasks |-> ParseTask(s.unsaved[p]), started |-> FALSE, want |-> Want(s, p)]
  IN  [s EXCEPT !.queue[p] = Enqueue(@, ectx), !.requests = @ + 1]

(* A request that is over leaves the queue.                                 *)
Done(ectx, kind, reply, called) ==
  [id |-> ectx.id, kind |-> kind, own |-> reply.of = ectx.id, fresh |-> Fresh(ectx.want, reply), called |-> called]
Pop(s, p, done) ==
  [s EXCEPT !.queue[p] = Tail(@), !.done[p] = Append(@, done)]

(* Mutated: callbacks are for values and errors.                            *)
PoppedUncalled(s, p, kind, reply) ==
  Pop(s, p, Done(Head(s.queue[p]), kind, reply, kind # "aborted"))

(* A callback of a buffer that was killed is not called.                    *)
Popped(s, p, kind, reply) ==
  Pop(s, p, Done(Head(s.queue[p]), kind, reply, Head(s.queue[p]).id \notin s.gone))

(* The functions of the queue call each other. Here each gives Emacs' state *)
(* and the calls that remain to be made, in their order: irony-iotask--     *)
(* start-next on a process, by the function named, or irony-iotask--abort-  *)
(* all, which goes on after a callback.                                     *)
Remains(s, calls) == [emacs |-> s, calls |-> calls]
Call(by, p) == [by |-> by, process |-> p]

Schedule(s) ==
  LET asked == Queued(GetProcess(s))
      p == asked.process
  IN  Remains(asked, IF StartsNow(asked.queue[p]) THEN <<Call("schedule", p)>> ELSE <<>>)

(* The callback of a request may make another one.                          *)
Callback(s, r) ==
  IF r \notin s.gone /\ r \in Again /\ MayAsk(s) THEN Schedule(s) ELSE Remains(s, <<>>)

(* The callback, then what its caller does next.                            *)
CallbackThen(s, r, call) == [Callback(s, r) EXCEPT !.calls = Append(@, call)]

CheckResult(s, p, result) ==
  LET ectx == Head(s.queue[p])
      finished == Finish(IF result.ok THEN OnSuccess(s, p) ELSE s, p)
      chained == [ectx EXCEPT !.tasks = Tail(@)]
  IN  IF result = Nothing THEN Remains(s, <<>>)
      ELSE IF result.ok /\ Len(ectx.tasks) > 1
      THEN Remains([finished EXCEPT !.queue[p] = <<chained>> \o Tail(@)], <<Call("continuation", p)>>)
      ELSE CallbackThen(Popped(finished, p, IF result.ok THEN "value" ELSE "error", result), ectx.id,
                        Call("start-next-safe", p))

StartNext(s, p) == CheckResult(Start(s, p), p, StartResult(s, p))

AbortAll(s, p) ==
  IF s.queue[p] = <<>> THEN Remains(s, <<>>)
  ELSE CallbackThen(Popped(s, p, "aborted", Failed), Head(s.queue[p]).id, Call("abort-all", p))

MakeCall(st) ==
  LET s == st.emacs
      call == Head(st.calls)
      p == call.process
      made == CASE call.by = "abort-all" -> AbortAll(s, p)
                [] call.by = "start-next-safe" /\ ~StartsNext(s.queue[p]) -> Remains(s, <<>>)
                [] OTHER -> StartNext(s, p)
  IN  [made EXCEPT !.calls = @ \o Tail(st.calls)]

(* All calls are made before Emacs returns. Each of them is the last, or is *)
(* for a request that is over, or brings one to an end.                     *)
MaxCalls == 4 * MaxRequest + 2
Turn(st) == IF st.calls = <<>> THEN st ELSE MakeCall(st)
Returned(st) ==
  LET after[i \in 0..MaxCalls] == IF i = 0 THEN st ELSE Turn(after[i - 1])
  IN  after[MaxCalls].emacs

----------------------------------------------------------------------------
(* Requests, output and the end of processes, in Emacs.                     *)

RunTask ==
  /\ MayAsk(emacs)
  /\ emacs' = Returned(Schedule(emacs))
  /\ UNCHANGED <<buffer, disk, server>>

(* What an update function makes of the process buffer: one expression is   *)
(* read once the buffer ends as a reply does. The error of set-unsaved and  *)
(* of reset-unsaved cannot be read.                                         *)
Update(output) ==
  IF ~output[Len(output)].last THEN Nothing
  ELSE IF Len(output) < 2 \/ output[1].last \/ output[2] # [output[1] EXCEPT !.last = TRUE] THEN Failed
  ELSE output[1].reply

(* The text goes in at the mark of the process, and moves what follows.     *)
Insert(s, p, part) ==
  LET m == s.mark[p]
  IN  [s EXCEPT !.output = SubSeq(@, 1, m) \o <<part>> \o SubSeq(@, m + 1, Len(@)),
                !.mark = [q \in Process |-> IF q = p \/ @[q] > m THEN @[q] + 1 ELSE @[q]],
                !.mixed = @ \/ p # s.made]

(* Output without a request is an error.                                    *)
ProcessFilter(p) ==
  /\ server[p].out # <<>>
  /\ LET s == Insert(emacs, p, Head(server[p].out))
     IN  emacs' = IF emacs.queue[p] = <<>> THEN emacs ELSE Returned(CheckResult(s, p, Update(s.output)))
  /\ server' = [server EXCEPT ![p].out = Tail(@)]
  /\ UNCHANGED <<buffer, disk>>

(* The sentinel runs when the last output has been read.                    *)
ProcessSentinel(p) ==
  /\ server[p].noticed /\ server[p].out = <<>> /\ ~server[p].closed
  /\ emacs' = Returned(AbortAll(emacs, p))
  /\ server' = [server EXCEPT ![p].closed = TRUE]
  /\ UNCHANGED <<buffer, disk>>

Ended(s) == [s EXCEPT !.alive = FALSE, !.text = 0, !.busy = Nothing]

ServerKill ==
  /\ HasProcess(emacs)
  /\ emacs' = [emacs EXCEPT !.process = NoProcess, !.pipe[emacs.process] = <<>>]
  /\ server' = [server EXCEPT ![emacs.process] = Ended(@)]
  /\ UNCHANGED <<buffer, disk>>

(* The buffer a request was made in is killed; for its callback it matters  *)
(* only while the request is under way. The source buffer is never killed:  *)
(* if it were on record as unsaved, later tasks would fail at it.           *)
KillBuffer ==
  /\ Cardinality(emacs.gone) < MaxKilled
  /\ \E p \in Process : \E i \in DOMAIN emacs.queue[p] :
       /\ emacs.queue[p][i].id \notin emacs.gone
       /\ emacs' = [emacs EXCEPT !.gone = @ \cup {emacs.queue[p][i].id}]
  /\ UNCHANGED <<buffer, disk, server>>

----------------------------------------------------------------------------
(* The buffer of the source.                                                *)

Edit ==
  /\ buffer.tick < MaxTick
  /\ buffer' = [buffer EXCEPT !.tick = @ + 1, !.modified = TRUE]
  /\ UNCHANGED <<disk, emacs, server>>

Save ==
  /\ buffer.modified
  /\ buffer' = [buffer EXCEPT !.modified = FALSE, !.exists = TRUE]
  /\ disk' = buffer.tick
  /\ UNCHANGED <<emacs, server>>

(* The buffer is read again, perhaps after another program wrote the file;  *)
(* changes that were not saved are given up.                                *)
Revert ==
  /\ buffer.exists /\ buffer.tick < MaxTick
  /\ buffer' = [buffer EXCEPT !.tick = @ + 1, !.modified = FALSE]
  /\ disk' = buffer.tick + 1
  /\ UNCHANGED <<emacs, server>>

----------------------------------------------------------------------------
(* The server, which answers in order, and may fail and end.                *)

SetUnsaved(command) ==
  {[text |-> command.tick, unread |-> FALSE, reply |-> Replied(TRUE, command.of, 0)],
   [text |-> 0, unread |-> TRUE, reply |-> Replied(FALSE, command.of, 0)]}

ResetUnsaved(command, text) == {[text |-> 0, unread |-> FALSE, reply |-> Replied(text # 0, command.of, 0)]}

Parse(command, text) ==
  {[text |-> text, unread |-> FALSE, reply |-> Replied(TRUE, command.of, IF text # 0 THEN text ELSE disk)],
   [text |-> text, unread |-> FALSE, reply |-> Replied(FALSE, command.of, 0)]}

Execute(command, text) ==
  CASE command.kind = "set-unsaved" -> SetUnsaved(command)
    [] command.kind = "reset-unsaved" -> ResetUnsaved(command, text)
    [] command.kind = "parse" -> Parse(command, text)

Serve(p) ==
  /\ server[p].alive /\ server[p].busy = Nothing /\ emacs.pipe[p] # <<>>
  /\ \E made \in Execute(Head(emacs.pipe[p]), server[p].text) :
       server' = [server EXCEPT ![p].text = made.text, ![p].unread = @ \/ made.unread, ![p].busy = made.reply,
                                ![p].out = Append(@, [reply |-> made.reply, last |-> FALSE])]
  /\ emacs' = [emacs EXCEPT !.pipe[p] = Tail(@)]
  /\ UNCHANGED <<buffer, disk>>

ServeRest(p) ==
  /\ server[p].alive /\ server[p].busy # Nothing
  /\ server' = [server EXCEPT ![p].busy = Nothing,
                              ![p].out = Append(@, [reply |-> server[p].busy, last |-> TRUE])]
  /\ UNCHANGED <<buffer, disk, emacs>>

Crash(p) ==
  /\ p <= emacs.made /\ server[p].alive
  /\ emacs' = [emacs EXCEPT !.pipe[p] = <<>>]
  /\ server' = [server EXCEPT ![p] = Ended(@)]
  /\ UNCHANGED <<buffer, disk>>

(* Emacs learns of the end before it has read all output.                   *)
Notice(p) ==
  /\ ~server[p].alive /\ ~server[p].noticed
  /\ server' = [server EXCEPT ![p].noticed = TRUE]
  /\ UNCHANGED <<buffer, disk, emacs>>

----------------------------------------------------------------------------
Init ==
  /\ buffer \in [tick : {1}, modified : {TRUE}, exists : BOOLEAN]
  /\ disk = 0
  /\ emacs = [process |-> NoProcess, made |-> 0,
              queue |-> [p \in Process |-> <<>>], unsaved |-> [p \in Process |-> NoState],
              output |-> <<>>, mark |-> [p \in Process |-> 0], temp |-> {}, gone |-> {},
              pipe |-> [p \in Process |-> <<>>],
              requests |-> 0, done |-> [p \in Process |-> <<>>], mixed |-> FALSE]
  /\ server = [p \in Process |-> [alive |-> TRUE, noticed |-> FALSE, closed |-> FALSE, text |-> 0, busy |-> Nothing,
                                 out |-> <<>>, unread |-> FALSE]]

Next ==
  \/ RunTask \/ ServerKill \/ KillBuffer \/ Edit \/ Save \/ Revert
  \/ \E p \in Process : \/ ProcessFilter(p) \/ ProcessSentinel(p) \/ Notice(p)
                        \/ Serve(p) \/ ServeRest(p) \/ Crash(p)

(* Emacs reads processes whenever it waits, and the server works on. What   *)
(* filters make of output, and sentinels of the end, does not matter here.  *)
Reads(p) == server[p].out # <<>> /\ server' = [server EXCEPT ![p].out = Tail(@)]
Closes(p) ==
  /\ server[p].noticed /\ server[p].out = <<>> /\ ~server[p].closed
  /\ server' = [server EXCEPT ![p].closed = TRUE]

Fairness ==
  \A p \in Process : /\ WF_server(Reads(p)) /\ WF_server(Closes(p)) /\ WF_vars(Notice(p))
                     /\ WF_vars(Serve(p) \/ ServeRest(p))

Spec == Init /\ [][Next]_vars /\ Fairness

----------------------------------------------------------------------------
(* Properties.                                                              *)

IsEctx(e) ==
  /\ e.id \in Request /\ e.started \in BOOLEAN /\ e.tasks # <<>>
  /\ \A i \in DOMAIN e.tasks : e.tasks[i] \in [kind : {"set-unsaved", "reset-unsaved", "parse"}, state : BufferState]
IsPart(part) == part.reply \in Reply /\ part.last \in BOOLEAN

(* The queue, the record of unsaved buffers and the marks have their types; *)
(* a mark is in the buffer.                                                 *)
TypeOK ==
  /\ buffer \in BufferState /\ disk \in Tick
  /\ emacs.process \in 0..emacs.made /\ emacs.made \in 0..MaxProcess
  /\ \A i \in DOMAIN emacs.output : IsPart(emacs.output[i])
  /\ \A p \in Process :
       /\ \A i \in DOMAIN emacs.queue[p] : IsEctx(emacs.queue[p][i])
       /\ emacs.unsaved[p] \in BufferState \cup {NoState}
       /\ emacs.mark[p] \in 0..Len(emacs.output)
       /\ server[p].text \in Tick
       /\ \A i \in DOMAIN server[p].out : IsPart(server[p].out[i])

(* The requests finished and waiting.                                       *)
Made(p) == LET made == emacs.done[p] \o emacs.queue[p] IN [i \in DOMAIN made |-> made[i].id]

(* Every request made of a process is finished once and in its turn, by its *)
(* result or by the end of the process, also when a callback makes another  *)
(* request or servers are killed and started (irony-iotask--check-result,   *)
(* irony-iotask--abort-all); and only the first one that waits is started.  *)
FinishedInOrder ==
  /\ \A r \in 1..emacs.requests : \E p \in Process : \E i \in DOMAIN Made(p) : Made(p)[i] = r
  /\ \A p \in Process : /\ \A i, j \in DOMAIN Made(p) : i < j => Made(p)[i] < Made(p)[j]
                        /\ \A i \in DOMAIN emacs.queue[p] : emacs.queue[p][i].started <=> i = 1

(* All that a process and Emacs have under way is about the first request   *)
(* of its queue, which has something under way as long as the process runs, *)
(* and a callback gets the reply to its own request: nothing is sent before *)
(* the reply to what was sent (irony-iotask--start-next). It fails once the *)
(* output of a process that has ended goes into the buffer that another one *)
(* uses already.                                                            *)
InStep ==
  emacs.mixed \/
  \A p \in Process :
    LET queue == emacs.queue[p]
        pipe == emacs.pipe[p]
        out == server[p].out
        read == IF p = emacs.made /\ queue # <<>> THEN emacs.output ELSE <<>>
    IN  /\ \A i \in DOMAIN emacs.done[p] :
             emacs.done[p][i].kind = "value" => emacs.done[p][i].own
        /\ server[p].alive =>
             /\ (queue = <<>>) <=> (pipe = <<>> /\ out = <<>> /\ read = <<>>)
             /\ \A i \in DOMAIN pipe : pipe[i].of = queue[1].id
             /\ \A i \in DOMAIN out : out[i].reply.of = queue[1].id
             /\ Len(pipe) + (IF out # <<>> \/ read # <<>> THEN 1 ELSE 0) <= 1

(* A request that is answered is answered about the text there was when it  *)
(* was made, or a later one; except that a buffer saved while set-unsaved   *)
(* was on its way, or that was new when it was recorded, is not taken back, *)
(* and the request sees the older text (Want); and that a text the server could    *)
(* not read is on record as told, if it was told before                     *)
(* (irony--buffer-state-compare, irony--get-buffer-change-alist).           *)
FreshAnswers ==
  emacs.mixed \/
  \A p \in Process : \A i \in DOMAIN emacs.done[p] :
    emacs.done[p][i].kind = "value" => emacs.done[p][i].fresh \/ server[p].unread

(* A temporary file is there while its set-unsaved runs, and otherwise only *)
(* when the process ended under it (the :finish of irony--t-set-unsaved).   *)
TempFilesDeleted ==
  \A r \in emacs.temp : \E p \in Process :
    \/ emacs.queue[p] # <<>> /\ Head(emacs.queue[p]).id = r /\ Task(emacs, p).kind = "set-unsaved"
    \/ \E i \in DOMAIN emacs.done[p] : emacs.done[p][i].id = r /\ emacs.done[p][i].kind = "aborted"

(* The callback of every request is called in the end, which                *)
(* irony-iotask-run waits for, when the server works on and Emacs reads;    *)
(* unless its buffer was killed, or output was mixed.                       *)
Called(r) == \E p \in Process : \E i \in DOMAIN emacs.done[p] : emacs.done[p][i].id = r /\ emacs.done[p][i].called
EventuallyCalled == []<>(emacs.mixed \/ \A r \in 1..emacs.requests : Called(r) \/ r \in emacs.gone)
=============================================================================
