---------------------------- MODULE PdfInfoQueue ----------------------------
(***************************************************************************)
(* pdf-info.el: queries from Emacs to the epdfinfo server through a        *)
(* transmission queue (tq).  Emacs is single threaded, but a synchronous   *)
(* query waits in accept-process-output, where timers run and where the    *)
(* process filter calls the callbacks of queries answered meanwhile.  All  *)
(* of these may query the server again, find it dead, restart it or quit   *)
(* it, while the query below them on the stack is still waiting.           *)
(***************************************************************************)
EXTENDS Naturals, FiniteSets, SequencesExt

CONSTANTS
  Query,         \* the queries that will be made, each once
  QuitQuery,     \* those of them that are the command quit
  None,          \* no query
  Restart,       \* pdf-info-restart-process-p to begin with
  ForeignText,   \* the buffer current when a tq buffer is killed has a line "."
  MayCrash,      \* the server may die before it is told to quit
  MaxServers,    \* bound on the servers started
  MaxFrames      \* bound on the nesting of commands and timers

ASSUME QueueAssumption ==
  /\ QuitQuery \subseteq Query
  /\ None \notin Query
  /\ Restart \in {"nil", "t", "ask"}
  /\ ForeignText \in BOOLEAN /\ MayCrash \in BOOLEAN
  /\ MaxServers \in Nat /\ MaxFrames \in Nat

Server == 1..MaxServers

VARIABLES
  tq,        \* pdf-info--queue: "t" (never ran), "nil", or "tq"
  restart,   \* pdf-info-restart-process-p
  server,    \* the number of the last server started
  status,    \* process-status of its process
  alive,     \* whether it really runs
  stdin,     \* the queries it has not read
  stdout,    \* its answers that Emacs has not read; an answer is its query
  pending,   \* pending[s]: the tq-queue of server s
  asked,     \* asked[q]: how q was put into a tq-queue, "no" if it was not
  answer,    \* answer[q]: the answer q's callback was called with
  frames     \* the Lisp that runs, the innermost last

vars == <<tq, restart, server, status, alive, stdin, stdout, pending, asked, answer, frames>>
pipes == <<stdin, stdout>>

\* A text that is the answer to no query.
Garbage == "garbage"

\* Lisp runs a command, a timer, or a callback of the filter of a server; it is
\* running, or it waits in a query or in pdf-info-quit.
Frame ==
  {f \in [ by    : {"command", "timer", "filter"},
           of    : 0..MaxServers,
           mode  : {"running", "query", "quit", "timeout"},
           query : Query \cup {None} ] : f.by = "filter" <=> f.of # 0}

TypeOK ==
  /\ tq \in {"t", "nil", "tq"}
  /\ restart \in {"nil", "t", "ask"}
  /\ server \in 0..MaxServers
  /\ status \in {"run", "exit"}
  /\ alive \in BOOLEAN
  /\ stdin \in Seq(Query) /\ stdout \in Seq(Query)
  /\ pending \in [Server -> Seq(Query)]
  /\ asked \in [Query -> {"no", "sync", "async"}]
  /\ answer \in [Query -> Query \cup {None, Garbage}]
  /\ frames \in Seq(Frame)

NewFrame(by, of) == [by |-> by, of |-> of, mode |-> "running", query |-> None]

Top == Last(frames)
LispRuns == frames # <<>> /\ Top.mode = "running"
Waiting == frames # <<>> /\ Top.mode # "running"
SetTop(mode, q) == frames' = Append(Front(frames), [Top EXCEPT !.mode = mode, !.query = q])

\* pdf-info-running-p
Running == tq = "tq" /\ status = "run"

-----------------------------------------------------------------------------
(* pdf-info-query.                                                         *)

\* tq-close deletes the process and its buffer, the tq-queue stays.
CloseTq ==
  /\ tq' = "nil"
  /\ alive' = FALSE
  /\ stdin' = <<>> /\ stdout' = <<>>
  /\ UNCHANGED <<server, status, pending>>

\* tq-enqueue: the query is queued before it is sent.
Enqueue(q, how) ==
  /\ pending' = [pending EXCEPT ![server] = Append(@, q)]
  /\ asked' = [asked EXCEPT ![q] = how]

\* Mutant: the entry in the queue has no callback.
SendWithoutCallback(q, how) ==
  /\ Running /\ alive
  /\ Enqueue(q, None)
  /\ stdin' = Append(stdin, q)
  /\ UNCHANGED <<tq, restart, server, status, alive, stdout, answer>>

\* The server runs, as far as Emacs knows, and the query is sent.
Send(q, how) ==
  /\ Running /\ alive
  /\ Enqueue(q, how)
  /\ stdin' = Append(stdin, q)
  /\ UNCHANGED <<tq, restart, server, status, alive, stdout, answer>>

\* The server has died meanwhile: sending breaks the pipe and signals an error.
SendFails(q, how) ==
  /\ Running /\ ~alive
  /\ Enqueue(q, how)
  /\ status' = "exit"
  /\ stdin' = <<>> /\ stdout' = <<>>
  /\ UNCHANGED <<tq, restart, server, alive, answer, frames>>

\* pdf-info-process-assert-running starts the server: it never ran, or died and
\* may be restarted (asked, the user answers yes).
MayStart == ~Running /\ (tq = "t" \/ restart # "nil")

\* Mutant: the new process goes on with the buffer of the old one.
StartServerInOldBuffer(queued) ==
  /\ server < MaxServers
  /\ tq' = "tq"
  /\ server' = server + 1
  /\ status' = "run" /\ alive' = TRUE
  /\ stdin' = queued /\ UNCHANGED stdout
  /\ pending' = [pending EXCEPT ![server + 1] = queued]

StartServer(queued) ==
  /\ server < MaxServers
  /\ tq' = "tq"
  /\ server' = server + 1
  /\ status' = "run" /\ alive' = TRUE
  /\ stdin' = queued /\ stdout' = <<>>
  /\ pending' = [pending EXCEPT ![server + 1] = queued]

Restarted(q, how) ==
  /\ MayStart
  /\ StartServer(<<q>>)
  /\ asked' = [asked EXCEPT ![q] = how]
  /\ UNCHANGED <<restart, answer>>

\* The server may not be restarted (asked, the user answers no), or the check of
\* the program before it is started fails.  The old process is gone in any case.
AssertFails ==
  /\ ~Running
  /\ \/ /\ tq # "t" /\ restart # "t"
        /\ restart' = "nil"
     \/ MayStart /\ UNCHANGED restart
  /\ tq' = IF tq = "t" THEN "t" ELSE "nil"
  /\ alive' = FALSE
  /\ stdin' = <<>> /\ stdout' = <<>>
  /\ UNCHANGED <<server, status, pending, asked, answer, frames>>

\* Lisp queries the server and, if pdf-info-asynchronous is nil, waits.
PdfInfoQuery(q, how) ==
  /\ LispRuns
  /\ asked[q] = "no"
  /\ \/ /\ Send(q, how) \/ Restarted(q, how)
        /\ IF how = "sync" THEN SetTop("query", q) ELSE UNCHANGED frames
     \/ SendFails(q, how)
     \/ AssertFails

\* Mutant: the loop does not look whether the process still runs.
QueryReturnsWhenDone ==
  /\ Waiting /\ Top.mode = "query"
  /\ answer[Top.query] # None
  /\ SetTop("running", None)
  /\ UNCHANGED <<tq, restart, server, status, alive, pipes, pending, asked, answer>>

\* The loop in pdf-info-query ends: the answer came, or the process that is now
\* in pdf-info--queue is not running (an error, as is no process).
QueryReturns ==
  /\ Waiting /\ Top.mode = "query"
  /\ answer[Top.query] # None \/ ~Running
  /\ SetTop("running", None)
  /\ UNCHANGED <<tq, restart, server, status, alive, pipes, pending, asked, answer>>

-----------------------------------------------------------------------------
(* pdf-info-quit and pdf-info-kill, which pdf-tools calls in commands only. *)

\* pdf-info-kill, and pdf-info-quit when no server runs.
PdfInfoKill ==
  /\ LispRuns /\ Top.by = "command"
  /\ CloseTq
  /\ UNCHANGED <<restart, asked, answer, frames>>

\* mode is "quit" without a timeout, "timeout" with one.
PdfInfoQuit(q, mode) ==
  /\ LispRuns /\ Top.by = "command"
  /\ asked[q] = "no"
  /\ LET how == IF mode = "quit" THEN "sync" ELSE "async"
     IN  \/ Send(q, how) /\ SetTop(mode, q)
         \/ SendFails(q, how)

\* Without a timeout the loop is that of pdf-info-query, which takes the end of
\* the server for an answer to quit.  No process at all is an error.
QuitReturns ==
  /\ Waiting /\ Top.mode \in {"quit", "timeout"}
  /\ SetTop("running", None)
  /\ UNCHANGED <<restart, asked, answer>>
  /\ \/ /\ Top.mode = "quit" => answer[Top.query] # None \/ (tq = "tq" /\ status # "run")
        /\ CloseTq
     \/ /\ Top.mode = "quit" /\ tq # "tq" /\ answer[Top.query] = None
        /\ UNCHANGED <<tq, server, status, alive, pipes, pending>>

-----------------------------------------------------------------------------
(* The server, its process, and what Emacs reads from it.                  *)

\* main(): one command after the other; quit is answered and ends the server.
Serve ==
  /\ alive /\ stdin # <<>>
  /\ stdout' = Append(stdout, Head(stdin))
  /\ IF Head(stdin) \in QuitQuery
     THEN alive' = FALSE /\ stdin' = <<>>
     ELSE UNCHANGED alive /\ stdin' = Tail(stdin)
  /\ UNCHANGED <<tq, restart, server, status, pending, asked, answer, frames>>

\* The server dies; what it has written can still be read.
Crash ==
  /\ MayCrash /\ alive
  /\ alive' = FALSE
  /\ stdin' = <<>>
  /\ UNCHANGED <<tq, restart, server, status, stdout, pending, asked, answer, frames>>

\* Emacs is told (SIGCHLD), at any time, before or after it has read the rest.
NoticeExit ==
  /\ tq = "tq" /\ ~alive /\ status = "run"
  /\ status' = "exit"
  /\ UNCHANGED <<tq, restart, server, alive, pipes, pending, asked, answer, frames>>

\* Mutants: the queue is not popped; it is popped before its head is called.
CallBackUnpopped(s, a) ==
  /\ pending[s] # <<>>
  /\ answer' = [answer EXCEPT ![Head(pending[s])] = a]
  /\ UNCHANGED <<pending, frames>>
CallBackNext(s, a) ==
  /\ Len(pending[s]) > 1
  /\ pending' = [pending EXCEPT ![s] = Tail(@)]
  /\ answer' = [answer EXCEPT ![pending[s][2]] = a]
  /\ UNCHANGED frames

\* tq-process-buffer takes the head of the queue of server s and calls its
\* callback with an answer.  That of a synchronous query only notes the answer.
CallBack(s, a) ==
  LET q == Head(pending[s])
  IN  /\ pending[s] # <<>>
      /\ pending' = [pending EXCEPT ![s] = Tail(@)]
      /\ answer' = [answer EXCEPT ![q] = a]
      /\ IF asked[q] = "async" /\ q \notin QuitQuery
         THEN frames' = Append(frames, NewFrame("filter", s))
         ELSE UNCHANGED frames

\* The filter runs when Lisp waits, and in the command loop.
Filter ==
  /\ tq = "tq" /\ ~LispRuns /\ stdout # <<>>
  /\ stdout' = Tail(stdout)
  /\ CallBack(server, Head(stdout))
  /\ UNCHANGED <<tq, restart, server, status, alive, stdin, asked>>

-----------------------------------------------------------------------------
(* Lisp comes and goes.                                                    *)

\* A command begins when nothing else runs, a timer also while Lisp waits.
Begin(by) ==
  /\ frames = <<>> \/ (by = "timer" /\ Waiting)
  /\ Len(frames) < MaxFrames
  /\ frames' = Append(frames, NewFrame(by, 0))
  /\ UNCHANGED <<tq, restart, server, status, alive, pipes, pending, asked, answer>>

\* C-g while a command waits: its query stays in the tq-queue.
KeyboardQuit ==
  /\ Len(frames) = 1 /\ Waiting /\ Top.by = "command"
  /\ frames' = <<>>
  /\ UNCHANGED <<tq, restart, server, status, alive, pipes, pending, asked, answer>>

\* The command pdf-info-process-assert-running with a prefix argument.
ForceStart ==
  /\ frames = <<>> /\ ~Running
  /\ StartServer(<<>>)
  /\ UNCHANGED <<restart, asked, answer, frames>>

FilterClosed(s) == tq # "tq" \/ s # server

\* A command, a timer or a callback ends.
Return ==
  /\ LispRuns
  /\ frames' = Front(frames)
  /\ UNCHANGED <<tq, restart, server, status, alive, pipes, pending, asked, answer>>

\* A callback ends that closed the tq in whose filter it runs.  The buffer of the
\* tq is dead, and the loop of tq-process-buffer goes on in another, where it
\* takes a line "." for the end of an answer to the next query in the old queue.
ReturnElsewhere ==
  /\ LispRuns /\ Top.by = "filter" /\ FilterClosed(Top.of)
  /\ ForeignText /\ pending[Top.of] # <<>>
  /\ LET q == Head(pending[Top.of])
     IN  /\ pending' = [pending EXCEPT ![Top.of] = Tail(@)]
         /\ answer' = [answer EXCEPT ![q] = Garbage]
         /\ IF asked[q] = "async" /\ q \notin QuitQuery
            THEN UNCHANGED frames ELSE frames' = Front(frames)
  /\ UNCHANGED <<tq, restart, server, status, alive, pipes, asked>>

-----------------------------------------------------------------------------
Init ==
  /\ tq = "t" /\ restart = Restart
  /\ server = 0 /\ status = "exit" /\ alive = FALSE
  /\ stdin = <<>> /\ stdout = <<>>
  /\ pending = [s \in Server |-> <<>>]
  /\ asked = [q \in Query |-> "no"]
  /\ answer = [q \in Query |-> None]
  /\ frames = <<>>

Lisp ==
  \/ \E by \in {"command", "timer"} : Begin(by)
  \/ \E q \in Query \ QuitQuery, how \in {"sync", "async"} : PdfInfoQuery(q, how)
  \/ PdfInfoKill
  \/ \E q \in QuitQuery, mode \in {"quit", "timeout"} : PdfInfoQuit(q, mode)
  \/ KeyboardQuit \/ ForceStart

Next ==
  \/ Lisp \/ QueryReturns \/ QuitReturns \/ Return \/ ReturnElsewhere
  \/ Serve \/ Crash \/ NoticeExit \/ Filter

Spec == Init /\ [][Next]_vars

(***************************************************************************)
(* The server executes what it reads, Emacs is told when a process ends,   *)
(* and Lisp code comes to its end.  accept-process-output attends to every *)
(* source of events in turn: timers keep it neither from reading answers   *)
(* nor from returning to the loop that called it.                          *)
(***************************************************************************)
Fairness ==
  /\ WF_vars(Serve) /\ WF_vars(NoticeExit) /\ WF_vars(Return)
  /\ SF_vars(Filter) /\ SF_vars(QueryReturns) /\ SF_vars(QuitReturns)

FairSpec == Spec /\ Fairness

-----------------------------------------------------------------------------
(* What the queries rely on.                                               *)

\* The tq-queue is what the server still has to answer and Emacs still has to
\* read, in the same order: what arrives is for the head of the queue.  After
\* the server died the answers still to be read are for the first queries.
QueueInStep ==
  tq = "tq" =>
    /\ IsPrefix(stdout \o stdin, pending[server])
    /\ alive => pending[server] = stdout \o stdin

\* The callback of a query is called with the answer to that query and no
\* other, whatever callbacks, timers and restarts happen in between.
RightAnswer == \A q \in Query : answer[q] \in {None, q}

\* A query that was not asked has no answer and is in no queue.
AskedOnce ==
  \A q \in Query : asked[q] = "no" =>
    /\ answer[q] = None
    /\ \A s \in Server : \A i \in DOMAIN pending[s] : pending[s][i] # q

\* The inductive invariant.  Only a process that is in the tq runs, and is known to.
IInv ==
  /\ TypeOK
  /\ QueueInStep
  /\ AskedOnce
  /\ alive => tq = "tq" /\ status = "run"
  /\ tq = "tq" => server \in Server

Service == INSTANCE RequestReply WITH
  line <- IF tq = "tq" THEN pending[server] ELSE <<>>

\* Queries are answered at most once, in the order they were asked of a server,
\* and none after its server was given up.
ImplementsRequestReply == Service!Spec

Waits(q) ==
  \E i \in DOMAIN frames : frames[i].mode \in {"query", "quit"} /\ frames[i].query = q

\* A synchronous query returns, with an answer or an error: the server answers
\* it, or pdf-info.el:387 signals "The epdfinfo server quit unexpectedly."
QueryEnds == \A q \in Query : Waits(q) ~> ~Waits(q)

\* pdf-info.el:1337 on pdf-info-quit: "This blocks until all outstanding
\* requests are answered."
QuitDrains ==
  [][ \A i \in DOMAIN frames :
        tq = "tq" /\ frames[i].mode = "quit" /\ Len(frames') = Len(frames) /\ frames'[i].mode = "running"
        => \A j \in DOMAIN pending[server] : pending[server][j] = frames[i].query ]_vars
=============================================================================
