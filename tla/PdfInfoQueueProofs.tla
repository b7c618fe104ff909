------------------------- MODULE PdfInfoQueueProofs -------------------------
(* Proofs about PdfInfoQueue, for every value of its constants.  That every *)
(* query gets its own answer needs one thing more: the buffer that becomes  *)
(* current when a tq buffer is killed has no line ".".                      *)
EXTENDS PdfInfoQueue, SequenceTheorems, TLAPS

-----------------------------------------------------------------------------
(* Sequences.                                                              *)

\* A prefix agrees with the sequence, element by element.
LEMMA PrefixPointwise ==
  ASSUME NEW S, NEW s \in Seq(S), NEW t \in Seq(S)
  PROVE  IsPrefix(s, t) <=> Len(s) <= Len(t) /\ \A i \in 1..Len(s) : s[i] = t[i]
<1>1. Len(s) \in Nat /\ Len(t) \in Nat
  OBVIOUS
<1>2. SubSeq(s, 1, Len(s)) = s
  BY SubSeqFull
<1>3. ASSUME Len(s) <= Len(t)
      PROVE  /\ SubSeq(t, 1, Len(s)) \in Seq(S)
             /\ Len(SubSeq(t, 1, Len(s))) = Len(s)
             /\ \A i \in 1..Len(s) : SubSeq(t, 1, Len(s))[i] = t[i]
  BY <1>1, <1>3
<1>4. ASSUME Len(s) <= Len(t)
      PROVE  s = SubSeq(t, 1, Len(s)) <=> \A i \in 1..Len(s) : s[i] = t[i]
  <2>1. ASSUME \A i \in 1..Len(s) : s[i] = t[i]
        PROVE  s = SubSeq(t, 1, Len(s))
    BY <1>3, <1>4, <2>1, SeqEqual
  <2>2. QED
    BY <1>3, <1>4, <2>1
<1>5. QED
  BY <1>2, <1>4 DEF IsPrefix

\* What was asked stays in front of what is asked later.
LEMMA PrefixAppend ==
  ASSUME NEW S, NEW s \in Seq(S), NEW t \in Seq(S), NEW e \in S, IsPrefix(s, t)
  PROVE  IsPrefix(s, Append(t, e))
<1>1. Len(s) <= Len(t) /\ \A i \in 1..Len(s) : s[i] = t[i]
  BY PrefixPointwise
<1>2. /\ Append(t, e) \in Seq(S) /\ Len(Append(t, e)) = Len(t) + 1
      /\ \A i \in 1..Len(t) : Append(t, e)[i] = t[i]
  BY AppendProperties
<1>3. Len(s) \in Nat /\ Len(t) \in Nat
  OBVIOUS
<1>4. Len(s) <= Len(Append(t, e)) /\ \A i \in 1..Len(s) : s[i] = Append(t, e)[i]
  BY <1>1, <1>2, <1>3
<1>5. QED
  BY <1>2, <1>4, PrefixPointwise

\* The first answer is for the first query, and the rest stays in step.
LEMMA PrefixTail ==
  ASSUME NEW S, NEW s \in Seq(S), NEW u \in Seq(S), NEW t \in Seq(S),
         s # <<>>, IsPrefix(s \o u, t)
  PROVE  /\ t # <<>> /\ Head(t) = Head(s)
         /\ IsPrefix(Tail(s) \o u, Tail(t))
<1>1. /\ s \o u \in Seq(S) /\ Len(s \o u) = Len(s) + Len(u)
      /\ \A i \in 1..(Len(s) + Len(u)) : (s \o u)[i] = IF i <= Len(s) THEN s[i] ELSE u[i - Len(s)]
  BY ConcatProperties
<1>2. Len(s \o u) <= Len(t) /\ \A i \in 1..Len(s \o u) : (s \o u)[i] = t[i]
  BY <1>1, PrefixPointwise
<1>3. Len(s) \in Nat \ {0} /\ Len(u) \in Nat /\ Len(t) \in Nat
  BY EmptySeq
<1>4. t # <<>> /\ Head(t) = Head(s)
  <2>1. 1 \in 1..Len(s \o u) /\ 1 \in 1..(Len(s) + Len(u)) /\ 1 <= Len(s)
    BY <1>1, <1>3
  <2>2. (s \o u)[1] = s[1] /\ (s \o u)[1] = t[1]
    BY <2>1, <1>1, <1>2
  <2>3. t # <<>>
    BY <1>1, <1>2, <1>3
  <2>4. QED
    BY <2>2, <2>3
<1>5. /\ Tail(s) \in Seq(S) /\ Len(Tail(s)) = Len(s) - 1
      /\ \A i \in 1..Len(Tail(s)) : Tail(s)[i] = s[i + 1]
  BY HeadTailProperties
<1>6. /\ Tail(t) \in Seq(S) /\ Len(Tail(t)) = Len(t) - 1
      /\ \A i \in 1..Len(Tail(t)) : Tail(t)[i] = t[i + 1]
  BY <1>4, HeadTailProperties
<1>7. /\ Tail(s) \o u \in Seq(S) /\ Len(Tail(s) \o u) = Len(s) - 1 + Len(u)
      /\ \A i \in 1..(Len(s) - 1 + Len(u)) :
           (Tail(s) \o u)[i] = IF i <= Len(s) - 1 THEN Tail(s)[i] ELSE u[i - (Len(s) - 1)]
  BY <1>5, ConcatProperties
<1>8. ASSUME NEW i \in 1..(Len(s) - 1 + Len(u))
      PROVE  (Tail(s) \o u)[i] = Tail(t)[i]
  <2>1. i + 1 \in 1..(Len(s) + Len(u)) /\ i \in 1..Len(Tail(t)) /\ i + 1 \in 1..Len(s \o u)
    BY <1>1, <1>2, <1>3, <1>6
  <2>2. (s \o u)[i + 1] = Tail(t)[i]
    BY <2>1, <1>2, <1>6
  <2>3. CASE i <= Len(s) - 1
    <3>1. i \in 1..Len(Tail(s)) /\ i + 1 <= Len(s)
      BY <2>3, <1>3, <1>5
    <3>2. (s \o u)[i + 1] = s[i + 1] /\ Tail(s)[i] = s[i + 1]
      BY <3>1, <2>1, <1>1, <1>5
    <3>3. (Tail(s) \o u)[i] = Tail(s)[i]
      BY <2>3, <1>7
    <3>4. QED
      BY <3>2, <3>3, <2>2
  <2>4. CASE ~(i <= Len(s) - 1)
    <3>1. ~(i + 1 <= Len(s)) /\ (i + 1) - Len(s) = i - (Len(s) - 1)
      BY <2>4, <1>3
    <3>2. (s \o u)[i + 1] = u[(i + 1) - Len(s)]
      BY <3>1, <2>1, <1>1
    <3>3. (Tail(s) \o u)[i] = u[i - (Len(s) - 1)]
      BY <2>4, <1>7
    <3>4. QED
      BY <3>1, <3>2, <3>3, <2>2
  <2>5. QED
    BY <2>3, <2>4
<1>9. Len(Tail(s) \o u) <= Len(Tail(t))
  BY <1>1, <1>2, <1>3, <1>6, <1>7
<1>10. QED
  BY <1>4, <1>6, <1>7, <1>8, <1>9, PrefixPointwise

\* The rest of what was asked, when the first answer was read.
LEMMA TailOfConcat ==
  ASSUME NEW S, NEW s \in Seq(S), NEW u \in Seq(S), s # <<>>
  PROVE  Tail(s \o u) = Tail(s) \o u
<1>1. /\ Head(s) \in S /\ Tail(s) \in Seq(S) /\ Tail(s) \o u \in Seq(S)
  BY HeadTailProperties, ConcatProperties
<1>2. <<Head(s)>> \in Seq(S) /\ s = <<Head(s)>> \o Tail(s)
  BY <1>1
<1>3. s \o u = <<Head(s)>> \o (Tail(s) \o u)
  BY <1>1, <1>2, ConcatAssociative
<1>4. Tail(<<Head(s)>> \o (Tail(s) \o u)) = Tail(s) \o u
  BY <1>1, <1>2
<1>5. QED
  BY <1>3, <1>4

\* Executing a command moves it from one pipe to the other.
LEMMA MoveHead ==
  ASSUME NEW S, NEW s \in Seq(S), NEW u \in Seq(S), u # <<>>
  PROVE  Append(s, Head(u)) \o Tail(u) = s \o u
<1>1. Head(u) \in S /\ Tail(u) \in Seq(S)
  BY HeadTailProperties
<1>2. Append(s, Head(u)) = s \o <<Head(u)>> /\ <<Head(u)>> \in Seq(S)
  BY <1>1, AppendIsConcat
<1>3. <<Head(u)>> \o Tail(u) = u
  BY <1>1
<1>4. QED
  BY <1>1, <1>2, <1>3, ConcatAssociative

\* A prefix of a prefix.
LEMMA PrefixOfConcat ==
  ASSUME NEW S, NEW s \in Seq(S), NEW u \in Seq(S), NEW t \in Seq(S), IsPrefix(s \o u, t)
  PROVE  IsPrefix(s, t)
<1>1. /\ s \o u \in Seq(S) /\ Len(s \o u) = Len(s) + Len(u)
      /\ \A i \in 1..(Len(s) + Len(u)) : (s \o u)[i] = IF i <= Len(s) THEN s[i] ELSE u[i - Len(s)]
  BY ConcatProperties
<1>2. Len(s \o u) <= Len(t) /\ \A i \in 1..Len(s \o u) : (s \o u)[i] = t[i]
  BY <1>1, PrefixPointwise
<1>3. Len(s) \in Nat /\ Len(u) \in Nat /\ Len(t) \in Nat
  OBVIOUS
<1>4. Len(s) <= Len(t) /\ \A i \in 1..Len(s) : s[i] = t[i]
  BY <1>1, <1>2, <1>3
<1>5. QED
  BY <1>4, PrefixPointwise

\* Nothing is a prefix of everything.
LEMMA EmptyIsPrefix ==
  ASSUME NEW S, NEW t \in Seq(S)
  PROVE  IsPrefix(<<>>, t)
<1>1. Len(<<>>) = 0 /\ Len(t) \in Nat
  OBVIOUS
<1>2. SubSeq(<<>>, 1, 0) = <<>> /\ SubSeq(t, 1, 0) = <<>>
  BY SubSeqEmpty
<1>3. QED
  BY <1>1, <1>2 DEF IsPrefix

-----------------------------------------------------------------------------
(* The stack of Lisp frames.                                               *)

\* Leaving the innermost frame, or changing what it does, leaves a stack.
LEMMA StackProperties ==
  ASSUME frames \in Seq(Frame), frames # <<>>,
         NEW mode \in {"running", "query", "quit", "timeout"}, NEW q \in Query \cup {None}
  PROVE  /\ Top \in Frame
         /\ Front(frames) \in Seq(Frame)
         /\ Append(Front(frames), [Top EXCEPT !.mode = mode, !.query = q]) \in Seq(Frame)
<1>1. Len(frames) \in Nat \ {0}
  BY EmptySeq
<1>2. Top \in Frame
  BY <1>1, ElementOfSeq DEF Top, Last
<1>3. [Top EXCEPT !.mode = mode, !.query = q] \in Frame
  BY <1>2 DEF Frame
<1>4. \A i \in 1..(Len(frames) - 1) : frames[i] \in Frame
  BY <1>1, ElementOfSeq
<1>5. Front(frames) \in Seq(Frame)
  BY <1>1, <1>4, SubSeqProperties DEF Front
<1>6. QED
  BY <1>2, <1>3, <1>5, AppendProperties

\* A command, a timer and a callback begin with a frame of their own.
LEMMA NewFrameType ==
  ASSUME QueueAssumption, frames \in Seq(Frame),
         NEW by \in {"command", "timer", "filter"}, NEW of \in 0..MaxServers,
         by = "filter" <=> of # 0
  PROVE  Append(frames, NewFrame(by, of)) \in Seq(Frame)
<1>1. NewFrame(by, of) \in Frame
  BY DEF NewFrame, Frame
<1>2. QED
  BY <1>1, AppendProperties

-----------------------------------------------------------------------------
(* The inductive invariant.                                                *)

Untouched == <<tq, restart, server, status, alive, pipes, pending, asked, answer>>

\* What happens to the Lisp stack alone.
LEMMA OnlyFrames ==
  ASSUME IInv, frames' \in Seq(Frame), UNCHANGED Untouched
  PROVE  IInv'
<1> USE DEF Untouched, pipes
<1>1. TypeOK'
  BY DEF IInv, TypeOK
<1>2. QueueInStep' /\ AskedOnce'
  BY DEF IInv, QueueInStep, AskedOnce
<1>3. QED
  BY <1>1, <1>2 DEF IInv

\* The queue is closed, or there is none: no server is known to run.
LEMMA GivenUp ==
  ASSUME IInv, tq' \in {"t", "nil"}, restart' \in {"nil", "t", "ask"}, alive' = FALSE,
         stdin' = <<>>, stdout' = <<>>, frames' \in Seq(Frame),
         UNCHANGED <<server, status, pending, asked, answer>>
  PROVE  IInv'
<1>1. <<>> \in Seq(Query)
  BY EmptySeq
<1>2. TypeOK'
  BY <1>1 DEF IInv, TypeOK
<1>3. QueueInStep' /\ AskedOnce'
  BY DEF IInv, QueueInStep, AskedOnce
<1>4. QED
  BY <1>2, <1>3 DEF IInv

\* A query in no queue is put into one.
LEMMA EnqueueProperties ==
  ASSUME IInv, Running, NEW q \in Query, NEW how \in {"sync", "async"}, asked[q] = "no",
         Enqueue(q, how), UNCHANGED answer
  PROVE  /\ pending' \in [Server -> Seq(Query)]
         /\ asked' \in [Query -> {"no", "sync", "async"}]
         /\ pending'[server] = Append(pending[server], q)
         /\ AskedOnce'
<1>1. server \in Server /\ pending \in [Server -> Seq(Query)]
  BY DEF IInv, TypeOK, Running
<1>2. /\ Append(pending[server], q) \in Seq(Query)
      /\ Len(Append(pending[server], q)) = Len(pending[server]) + 1
      /\ \A i \in 1..Len(pending[server]) : Append(pending[server], q)[i] = pending[server][i]
      /\ Append(pending[server], q)[Len(pending[server]) + 1] = q
  BY <1>1, AppendProperties
<1>3. /\ pending' \in [Server -> Seq(Query)]
      /\ pending'[server] = Append(pending[server], q)
      /\ \A s \in Server : s # server => pending'[s] = pending[s]
  BY <1>1, <1>2 DEF Enqueue
<1>4. /\ asked' \in [Query -> {"no", "sync", "async"}]
      /\ \A r \in Query : asked'[r] = "no" => asked[r] = "no" /\ r # q
  BY DEF IInv, TypeOK, Enqueue
<1>5. ASSUME NEW r \in Query, asked'[r] = "no", NEW s \in Server, NEW i \in DOMAIN pending'[s]
      PROVE  pending'[s][i] # r
  <2>1. \A j \in DOMAIN pending[s] : pending[s][j] # r
    BY <1>4, <1>5 DEF IInv, AskedOnce
  <2>2. CASE s # server
    BY <2>1, <2>2, <1>3, <1>5
  <2>3. CASE s = server
    <3>1. DOMAIN pending[s] = 1..Len(pending[s]) /\ Len(pending[s]) \in Nat
      BY <1>1
    <3>2. i \in 1..(Len(pending[s]) + 1)
      BY <2>3, <1>2, <1>3, <1>5
    <3>3. i \in 1..Len(pending[s]) \/ i = Len(pending[s]) + 1
      BY <3>1, <3>2
    <3>4. QED
      BY <3>1, <3>3, <2>1, <2>3, <1>2, <1>3, <1>4, <1>5
  <2>4. QED
    BY <2>2, <2>3
<1>6. AskedOnce'
  BY <1>4, <1>5 DEF IInv, AskedOnce
<1>7. QED
  BY <1>3, <1>4, <1>6

\* A query that is sent is the last in the queue and the last the server reads.
LEMMA SendInv ==
  ASSUME IInv, NEW q \in Query, NEW how \in {"sync", "async"}, asked[q] = "no",
         Send(q, how), frames' \in Seq(Frame)
  PROVE  IInv'
<1>1. /\ Running /\ alive /\ Enqueue(q, how)
      /\ stdin' = Append(stdin, q)
      /\ UNCHANGED <<tq, restart, server, status, alive, stdout, answer>>
  BY DEF Send
<1>2. /\ pending' \in [Server -> Seq(Query)]
      /\ asked' \in [Query -> {"no", "sync", "async"}]
      /\ pending'[server] = Append(pending[server], q)
      /\ AskedOnce'
  BY <1>1, EnqueueProperties
<1>3. stdin \in Seq(Query) /\ stdout \in Seq(Query)
  BY DEF IInv, TypeOK
<1>4. TypeOK'
  BY <1>1, <1>2, <1>3, AppendProperties DEF IInv, TypeOK
<1>5. pending[server] = stdout \o stdin
  BY <1>1 DEF IInv, QueueInStep, Running
<1>6. Append(stdout \o stdin, q) = stdout \o Append(stdin, q)
  <2>1. stdout \o stdin \in Seq(Query) /\ <<q>> \in Seq(Query)
    BY <1>3, ConcatProperties
  <2>2. /\ Append(stdout \o stdin, q) = (stdout \o stdin) \o <<q>>
        /\ Append(stdin, q) = stdin \o <<q>>
    BY <2>1, <1>3, AppendIsConcat
  <2>3. QED
    BY <2>1, <2>2, <1>3, ConcatAssociative
<1>7. pending'[server'] = stdout' \o stdin'
  BY <1>1, <1>2, <1>5, <1>6
<1>8. IsPrefix(stdout' \o stdin', pending'[server'])
  <2>1. pending'[server'] \in Seq(Query)
    BY <1>1, <1>2 DEF IInv, Running
  <2>2. QED
    BY <2>1, <1>7 DEF IsPrefix
<1>9. QueueInStep'
  BY <1>1, <1>7, <1>8 DEF IInv, QueueInStep
<1>10. QED
  BY <1>1, <1>2, <1>4, <1>9 DEF IInv, Running

\* A query to a dead server is queued, and Emacs learns that it died.
LEMMA SendFailsInv ==
  ASSUME IInv, NEW q \in Query, NEW how \in {"sync", "async"}, asked[q] = "no",
         SendFails(q, how)
  PROVE  IInv'
<1>1. /\ Running /\ ~alive /\ Enqueue(q, how)
      /\ status' = "exit" /\ stdin' = <<>> /\ stdout' = <<>>
      /\ UNCHANGED <<tq, restart, server, alive, answer, frames>>
  BY DEF SendFails
<1>2. /\ pending' \in [Server -> Seq(Query)]
      /\ asked' \in [Query -> {"no", "sync", "async"}]
      /\ AskedOnce'
  BY <1>1, EnqueueProperties
<1>3. TypeOK'
  BY <1>1, <1>2, EmptySeq DEF IInv, TypeOK
<1>4. IsPrefix(stdout' \o stdin', pending'[server'])
  <2>1. pending'[server'] \in Seq(Query)
    BY <1>1, <1>2 DEF IInv, Running
  <2>2. stdout' \o stdin' = <<>>
    BY <1>1
  <2>3. QED
    BY <2>1, <2>2, EmptyIsPrefix
<1>5. QueueInStep'
  BY <1>1, <1>4 DEF IInv, QueueInStep
<1>6. QED
  BY <1>1, <1>2, <1>3, <1>5 DEF IInv, Running

\* A server just started was asked what its queue holds, and nothing else.
LEMMA StartServerInv ==
  ASSUME QueueAssumption, IInv, NEW queued \in Seq(Query), StartServer(queued),
         \A i \in DOMAIN queued : asked'[queued[i]] # "no",
         \A r \in Query : asked'[r] = "no" => asked[r] = "no",
         asked' \in [Query -> {"no", "sync", "async"}], frames' \in Seq(Frame),
         UNCHANGED <<restart, answer>>
  PROVE  IInv'
<1>1. /\ server < MaxServers /\ tq' = "tq" /\ server' = server + 1
      /\ status' = "run" /\ alive' = TRUE
      /\ stdin' = queued /\ stdout' = <<>>
      /\ pending' = [pending EXCEPT ![server + 1] = queued]
  BY DEF StartServer
<1>2. server' \in Server /\ server' \in 0..MaxServers
  BY <1>1 DEF IInv, TypeOK, Server, QueueAssumption
<1>3. /\ pending' \in [Server -> Seq(Query)]
      /\ pending'[server'] = queued
      /\ \A s \in Server : s # server' => pending'[s] = pending[s]
  BY <1>1, <1>2 DEF IInv, TypeOK
<1>4. TypeOK'
  BY <1>1, <1>2, <1>3, EmptySeq DEF IInv, TypeOK
<1>5. stdout' \o stdin' = pending'[server']
  BY <1>1, <1>3, ConcatEmptySeq
<1>6. IsPrefix(stdout' \o stdin', pending'[server'])
  BY <1>5 DEF IsPrefix
<1>7. QueueInStep'
  BY <1>5, <1>6 DEF IInv, QueueInStep
<1>8. ASSUME NEW r \in Query, asked'[r] = "no", NEW s \in Server, NEW i \in DOMAIN pending'[s]
      PROVE  pending'[s][i] # r
  <2>1. CASE s = server'
    BY <2>1, <1>3, <1>8
  <2>2. CASE s # server'
    BY <2>2, <1>3, <1>8 DEF IInv, AskedOnce
  <2>3. QED
    BY <2>1, <2>2
<1>9. AskedOnce'
  BY <1>8 DEF IInv, AskedOnce
<1>10. QED
  BY <1>1, <1>2, <1>4, <1>7, <1>9 DEF IInv

\* The query that starts a server is the first in its queue.
LEMMA RestartedInv ==
  ASSUME QueueAssumption, IInv, NEW q \in Query, NEW how \in {"sync", "async"},
         Restarted(q, how), frames' \in Seq(Frame)
  PROVE  IInv'
<1>1. /\ StartServer(<<q>>) /\ asked' = [asked EXCEPT ![q] = how]
      /\ UNCHANGED <<restart, answer>>
  BY DEF Restarted
<1>2. /\ asked' \in [Query -> {"no", "sync", "async"}]
      /\ asked'[q] = how
      /\ \A r \in Query : asked'[r] = "no" => asked[r] = "no"
  BY <1>1 DEF IInv, TypeOK
<1>3. <<q>> \in Seq(Query) /\ \A i \in DOMAIN <<q>> : <<q>>[i] = q
  OBVIOUS
<1>4. QED
  BY <1>1, <1>2, <1>3, StartServerInv

\* A server that may not be started, or whose check fails, is given up.
LEMMA AssertFailsInv ==
  ASSUME IInv, AssertFails
  PROVE  IInv'
<1>1. /\ tq' = IF tq = "t" THEN "t" ELSE "nil"
      /\ restart' = "nil" \/ UNCHANGED restart
      /\ alive' = FALSE /\ stdin' = <<>> /\ stdout' = <<>>
      /\ UNCHANGED <<server, status, pending, asked, answer, frames>>
  BY DEF AssertFails
<1>2. QED
  BY <1>1, GivenUp DEF IInv, TypeOK

\* pdf-info-query.
LEMMA PdfInfoQueryInv ==
  ASSUME QueueAssumption, IInv, NEW q \in Query, NEW how \in {"sync", "async"},
         PdfInfoQuery(q, how)
  PROVE  IInv'
<1>1. LispRuns /\ asked[q] = "no" /\ frames \in Seq(Frame)
  BY DEF PdfInfoQuery, IInv, TypeOK
<1>2. CASE /\ Send(q, how) \/ Restarted(q, how)
           /\ IF how = "sync" THEN SetTop("query", q) ELSE UNCHANGED frames
  <2>1. frames' \in Seq(Frame)
    BY <1>1, <1>2, StackProperties DEF LispRuns, SetTop
  <2>2. QED
    BY <1>1, <1>2, <2>1, SendInv, RestartedInv
<1>3. CASE SendFails(q, how)
  BY <1>1, <1>3, SendFailsInv
<1>4. CASE AssertFails
  BY <1>4, AssertFailsInv
<1>5. QED
  BY <1>2, <1>3, <1>4 DEF PdfInfoQuery

\* pdf-info-quit sends quit as it sends any query.
LEMMA PdfInfoQuitInv ==
  ASSUME QueueAssumption, IInv, NEW q \in QuitQuery, NEW mode \in {"quit", "timeout"},
         PdfInfoQuit(q, mode)
  PROVE  IInv'
<1> DEFINE how == IF mode = "quit" THEN "sync" ELSE "async"
<1>1. LispRuns /\ asked[q] = "no" /\ frames \in Seq(Frame)
  BY DEF PdfInfoQuit, IInv, TypeOK
<1>2. how \in {"sync", "async"} /\ q \in Query
  BY DEF QueueAssumption
<1>3. (Send(q, how) /\ SetTop(mode, q)) \/ SendFails(q, how)
  BY DEF PdfInfoQuit
<1> HIDE DEF how
<1>4. CASE Send(q, how) /\ SetTop(mode, q)
  <2>1. frames' \in Seq(Frame)
    BY <1>1, <1>2, <1>4, StackProperties DEF LispRuns, SetTop
  <2>2. QED
    BY <1>1, <1>2, <1>4, <2>1, SendInv
<1>5. CASE SendFails(q, how)
  BY <1>1, <1>2, <1>5, SendFailsInv
<1>6. QED
  BY <1>3, <1>4, <1>5

\* Closing the tq, or finding none.
LEMMA ClosingInv ==
  ASSUME IInv, PdfInfoKill \/ QuitReturns
  PROVE  IInv'
<1>1. frames \in Seq(Frame) /\ restart \in {"nil", "t", "ask"}
  BY DEF IInv, TypeOK
<1>2. CASE PdfInfoKill
  BY <1>1, <1>2, GivenUp DEF PdfInfoKill, CloseTq
<1>3. CASE QuitReturns
  <2>1. frames' \in Seq(Frame)
    BY <1>1, <1>3, StackProperties DEF QuitReturns, Waiting, SetTop
  <2>2. UNCHANGED <<restart, asked, answer>>
    BY <1>3 DEF QuitReturns
  <2>3. CASE CloseTq
    BY <1>1, <2>1, <2>2, <2>3, GivenUp DEF CloseTq
  <2>4. CASE UNCHANGED <<tq, server, status, alive, pipes, pending>>
    BY <2>1, <2>2, <2>4, OnlyFrames DEF Untouched
  <2>5. QED
    BY <1>3, <2>3, <2>4 DEF QuitReturns
<1>4. QED
  BY <1>2, <1>3

\* A command executed moves from one pipe to the other; quit drops the rest.
LEMMA ServeInv ==
  ASSUME IInv, Serve
  PROVE  IInv'
<1>1. /\ alive /\ stdin # <<>>
      /\ stdout' = Append(stdout, Head(stdin))
      /\ UNCHANGED <<tq, restart, server, status, pending, asked, answer, frames>>
  BY DEF Serve
<1>2. stdin \in Seq(Query) /\ stdout \in Seq(Query) /\ pending \in [Server -> Seq(Query)]
  BY DEF IInv, TypeOK
<1>3. Head(stdin) \in Query /\ Tail(stdin) \in Seq(Query) /\ stdout' \in Seq(Query)
  BY <1>1, <1>2, HeadTailProperties, AppendProperties
<1>4. tq = "tq" /\ server \in Server /\ pending[server] \in Seq(Query)
  BY <1>1, <1>2 DEF IInv
<1>5. stdout' \o Tail(stdin) = stdout \o stdin /\ pending[server] = stdout \o stdin
  BY <1>1, <1>2, <1>4, MoveHead DEF IInv, QueueInStep
<1>6. IsPrefix(stdout' \o Tail(stdin), pending[server])
  BY <1>5 DEF IsPrefix
<1>7. AskedOnce'
  BY <1>1 DEF IInv, AskedOnce
<1>8. CASE Head(stdin) \in QuitQuery
  <2>1. alive' = FALSE /\ stdin' = <<>>
    BY <1>8 DEF Serve
  <2>2. TypeOK'
    BY <1>1, <1>3, <2>1, EmptySeq DEF IInv, TypeOK
  <2>3. IsPrefix(stdout' \o stdin', pending[server])
    BY <1>3, <1>4, <1>6, <2>1, PrefixOfConcat, ConcatEmptySeq
  <2>4. QueueInStep'
    BY <1>1, <2>1, <2>3 DEF QueueInStep
  <2>5. QED
    BY <1>1, <1>4, <1>7, <2>1, <2>2, <2>4 DEF IInv
<1>9. CASE Head(stdin) \notin QuitQuery
  <2>1. UNCHANGED alive /\ stdin' = Tail(stdin)
    BY <1>9 DEF Serve
  <2>2. TypeOK'
    BY <1>1, <1>3, <2>1 DEF IInv, TypeOK
  <2>3. QueueInStep'
    BY <1>1, <1>5, <1>6, <2>1 DEF QueueInStep
  <2>4. QED
    BY <1>1, <1>7, <2>1, <2>2, <2>3 DEF IInv
<1>10. QED
  BY <1>8, <1>9

\* The answers of a dead server are for the first queries still.
LEMMA CrashInv ==
  ASSUME IInv, Crash \/ NoticeExit
  PROVE  IInv'
<1>1. stdin \in Seq(Query) /\ stdout \in Seq(Query) /\ pending \in [Server -> Seq(Query)]
  BY DEF IInv, TypeOK
<1>2. AskedOnce'
  BY DEF IInv, AskedOnce, Crash, NoticeExit
<1>3. TypeOK'
  BY <1>1, EmptySeq DEF IInv, TypeOK, Crash, NoticeExit, pipes
<1>4. CASE Crash
  <2>1. /\ alive' = FALSE /\ stdin' = <<>>
        /\ UNCHANGED <<tq, server, status, stdout, pending>>
    BY <1>4 DEF Crash
  <2>2. ASSUME tq = "tq"
        PROVE  IsPrefix(stdout' \o stdin', pending[server])
    <3>1. pending[server] \in Seq(Query) /\ IsPrefix(stdout \o stdin, pending[server])
      BY <1>1, <2>2 DEF IInv, QueueInStep
    <3>2. QED
      BY <1>1, <2>1, <3>1, PrefixOfConcat, ConcatEmptySeq
  <2>3. QueueInStep'
    BY <2>1, <2>2 DEF QueueInStep
  <2>4. QED
    BY <1>2, <1>3, <2>1, <2>3 DEF IInv
<1>5. CASE NoticeExit
  <2>1. ~alive /\ UNCHANGED <<tq, server, alive, pipes, pending>>
    BY <1>5 DEF NoticeExit
  <2>2. QueueInStep'
    BY <2>1 DEF IInv, QueueInStep, pipes
  <2>3. QED
    BY <1>2, <1>3, <2>1, <2>2 DEF IInv
<1>6. QED
  BY <1>4, <1>5

\* What the filter reads is the answer to the head of the queue.
LEMMA FilterReads ==
  ASSUME IInv, Filter
  PROVE  /\ tq = "tq" /\ server \in Server /\ pending[server] # <<>>
         /\ Head(pending[server]) = Head(stdout)
         /\ Head(stdout) \in Query
         /\ IsPrefix(Tail(stdout) \o stdin, Tail(pending[server]))
         /\ alive => Tail(pending[server]) = Tail(stdout) \o stdin
<1>1. tq = "tq" /\ stdout # <<>> /\ server \in Server
  BY DEF Filter, IInv
<1>2. stdin \in Seq(Query) /\ stdout \in Seq(Query) /\ pending[server] \in Seq(Query)
  BY <1>1 DEF IInv, TypeOK
<1>3. /\ IsPrefix(stdout \o stdin, pending[server])
      /\ alive => pending[server] = stdout \o stdin
  BY <1>1 DEF IInv, QueueInStep
<1>4. /\ pending[server] # <<>> /\ Head(pending[server]) = Head(stdout)
      /\ IsPrefix(Tail(stdout) \o stdin, Tail(pending[server]))
  BY <1>1, <1>2, <1>3, PrefixTail
<1>5. Head(stdout) \in Query
  BY <1>1, <1>2, HeadTailProperties
<1>6. Tail(stdout \o stdin) = Tail(stdout) \o stdin
  BY <1>1, <1>2, TailOfConcat
<1>7. QED
  BY <1>1, <1>3, <1>4, <1>5, <1>6

\* A query at the head of a queue was asked.
LEMMA HeadWasAsked ==
  ASSUME IInv, NEW s \in Server, pending[s] # <<>>
  PROVE  asked[Head(pending[s])] # "no"
<1>1. pending[s] \in Seq(Query)
  BY DEF IInv, TypeOK
<1>2. Len(pending[s]) \in Nat \ {0} /\ Head(pending[s]) \in Query
  BY <1>1, EmptySeq, HeadTailProperties
<1>3. 1 \in DOMAIN pending[s] /\ pending[s][1] = Head(pending[s])
  BY <1>1, <1>2
<1>4. QED
  BY <1>2, <1>3 DEF IInv, AskedOnce

\* A queue without its head holds no query that was not asked.
LEMMA TailLosesHead ==
  ASSUME IInv, NEW t \in Server, pending[t] # <<>>, pending' = [pending EXCEPT ![t] = Tail(@)]
  PROVE  /\ pending' \in [Server -> Seq(Query)]
         /\ pending'[t] = Tail(pending[t])
         /\ \A s \in Server : s # t => pending'[s] = pending[s]
         /\ \A r \in Query : asked[r] = "no" =>
              \A s \in Server : \A i \in DOMAIN pending'[s] : pending'[s][i] # r
<1>1. pending \in [Server -> Seq(Query)]
  BY DEF IInv, TypeOK
<1>2. /\ Tail(pending[t]) \in Seq(Query)
      /\ Len(Tail(pending[t])) = Len(pending[t]) - 1
      /\ \A i \in 1..Len(Tail(pending[t])) : Tail(pending[t])[i] = pending[t][i + 1]
  BY <1>1, HeadTailProperties
<1>3. /\ pending' \in [Server -> Seq(Query)]
      /\ pending'[t] = Tail(pending[t])
      /\ \A s \in Server : s # t => pending'[s] = pending[s]
  BY <1>1, <1>2
<1>4. ASSUME NEW r \in Query, asked[r] = "no", NEW s \in Server, NEW i \in DOMAIN pending'[s]
      PROVE  pending'[s][i] # r
  <2>1. \A j \in DOMAIN pending[s] : pending[s][j] # r
    BY <1>4 DEF IInv, AskedOnce
  <2>2. CASE s # t
    BY <2>1, <2>2, <1>3, <1>4
  <2>3. CASE s = t
    <3>1. Len(pending[s]) \in Nat /\ DOMAIN pending[s] = 1..Len(pending[s])
      BY <1>1
    <3>2. i \in 1..(Len(pending[s]) - 1)
      BY <2>3, <1>2, <1>3, <1>4
    <3>3. i + 1 \in DOMAIN pending[s] /\ pending'[s][i] = pending[s][i + 1]
      BY <2>3, <3>1, <3>2, <1>2, <1>3
    <3>4. QED
      BY <2>1, <3>3
  <2>4. QED
    BY <2>2, <2>3
<1>5. QED
  BY <1>3, <1>4

\* The answer goes to its query, and the queue stays in step.
LEMMA FilterInv ==
  ASSUME QueueAssumption, IInv, Filter
  PROVE  IInv'
<1> DEFINE q == Head(stdout)
<1>1. /\ tq = "tq" /\ server \in Server /\ pending[server] # <<>>
      /\ Head(pending[server]) = q /\ q \in Query
      /\ IsPrefix(Tail(stdout) \o stdin, Tail(pending[server]))
      /\ alive => Tail(pending[server]) = Tail(stdout) \o stdin
  BY FilterReads
<1>2. /\ stdout # <<>> /\ stdout' = Tail(stdout)
      /\ pending' = [pending EXCEPT ![server] = Tail(@)]
      /\ answer' = [answer EXCEPT ![q] = q]
      /\ frames' = Append(frames, NewFrame("filter", server)) \/ UNCHANGED frames
      /\ UNCHANGED <<tq, restart, server, status, alive, stdin, asked>>
  BY <1>1 DEF Filter, CallBack
<1> HIDE DEF q
<1>3. /\ stdout \in Seq(Query) /\ frames \in Seq(Frame)
      /\ server \in 0..MaxServers /\ server # 0
  BY <1>1 DEF IInv, TypeOK, Server, QueueAssumption
<1>4. /\ pending' \in [Server -> Seq(Query)]
      /\ pending'[server] = Tail(pending[server])
      /\ \A r \in Query : asked[r] = "no" =>
           \A s \in Server : \A i \in DOMAIN pending'[s] : pending'[s][i] # r
  BY <1>1, <1>2, TailLosesHead
<1>5. frames' \in Seq(Frame)
  BY <1>2, <1>3, NewFrameType
<1>6. TypeOK'
  BY <1>1, <1>2, <1>3, <1>4, <1>5, HeadTailProperties DEF IInv, TypeOK
<1>7. QueueInStep'
  BY <1>1, <1>2, <1>4 DEF QueueInStep
<1>8. asked[q] # "no"
  BY <1>1, HeadWasAsked
<1>9. AskedOnce'
  BY <1>1, <1>2, <1>4, <1>8 DEF IInv, TypeOK, AskedOnce
<1>10. QED
  BY <1>1, <1>2, <1>6, <1>7, <1>9 DEF IInv

\* Lisp begins, returns or is left by C-g.
LEMMA LispInv ==
  ASSUME QueueAssumption, IInv,
         \/ \E by \in {"command", "timer"} : Begin(by)
         \/ KeyboardQuit \/ Return \/ QueryReturns
  PROVE  IInv'
<1>1. frames \in Seq(Frame) /\ 0 \in 0..MaxServers
  BY DEF IInv, TypeOK, QueueAssumption
<1>2. UNCHANGED Untouched
  BY DEF Begin, KeyboardQuit, Return, QueryReturns, Untouched
<1>3. SUFFICES frames' \in Seq(Frame)
  BY <1>2, OnlyFrames
<1>4. CASE \E by \in {"command", "timer"} : Begin(by)
  BY <1>1, <1>4, NewFrameType DEF Begin
<1>5. CASE KeyboardQuit
  BY <1>5, EmptySeq DEF KeyboardQuit
<1>6. CASE Return
  BY <1>1, <1>6, StackProperties DEF Return, LispRuns
<1>7. CASE QueryReturns
  BY <1>1, <1>7, StackProperties DEF QueryReturns, Waiting, SetTop
<1>8. QED
  BY <1>4, <1>5, <1>6, <1>7

\* A server started by hand was asked nothing yet.
LEMMA ForceStartInv ==
  ASSUME QueueAssumption, IInv, ForceStart
  PROVE  IInv'
<1>1. StartServer(<<>>) /\ UNCHANGED <<restart, asked, answer, frames>>
  BY DEF ForceStart
<1>2. asked \in [Query -> {"no", "sync", "async"}] /\ frames \in Seq(Frame)
  BY DEF IInv, TypeOK
<1>3. <<>> \in Seq(Query) /\ DOMAIN <<>> = {}
  BY EmptySeq
<1>4. QED
  BY <1>1, <1>2, <1>3, StartServerInv

\* A queue that was closed loses its head; the queue in use is another.
LEMMA ReturnElsewhereInv ==
  ASSUME QueueAssumption, IInv, ReturnElsewhere
  PROVE  IInv'
<1> DEFINE of == Top.of
           q == Head(pending[of])
<1>1. /\ LispRuns /\ Top.by = "filter" /\ FilterClosed(of) /\ pending[of] # <<>>
      /\ pending' = [pending EXCEPT ![of] = Tail(@)]
      /\ answer' = [answer EXCEPT ![q] = Garbage]
      /\ UNCHANGED frames \/ frames' = Front(frames)
      /\ UNCHANGED <<tq, restart, server, status, alive, stdin, stdout, asked>>
  BY DEF ReturnElsewhere, pipes
<1>2. frames \in Seq(Frame) /\ pending \in [Server -> Seq(Query)]
  BY DEF IInv, TypeOK
<1>3. Top \in Frame /\ frames' \in Seq(Frame)
  BY <1>1, <1>2, StackProperties DEF LispRuns
<1>4. of \in Server
  BY <1>1, <1>3 DEF Frame, Server, QueueAssumption
<1> HIDE DEF of, q
<1>5. q \in Query
  BY <1>1, <1>2, <1>4, HeadTailProperties DEF q
<1>6. /\ pending' \in [Server -> Seq(Query)]
      /\ \A s \in Server : s # of => pending'[s] = pending[s]
      /\ \A r \in Query : asked[r] = "no" => \A s \in Server : \A i \in DOMAIN pending'[s] : pending'[s][i] # r
  BY <1>1, <1>2, <1>4, TailLosesHead DEF IInv, AskedOnce
<1>7. asked[q] # "no"
  BY <1>1, <1>4, <1>5, HeadWasAsked DEF q
<1>8. TypeOK'
  BY <1>1, <1>3, <1>5, <1>6 DEF IInv, TypeOK
<1>9. QueueInStep'
  BY <1>1, <1>6 DEF IInv, QueueInStep, FilterClosed
<1>10. AskedOnce'
  BY <1>1, <1>5, <1>6, <1>7 DEF IInv, TypeOK, AskedOnce
<1>11. QED
  BY <1>1, <1>8, <1>9, <1>10 DEF IInv

\* No action breaks the invariant.
LEMMA NextInv ==
  ASSUME QueueAssumption, IInv, Next
  PROVE  IInv'
<1>1. CASE Lisp
  <2>1. CASE \E q \in Query \ QuitQuery, how \in {"sync", "async"} : PdfInfoQuery(q, how)
    BY <2>1, PdfInfoQueryInv
  <2>2. CASE \E q \in QuitQuery, mode \in {"quit", "timeout"} : PdfInfoQuit(q, mode)
    BY <2>2, PdfInfoQuitInv
  <2>3. QED
    BY <1>1, <2>1, <2>2, ClosingInv, LispInv, ForceStartInv DEF Lisp
<1>2. CASE QueryReturns \/ Return
  BY <1>2, LispInv
<1>3. CASE QuitReturns
  BY <1>3, ClosingInv
<1>4. CASE ReturnElsewhere
  BY <1>4, ReturnElsewhereInv
<1>5. CASE Serve
  BY <1>5, ServeInv
<1>6. CASE Crash \/ NoticeExit
  BY <1>6, CrashInv
<1>7. CASE Filter
  BY <1>7, FilterInv
<1>8. QED
  BY <1>1, <1>2, <1>3, <1>4, <1>5, <1>6, <1>7 DEF Next

\* The invariant holds before anything was asked.
LEMMA InitInv ==
  ASSUME QueueAssumption, Init
  PROVE  IInv
<1>1. <<>> \in Seq(Query) /\ <<>> \in Seq(Frame)
  BY EmptySeq
<1>2. TypeOK
  <2>1. stdin \in Seq(Query) /\ stdout \in Seq(Query) /\ frames \in Seq(Frame)
    BY <1>1 DEF Init
  <2>2. /\ pending \in [Server -> Seq(Query)]
        /\ asked \in [Query -> {"no", "sync", "async"}]
        /\ answer \in [Query -> Query \cup {None, Garbage}]
    BY <1>1 DEF Init
  <2>3. /\ tq \in {"t", "nil", "tq"} /\ restart \in {"nil", "t", "ask"}
        /\ status \in {"run", "exit"} /\ alive \in BOOLEAN
    BY Zenon DEF Init, QueueAssumption
  <2>4. server \in 0..MaxServers
    BY DEF Init, QueueAssumption
  <2>5. QED
    BY <2>1, <2>2, <2>3, <2>4 DEF TypeOK
<1>3. QueueInStep
  BY DEF Init, QueueInStep
<1>4. AskedOnce
  <2>1. \A s \in Server : pending[s] = <<>> /\ DOMAIN <<>> = {}
    BY DEF Init
  <2>2. QED
    BY <2>1 DEF Init, AskedOnce
<1>5. QED
  BY <1>2, <1>3, <1>4 DEF Init, IInv

-----------------------------------------------------------------------------
(* Theorems.                                                               *)

\* IInv is an invariant, for any number of queries, servers and frames.
THEOREM Invariance == Spec => []IInv
<1>1. Init => IInv
  BY InitInv, QueueAssumption
<1>2. IInv /\ [Next]_vars => IInv'
  <2>1. ASSUME IInv, UNCHANGED vars
        PROVE  IInv'
    BY <2>1, OnlyFrames DEF vars, Untouched, pipes, IInv, TypeOK
  <2>2. QED
    BY <2>1, NextInv, QueueAssumption
<1>3. QED
  BY <1>1, <1>2, PTL DEF Spec

\* The variables keep their types.
THEOREM TypeCorrect == Spec => []TypeOK
<1>1. IInv => TypeOK
  BY DEF IInv
<1>2. QED
  BY <1>1, Invariance, PTL

\* The tq-queue is what the server still has to answer, in the same order.
THEOREM StaysInStep == Spec => []QueueInStep
<1>1. IInv => QueueInStep
  BY DEF IInv
<1>2. QED
  BY <1>1, Invariance, PTL

\* Every callback is called with the answer to its own query, unless the buffer
\* that becomes current when a tq is closed has a line ".".
THEOREM AnswersAreRight ==
  ASSUME ~ForeignText
  PROVE  Spec => []RightAnswer
<1>1. Init => RightAnswer
  BY DEF Init, RightAnswer
<1>2. IInv /\ RightAnswer /\ [Next]_vars => RightAnswer'
  <2>1. CASE UNCHANGED answer
    BY <2>1 DEF RightAnswer
  <2>2. ASSUME IInv, RightAnswer, Filter
        PROVE  RightAnswer'
    <3>1. Head(pending[server]) = Head(stdout) /\ answer \in [Query -> Query \cup {None, Garbage}]
      BY <2>2, FilterReads DEF IInv, TypeOK
    <3>2. answer' = [answer EXCEPT ![Head(stdout)] = Head(stdout)]
      BY <2>2, <3>1 DEF Filter, CallBack
    <3>3. QED
      BY <2>2, <3>1, <3>2 DEF RightAnswer
  <2>3. [Next]_vars => UNCHANGED answer \/ Filter
    BY DEF Next, vars, Lisp, Begin, PdfInfoQuery, Send, SendFails, Restarted, AssertFails,
           PdfInfoKill, PdfInfoQuit, KeyboardQuit, ForceStart, QueryReturns, QuitReturns,
           Return, ReturnElsewhere, Serve, Crash, NoticeExit
  <2>4. QED
    BY <2>1, <2>2, <2>3
<1>3. QED
  BY <1>1, <1>2, Invariance, PTL DEF Spec

-----------------------------------------------------------------------------
(* The queue implements a service that answers in order.                   *)

Line == IF tq = "tq" THEN pending[server] ELSE <<>>

AskLine(q) ==
  /\ \A i \in DOMAIN Line : Line[i] # q
  /\ answer[q] = None
  /\ Line' \in {Append(Line, q), <<q>>}
  /\ UNCHANGED answer

ReplyLine ==
  /\ Line # <<>> /\ Line' = Tail(Line)
  /\ answer' = [answer EXCEPT ![Head(Line)] = Head(Line)]

GiveUpLine == Line' = <<>> /\ UNCHANGED answer

LineStep ==
  (\E q \in Query : AskLine(q)) \/ ReplyLine \/ GiveUpLine \/ UNCHANGED <<Line, answer>>

\* A query that was not asked may be asked.
LEMMA MayAsk ==
  ASSUME IInv, NEW q \in Query, asked[q] = "no"
  PROVE  answer[q] = None /\ \A i \in DOMAIN Line : Line[i] # q
<1>1. answer[q] = None
  BY DEF IInv, AskedOnce
<1>2. CASE tq = "tq"
  BY <1>1, <1>2 DEF IInv, AskedOnce, Line
<1>3. CASE tq # "tq"
  BY <1>1, <1>3 DEF Line
<1>4. QED
  BY <1>2, <1>3

\* Queueing a query asks it, after the others.
LEMMA EnqueueAsks ==
  ASSUME IInv, NEW q \in Query, NEW how \in {"sync", "async"}, asked[q] = "no",
         Send(q, how) \/ SendFails(q, how)
  PROVE  Line' = Append(Line, q) /\ UNCHANGED answer
<1>1. Running /\ Enqueue(q, how) /\ UNCHANGED <<tq, server, answer>>
  BY DEF Send, SendFails
<1>2. pending'[server] = Append(pending[server], q)
  BY <1>1, EnqueueProperties
<1>3. QED
  BY <1>1, <1>2 DEF Line, Running

\* Starting a server gives up the line; its own is what it was started for.
LEMMA StartStartsLine ==
  ASSUME QueueAssumption, IInv, NEW queued \in Seq(Query), StartServer(queued)
  PROVE  Line' = queued
<1>1. server + 1 \in Server
  BY DEF StartServer, IInv, TypeOK, Server, QueueAssumption
<1>2. pending'[server'] = queued /\ tq' = "tq"
  BY <1>1 DEF StartServer, IInv, TypeOK
<1>3. QED
  BY <1>2 DEF Line

\* A step of the queue is one of the service, or none.
LEMMA StepMapsToStep ==
  ASSUME QueueAssumption, ~ForeignText, IInv, Next
  PROVE  LineStep
<1>1. ASSUME NEW q \in Query, NEW how \in {"sync", "async"}, asked[q] = "no",
             Send(q, how) \/ SendFails(q, how)
      PROVE  AskLine(q)
  BY <1>1, MayAsk, EnqueueAsks DEF AskLine
<1>2. ASSUME NEW q \in Query, NEW how \in {"sync", "async"}, asked[q] = "no", Restarted(q, how)
      PROVE  AskLine(q)
  <2>1. StartServer(<<q>>) /\ UNCHANGED answer /\ <<q>> \in Seq(Query)
    BY <1>2 DEF Restarted
  <2>2. QED
    BY <1>2, <2>1, MayAsk, StartStartsLine DEF AskLine
<1>3. ASSUME AssertFails \/ CloseTq
      PROVE  Line' = <<>>
  BY <1>3 DEF AssertFails, CloseTq, Line
<1>4. ASSUME NEW q \in Query \ QuitQuery, NEW how \in {"sync", "async"}, PdfInfoQuery(q, how)
      PROVE  \/ asked[q] = "no" /\ (Send(q, how) \/ SendFails(q, how) \/ Restarted(q, how))
             \/ GiveUpLine
  BY <1>3, <1>4 DEF PdfInfoQuery, AssertFails, GiveUpLine
<1>5. ASSUME NEW q \in QuitQuery, NEW mode \in {"quit", "timeout"}, PdfInfoQuit(q, mode)
      PROVE  /\ asked[q] = "no" /\ q \in Query
             /\ \E how \in {"sync", "async"} : Send(q, how) \/ SendFails(q, how)
  BY <1>5 DEF PdfInfoQuit, QueueAssumption
<1>6. CASE Lisp
  <2>1. CASE \E by \in {"command", "timer"} : Begin(by)
    BY <2>1 DEF Begin, Line, LineStep
  <2>2. CASE \E q \in Query \ QuitQuery, how \in {"sync", "async"} : PdfInfoQuery(q, how)
    BY <2>2, <1>1, <1>2, <1>4 DEF LineStep
  <2>3. CASE PdfInfoKill
    BY <2>3, <1>3 DEF PdfInfoKill, LineStep, GiveUpLine
  <2>4. CASE \E q \in QuitQuery, mode \in {"quit", "timeout"} : PdfInfoQuit(q, mode)
    BY <2>4, <1>1, <1>5 DEF LineStep
  <2>5. CASE KeyboardQuit
    BY <2>5 DEF KeyboardQuit, Line, LineStep
  <2>6. CASE ForceStart
    BY <2>6, EmptySeq, StartStartsLine DEF ForceStart, LineStep, GiveUpLine
  <2>7. QED
    BY <1>6, <2>1, <2>2, <2>3, <2>4, <2>5, <2>6 DEF Lisp
<1>7. CASE QueryReturns \/ Return \/ Serve \/ Crash \/ NoticeExit
  BY <1>7 DEF QueryReturns, Return, Serve, Crash, NoticeExit, Line, LineStep
<1>8. CASE QuitReturns
  BY <1>3, <1>8 DEF QuitReturns, Line, LineStep, GiveUpLine
<1>9. CASE Filter
  <2>1. /\ tq = "tq" /\ server \in Server /\ pending[server] # <<>>
        /\ Head(pending[server]) = Head(stdout)
    BY <1>9, FilterReads
  <2>2. /\ pending' = [pending EXCEPT ![server] = Tail(@)]
        /\ answer' = [answer EXCEPT ![Head(stdout)] = Head(stdout)]
        /\ UNCHANGED <<tq, server>>
    BY <1>9, <2>1 DEF Filter, CallBack
  <2>3. pending'[server] = Tail(pending[server])
    BY <2>1, <2>2 DEF IInv, TypeOK
  <2>4. QED
    BY <2>1, <2>2, <2>3 DEF Line, LineStep, ReplyLine
<1>10. ~ReturnElsewhere
  BY DEF ReturnElsewhere
<1>11. QED
  BY <1>6, <1>7, <1>8, <1>9, <1>10 DEF Next

\* Queries are answered at most once and in the order they were asked, by a
\* server that was not given up: the queue implements RequestReply.
THEOREM QueueImplementsService ==
  ASSUME ~ForeignText
  PROVE  Spec => ImplementsRequestReply
<1>1. Init => Service!Init
  BY DEF Init, Service!Init
<1>2. IInv /\ [Next]_vars => [Service!Next]_(<<Line, answer>>)
  <2>1. ASSUME IInv, Next
        PROVE  [Service!Next]_(<<Line, answer>>)
    <3>1. ASSUME NEW q \in Query, AskLine(q)
          PROVE  Service!Next
      <4>1. Service!Ask(q)
        BY <3>1 DEF AskLine, Service!Ask, Line
      <4>2. QED
        BY <4>1 DEF Service!Next
    <3>2. CASE ReplyLine
      <4>1. Service!Reply
        BY <3>2 DEF ReplyLine, Service!Reply, Line
      <4>2. QED
        BY <4>1 DEF Service!Next
    <3>3. CASE GiveUpLine
      <4>1. Service!GiveUp
        BY <3>3 DEF GiveUpLine, Service!GiveUp, Line
      <4>2. QED
        BY <4>1 DEF Service!Next
    <3>4. LineStep
      BY <2>1, StepMapsToStep, QueueAssumption
    <3>5. QED
      BY <3>1, <3>2, <3>3, <3>4 DEF LineStep
  <2>2. ASSUME UNCHANGED vars
        PROVE  UNCHANGED <<Line, answer>>
    BY <2>2 DEF vars, Line
  <2>3. QED
    BY <2>1, <2>2
<1>3. QED
  BY <1>1, <1>2, Invariance, PTL DEF Spec, Service!Spec, ImplementsRequestReply, Line
=============================================================================
