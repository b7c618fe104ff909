---------------------------- MODULE RequestReply ----------------------------
(***************************************************************************)
(* What the client of a server that answers in order relies on: a query is *)
(* asked once, and is answered at most once, with the answer to itself,    *)
(* after all that were asked before it of the same server.  A server may   *)
(* be given up, with all it was asked.                                     *)
(***************************************************************************)
EXTENDS Sequences

CONSTANTS Query,
          None     \* no answer

VARIABLES line,    \* the queries not yet answered, in the order asked
          answer   \* answer[q]: whose answer q was given

Init ==
  /\ line = <<>>
  /\ answer = [q \in Query |-> None]

Ask(q) ==
  /\ \A i \in DOMAIN line : line[i] # q
  /\ answer[q] = None
  /\ line' \in {Append(line, q), <<q>>}
  /\ UNCHANGED answer

Reply ==
  /\ line # <<>>
  /\ line' = Tail(line)
  /\ answer' = [answer EXCEPT ![Head(line)] = Head(line)]

GiveUp == line' = <<>> /\ UNCHANGED answer

Next == Reply \/ GiveUp \/ \E q \in Query : Ask(q)

Spec == Init /\ [][Next]_<<line, answer>>
=============================================================================
