---------------------------- MODULE IronyReplies ----------------------------
(***************************************************************************)
(* What irony-server prints for each command and how Emacs reads it: a     *)
(* reply is one Lisp expression, then a comment that ends it               *)
(* (irony--server-command-update, irony--server-query-update). Expressions *)
(* are sequences of tokens, what is printed a sequence of characters where *)
(* a symbol, a number and the comment are one character each.              *)
(***************************************************************************)
EXTENDS IronyCandidates

CONSTANT Message    \* file names and texts of libclang, as the properties try them

(* They do not have the line that ends a reply, which is printed as any     *)
(* other text, and by which Emacs would take part of a reply for all.       *)
ASSUME MessageAssumption ==
  /\ Message # {}
  /\ \A m \in Message : m \in Seq(Range(m)) /\ ";;EOT" \notin Range(m)
ASSUME TextAssumption ==
  \A c \in Completion : /\ ";;EOT" \notin Range(c.brief)
                        /\ \A i \in DOMAIN c.chunks : ";;EOT" \notin Range(c.chunks[i].text)

Symbol(a) == [kind |-> "symbol", text |-> <<a>>]
String(s) == [kind |-> "string", text |-> s]
NumberToken(n) == Symbol(ToString(n))
Open == Symbol("(")
Close == Symbol(")")
List(tokens) == <<Open>> \o tokens \o <<Close>>

----------------------------------------------------------------------------
(* The replies.                                                             *)

Success == List(<<Symbol("success"), Symbol("."), Symbol("t")>>)
Nil == <<Symbol("nil")>>
Error(name, message, args) ==
  <<Open, Symbol("error"), Symbol(".")>> \o List(<<Symbol(name), String(<<message>>)>> \o args) \o <<Close>>

ParseReply(done, f) ==
  IF done THEN Success ELSE Error("parse-error", "failed to parse file", <<String(f)>>)

CompleteReply(done, f, line, col) ==
  IF done THEN Success
  ELSE Error("complete-error", "failed to perform code completion",
             <<String(f), NumberToken(line), NumberToken(col)>>)

(* The errors about unsaved texts close one parenthesis of two.             *)
Cut(expression) == SubSeq(expression, 1, Len(expression) - 1)
SetUnsavedReply(done, f, content) ==
  IF done THEN Success
  ELSE Cut(Error("file-read-error", "failed to read unsaved buffer", <<String(f), String(content)>>))

ResetUnsavedReply(done, f) ==
  IF done THEN Success
  ELSE Cut(Error("no-such-entry", "failed reset unsaved buffer", <<String(f)>>))

Severity == {"ignored", "note", "warning", "error", "fatal", "unknown"}
DumpDiagnostic(d) ==
  List(<<String(d.file), NumberToken(d.line), NumberToken(d.column), NumberToken(d.offset),
         Symbol(d.severity), String(d.message)>>)

(* Without a unit, or without completion results, there are none.           *)
DiagnosticsReply(diagnostics) ==
  List(FlattenSeq([i \in DOMAIN diagnostics |-> DumpDiagnostic(diagnostics[i])]))
CompletionDiagnosticsReply(diagnostics) == DiagnosticsReply(diagnostics)

(* A type and its canonical type, up to one that has no name.               *)
GetTypeReply(found, types) ==
  LET named == CHOOSE n \in 0..Len(types) : /\ \A i \in 1..n : types[i] # <<>>
                                            /\ n < Len(types) => types[n + 1] = <<>>
  IN  IF ~found THEN Nil ELSE List([i \in 1..named |-> String(types[i])])

CandidateReply(completion, c) ==
  List(<<String(c.typed), NumberToken(completion.priority), String(c.resultType), String(completion.brief),
         String(c.prototype), NumberToken(c.annotationStart)>>
       \o List(<<String(c.car)>> \o [i \in DOMAIN c.cdr |-> NumberToken(c.cdr[i])])
       \o <<Symbol(completion.availability)>>)

CandidatesReply(found, completions, prefix, style) ==
  IF ~found THEN Nil
  ELSE List(FlattenSeq([i \in DOMAIN completions |->
    LET made == Candidate(completions[i], prefix, style)
    IN  IF made = {} THEN <<>> ELSE CandidateReply(completions[i], CHOOSE c \in made : TRUE)]))

CompileCommand(c) ==
  List(List([i \in DOMAIN c.args |-> String(c.args[i])]) \o <<Symbol("."), String(c.directory)>>)

CompileOptionsReply(loaded, dir, commands) ==
  IF ~loaded
  THEN Error("cannot-load-database", "failed to load compilation database from directory", <<String(dir)>>)
  ELSE <<Open, Symbol("success"), Symbol(".")>>
       \o List(FlattenSeq([i \in DOMAIN commands |-> CompileCommand(commands[i])])) \o <<Close>>

----------------------------------------------------------------------------
(* How they are printed.                                                    *)

(* Mutated: a backslash is not escaped.                                     *)
QuotedBackslashes(s) ==
  <<"\"">> \o FlattenSeq([i \in DOMAIN s |-> IF s[i] = "\"" THEN <<"\\", s[i]>> ELSE <<s[i]>>])
           \o <<"\"">>

Quoted(s) ==
  <<"\"">> \o FlattenSeq([i \in DOMAIN s |-> IF s[i] \in {"\\", "\""} THEN <<"\\", s[i]>> ELSE <<s[i]>>])
           \o <<"\"">>

Eot == <<"newline", ";;EOT", "newline">>
Output(expression) ==
  FlattenSeq([i \in DOMAIN expression |->
    IF expression[i].kind = "string" THEN Quoted(expression[i].text) ELSE expression[i].text]) \o Eot

----------------------------------------------------------------------------
(* How Emacs reads: the first expression of the buffer, once it ends so.    *)

EndOfFile == <<[kind |-> "end of file", text |-> <<>>]>>
Wait == <<[kind |-> "wait", text |-> <<>>]>>

(* One character, outside a string, inside, or after a backslash. Nothing   *)
(* is read after the expression.                                            *)
ReadCharacter(st, ch) ==
  LET token(t, depth) == [mode |-> IF depth = 0 THEN "done" ELSE "outside", text |-> <<>>,
                          depth |-> depth, tokens |-> Append(st.tokens, t)]
      outside == st.mode = "outside"
      string == st.mode = "string"
  IN  CASE st.mode = "done" -> st
        [] st.mode = "escaped" -> [st EXCEPT !.mode = "string", !.text = Append(@, ch)]
        [] string /\ ch = "\\" -> [st EXCEPT !.mode = "escaped"]
        [] string /\ ch = "\"" -> token(String(st.text), st.depth)
        [] string /\ ch \notin {"\\", "\""} -> [st EXCEPT !.text = Append(@, ch)]
        [] outside /\ ch = "\"" -> [st EXCEPT !.mode = "string"]
        [] outside /\ ch \in Range(Eot) -> st
        [] OTHER -> token(Symbol(ch), st.depth + (CASE ch = "(" -> 1 [] ch = ")" -> -1 [] OTHER -> 0))

Read(chars) ==
  LET after[i \in 0..Len(chars)] ==
        IF i = 0 THEN [mode |-> "outside", text |-> <<>>, depth |-> 0, tokens |-> <<>>]
        ELSE ReadCharacter(after[i - 1], chars[i])
      end == after[Len(chars)]
  IN  IF end.mode = "done" THEN end.tokens ELSE EndOfFile

(* A buffer that does not end a reply is left alone. What cannot be read is *)
(* an invalid message.                                                      *)
Update(buffer) == IF Len(buffer) >= 3 /\ SubSeq(buffer, Len(buffer) - 2, Len(buffer)) = Eot
                  THEN Read(buffer) ELSE Wait

----------------------------------------------------------------------------
(* Properties.                                                              *)

(* Every reply with any file names and texts in it, but for the errors that *)
(* are cut.                                                                 *)
Reply ==
  LET diagnostic(f, t) == [file |-> f, line |-> 1, column |-> 2, offset |-> 3, severity |-> "error",
                           message |-> t]
      command(a, d) == [args |-> <<a, d>>, directory |-> d]
  IN  {CandidatesReply(TRUE, <<c, c>>, <<>>, "exact") : c \in Completion} \cup
      UNION {{ParseReply(TRUE, f), ParseReply(FALSE, f), CompleteReply(FALSE, f, 1, 2), SetUnsavedReply(TRUE, f, t),
              DiagnosticsReply(<<>>), CompletionDiagnosticsReply(<<diagnostic(f, t), diagnostic(t, f)>>),
              GetTypeReply(FALSE, <<>>), GetTypeReply(TRUE, <<f, t>>), CompileOptionsReply(FALSE, f, <<>>),
              CompileOptionsReply(TRUE, f, <<command(f, t), command(t, t)>>)} : f \in Message, t \in Message}

(* Emacs reads this reply as it was meant.                                  *)
Readable(e) == Update(Output(e)) = e

(* The replies that are read otherwise than they were meant, or before they *)
(* have ended.                                                              *)
Unread ==
  {e \in Reply : LET out == Output(e)
                 IN  \/ ~Readable(e)
                     \/ \E n \in 0..(Len(out) - 1) : Update(SubSeq(out, 1, n)) # Wait}
=============================================================================
