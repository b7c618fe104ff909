--------------------------- MODULE IronyServerMC ---------------------------
(* An instance of irony-server that reads the lines irony-mode writes.      *)
EXTENDS IronyExchange

CONSTANTS t1, t2, i1, i2, i3

----------------------------------------------------------------------------
(* Strings of one and two atoms, with those that need quotes.               *)
MCWord == {<<>>, <<"a">>, <<"-">>, <<"-", "a">>, <<"a", " ", "b">>, <<" ">>, <<"\"">>, <<"\\">>, <<"'">>,
           <<"a", "'", " ">>, <<"\\", "\"", " ">>, <<"--">>, <<"a", Newline, " ">>}
MCNumber == {0, 1, 9, 10, 99, 100, 128}
MCMessage == {<<>>, <<"a">>, <<"(", "\"", ")">>, <<"\\">>, <<"\"", "\\", " ">>}

(* w stands for a character of two bytes.                                  *)
MCLower == [c \in {"A"} |-> "a"]
MCCompletion ==
  LET chunk(kind, text) == [kind |-> kind, text |-> text]
      middle == {<<>>, <<chunk("placeholder", <<"x">>)>>, <<chunk("current parameter", <<"x", "x">>)>>,
                 <<chunk("placeholder", <<"x">>), chunk("punctuation", <<",">>), chunk("placeholder", <<"y", "z">>)>>,
                 <<chunk("text", <<"w">>), chunk("placeholder", <<"y">>)>>,
                 <<chunk("informative", <<"i">>), chunk("optional", <<"o">>), chunk("placeholder", <<"x">>)>>,
                 <<chunk("typed text", <<"b">>), chunk("placeholder", <<"x">>)>>}
      typed == {<<>>, <<chunk("typed text", <<"a">>)>>, <<chunk("typed text", <<"A", "b">>)>>,
                <<chunk("typed text", <<"b">>)>>}
      parens(l) == <<chunk("punctuation", <<"(">>)>> \o l \o <<chunk("punctuation", <<")">>)>>
  IN  {[availability |-> a, priority |-> 1, brief |-> <<"\"">>,
        chunks |-> <<chunk("result type", <<"int">>)>> \o t \o parens(l)] :
         a \in {"available", "not available"}, t \in typed, l \in middle}

----------------------------------------------------------------------------
MCTempPath == <<"temp">>
MCFile == {<<"a">>, MCTempPath}
MCNoFlags == <<>>
MCFlags == {MCNoFlags, <<<<"-g">>>>}
MCDir == {<<"d">>, <<"d", "/">>, <<"e">>}
MCJsonFile == {<<"d", "/", "compile_commands.json">>, <<"e", "/", "compile_commands.json">>}

\* What GetLine takes of the lines sent, there is no newline in these words.
ClientLines ==
  LET command(action) == [Cleared EXCEPT !.action = action]
  IN  {QuoteStrings(CommandStrings(c)) : c \in
        {[command("parse") EXCEPT !.file = f, !.flags = l] : f \in {<<"a">>}, l \in MCFlags}
        \cup {[command("parse") EXCEPT !.file = <<"-">>]}
        \cup {[command("complete") EXCEPT !.file = f, !.line = 1, !.column = 2] : f \in {<<"a">>, <<"-">>}}
        \cup {[command("complete") EXCEPT !.file = <<"a">>, !.flags = <<<<"-g">>>>]}
        \cup {[command("set_unsaved") EXCEPT !.file = f, !.unsavedFile = <<"u">>] : f \in {<<"a">>, <<"-">>}}
        \cup {[command("reset_unsaved") EXCEPT !.file = f] : f \in {<<"a">>, <<"-">>}}
        \cup {[command("get_compile_options") EXCEPT !.dir = d, !.file = <<"a">>] : d \in MCDir}
        \cup {command("diagnostics")}}
OtherLines == {<<"exit">>, <<"help">>, <<"set_debug", " ", "on">>, <<>>, <<"set_debug", " ", "maybe">>,
               <<"complete", " ", "a", " ", "1">>, <<"\"", "diagnostics", "\"", " ">>}

CommandOfLine == {ParseCommand(UnescapeCommandLine(line), MCTempPath) : line \in ClientLines \cup OtherLines}
                 \cup {Exit}
OpeningOfArguments ==
  {[outcome |-> Options(argv).outcome, interactive |-> Options(argv).interactive,
    command |-> ParseCommand(Options(argv).rest, MCTempPath)] :
     argv \in {<<>>, <<<<"-", "h">>>>, <<<<"-", "i">>>>, <<<<"-", "x">>>>, <<<<"-", "log-file">>>>,
               <<<<"-", "d">>, <<"-", "log-file">>, <<"l">>, <<"parse">>, <<"a">>>>,
               <<<<"-", "i">>, <<"-", "h">>>>}}
MCCommand == CommandOfLine
MCOpening == OpeningOfArguments

----------------------------------------------------------------------------
(* Commands on sources and those on databases share no state: one or the    *)
(* other part moves in a run of the server.                                 *)
NoSources ==
  /\ filenameToContent = [f \in File |-> None]
  /\ tuManager.flags = [f \in File |-> NoFlags]
  /\ file = None /\ results = None
  /\ \A f \in File : tuManager.units[f] = Null
NoDatabases ==
  /\ \A p \in JsonFile : json[p].version = 0
  /\ clock = 1 /\ compDb = NoDb /\ phase # "loading"
OnePartMoves == NoSources \/ NoDatabases

Symmetric == Permutations({i1, i2, i3}) \cup Permutations({t1, t2})
=============================================================================
