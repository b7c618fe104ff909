----------------------------- MODULE IronyWire -----------------------------
(***************************************************************************)
(* The text irony-mode and irony-server exchange: how a command becomes a  *)
(* line (irony--quote-strings), how the server takes the line apart        *)
(* (CommandLineArgumentParser, CommandParser and its converters), how main *)
(* reads its options.                                                      *)
(*                                                                         *)
(* A string is a sequence of atoms: a name, a path or a command is one     *)
(* atom unless a definition looks inside it.                               *)
(***************************************************************************)
EXTENDS Integers, Sequences, SequencesExt

CONSTANTS UIntMax,    \* std::numeric_limits<unsigned>::max()
          LongMax,    \* LONG_MAX, where strtol stops
          Word,       \* the strings that the properties try as arguments
          Number      \* the numbers they try

(* Lines and columns of up to three digits fit a long, whatever it has.     *)
ASSUME LimitsAssumption == UIntMax \in Nat /\ LongMax \in Nat /\ (LongMax >= UIntMax \/ LongMax >= 999)
ASSUME NumberAssumption == Number \subseteq 0..999
(* A word is a sequence of whatever it consists of.                         *)
ASSUME WordAssumption == \A w \in Word : w \in Seq(Range(w))

Space == " "
DQuote == "\""
SQuote == "'"
Backslash == "\\"
Newline == "newline"
Digit == {"0", "1", "2", "3", "4", "5", "6", "7", "8", "9"}
DigitValue == [d \in Digit |-> CASE d = "0" -> 0 [] d = "1" -> 1 [] d = "2" -> 2
                 [] d = "3" -> 3 [] d = "4" -> 4 [] d = "5" -> 5 [] d = "6" -> 6
                 [] d = "7" -> 7 [] d = "8" -> 8 [] OTHER -> 9]
Invalid == [action |-> "invalid"]

----------------------------------------------------------------------------
(* From a command to a line, in Emacs.                                      *)

(* Mutated: a backslash is not escaped.                                     *)
QuoteStringBackslashes(str) ==
  IF str = <<>> THEN <<DQuote, DQuote>>
  ELSE IF Range(str) \cap {DQuote, Backslash, Space} # {}
       THEN <<DQuote>> \o FlattenSeq([i \in DOMAIN str |->
              IF str[i] = DQuote THEN <<Backslash, str[i]>> ELSE <<str[i]>>])
            \o <<DQuote>>
       ELSE str

QuoteString(str) ==
  IF str = <<>> THEN <<DQuote, DQuote>>
  ELSE IF Range(str) \cap {DQuote, Backslash, Space} # {}
       THEN <<DQuote>> \o FlattenSeq([i \in DOMAIN str |->
              IF str[i] \in {DQuote, Backslash} THEN <<Backslash, str[i]>> ELSE <<str[i]>>])
            \o <<DQuote>>
       ELSE str

QuoteStrings(strings) ==
  FlattenSeq([i \in DOMAIN strings |->
    IF i = 1 THEN QuoteString(strings[i]) ELSE <<Space>> \o QuoteString(strings[i])])

(* What irony--server-send-command writes: a newline ends the line, those in *)
(* the words are left as they are.                                          *)
Sent(strings) == Append(QuoteStrings(strings), Newline)

(* number-to-string, for numbers of up to three digits.                     *)
NumberToString(n) ==
  LET digit(k) == CHOOSE d \in Digit : DigitValue[d] = k % 10
  IN  IF n < 10 THEN <<digit(n)>>
      ELSE IF n < 100 THEN <<digit(n \div 10), digit(n)>>
      ELSE <<digit(n \div 100), digit(n \div 10), digit(n)>>

(* What irony-mode sends for each of its tasks.                             *)
CommandStrings(c) ==
  LET options == <<<<"--">>>> \o c.flags
  IN  CASE c.action = "parse" -> <<<<"parse">>, c.file>> \o options
        [] c.action = "complete" -> <<<<"complete">>, c.file, NumberToString(c.line),
                                     NumberToString(c.column)>> \o options
        [] c.action = "get_type" -> <<<<"get_type">>, NumberToString(c.line), NumberToString(c.column)>>
        [] c.action = "candidates" -> <<<<"candidates">>, c.prefix, <<c.style>>>>
        [] c.action = "set_unsaved" -> <<<<"set_unsaved">>, c.file, c.unsavedFile>>
        [] c.action = "reset_unsaved" -> <<<<"reset_unsaved">>, c.file>>
        [] c.action = "get_compile_options" -> <<<<"get_compile_options">>, c.dir, c.file>>
        [] OTHER -> <<<<c.action>>>>

----------------------------------------------------------------------------
(* What std::getline takes of the input: all up to the first newline.       *)
GetLine(input) ==
  LET end == CHOOSE n \in 0..Len(input) : /\ \A i \in 1..n : input[i] # Newline
                                          /\ n < Len(input) => input[n + 1] = Newline
  IN  SubSeq(input, 1, end)

(* From a line to arguments. The functions of the parser call each other at *)
(* a position; which one is running, and whether it has skipped an escape   *)
(* character, is the mode of a scanner.                                     *)

Scan(st, ch) ==
  LET become(mode) == [st EXCEPT !.mode = mode]
      push(mode) == [st EXCEPT !.mode = mode, !.argument = Append(@, ch)]
      outside == st.mode \in {"between", "word"}
  IN  CASE outside /\ ch = Space ->
             IF st.mode = "between" THEN st
             ELSE [mode |-> "between", argument |-> <<>>, argv |-> Append(st.argv, st.argument)]
        [] outside /\ ch = DQuote -> become("double")
        [] outside /\ ch = SQuote -> become("single")
        [] outside /\ ch = Backslash -> become("escaped")
        [] outside /\ ch \notin {Space, DQuote, SQuote, Backslash} -> push("word")
        [] st.mode = "escaped" -> push("word")
        [] st.mode = "single" -> IF ch = SQuote THEN become("word") ELSE push("single")
        [] st.mode = "double" /\ ch = DQuote -> become("word")
        [] st.mode = "double" /\ ch = Backslash -> become("double escaped")
        [] OTHER -> push("double")

(* A quote that is not closed, or a backslash at the end, ends the argument *)
(* as far as it was read.                                                   *)
UnescapeCommandLine(line) ==
  LET after[i \in 0..Len(line)] ==
        IF i = 0 THEN [mode |-> "between", argument |-> <<>>, argv |-> <<>>]
        ELSE Scan(after[i - 1], line[i])
      end == after[Len(line)]
  IN  IF end.mode = "between" THEN end.argv ELSE Append(end.argv, end.argument)

----------------------------------------------------------------------------
(* From arguments to a command.                                             *)

(* A converter gives the set of the one value an argument has, or of none.  *)

(* strtol over the whole argument: blanks, a sign, digits. No digits at all *)
(* is accepted for the empty string only, where the end is the beginning.   *)
(* That errno still says ERANGE of an earlier call is left out.             *)
UnsignedIntConverter(str) ==
  LET blanks == CHOOSE n \in 0..Len(str) : /\ \A i \in 1..n : str[i] = Space
                                           /\ n < Len(str) => str[n + 1] # Space
      signed == blanks < Len(str) /\ str[blanks + 1] \in {"+", "-"}
      digits == SubSeq(str, blanks + (IF signed THEN 2 ELSE 1), Len(str))
      upTo[i \in 0..Len(digits)] == IF i = 0 THEN 0 ELSE upTo[i - 1] * 10 + DigitValue[digits[i]]
      number == upTo[Len(digits)]
      negative == signed /\ str[blanks + 1] = "-"
  IN  IF str = <<>> THEN {0}
      ELSE IF digits = <<>> \/ ~(Range(digits) \subseteq Digit) THEN {}
      ELSE IF number > LongMax \/ number > UIntMax \/ (negative /\ number > 0) THEN {}
      ELSE {number}

PrefixMatchStyle == {"exact", "case-insensitive", "smart-case"}
StyleConverter(str) == {style \in PrefixMatchStyle : str = <<style>>}
OptionConverter(str) == {on \in BOOLEAN : str = IF on THEN <<"on">> ELSE <<"off">>}

(* The positional arguments of every command: the member each is stored in. *)
PositionalArgs ==
  [candidates |-> <<"prefix", "style">>, complete |-> <<"file", "line", "column">>,
   completion_diagnostics |-> <<>>, diagnostics |-> <<>>, exit |-> <<>>,
   get_compile_options |-> <<"dir", "file">>, get_type |-> <<"line", "column">>,
   help |-> <<>>, parse |-> <<"file">>, reset_unsaved |-> <<"file">>,
   set_debug |-> <<"opt">>, set_unsaved |-> <<"file", "unsavedFile">>]
Action == DOMAIN PositionalArgs
ReadsCompileOptions == {"parse", "complete"}

Cleared == [action |-> "unknown", flags |-> <<>>, file |-> <<>>, unsavedFile |-> <<>>,
            dir |-> <<>>, prefix |-> <<>>, style |-> "exact", line |-> 0, column |-> 0,
            opt |-> FALSE]

Convert(member, str) ==
  CASE member \in {"line", "column"} -> UnsignedIntConverter(str)
    [] member = "style" -> StyleConverter(str)
    [] member = "opt" -> OptionConverter(str)
    [] OTHER -> {str}

(* Everything the parser refuses ends the server: main stops at a null      *)
(* command. A file named "-" becomes the one temporary file.                *)
ParseCommand(argv, tempPath) ==
  IF argv = <<>> \/ Len(argv[1]) # 1 \/ argv[1][1] \notin Action THEN Invalid
  ELSE LET action == argv[1][1]
           members == PositionalArgs[action]
           end == CHOOSE i \in 2..(Len(argv) + 1) :
                    /\ i <= Len(argv) => argv[i] = <<"--">>
                    /\ \A j \in 2..(i - 1) : argv[j] # <<"--">>
           flags == IF action \in ReadsCompileOptions THEN SubSeq(argv, end + 1, Len(argv))
                    ELSE <<>>
           values == [k \in DOMAIN members |-> Convert(members[k], argv[k + 1])]
           stored[k \in 0..Len(members)] ==
             IF k = 0 THEN [Cleared EXCEPT !.action = action, !.flags = flags]
             ELSE [stored[k - 1] EXCEPT ![members[k]] = CHOOSE v \in values[k] : TRUE]
       IN  IF end - 2 # Len(members) \/ (\E k \in DOMAIN members : values[k] = {})
           THEN Invalid
           ELSE [stored[Len(members)] EXCEPT !.file = IF @ = <<"-">> THEN tempPath ELSE @]

(* The options of main: whether it goes on, and with which arguments.       *)
Options(argv) ==
  LET ends(outcome) == [outcome |-> outcome, interactive |-> FALSE, rest |-> <<>>]
      scan[i \in Nat] ==
        IF i > Len(argv) \/ argv[i] = <<>> \/ argv[i][1] # "-"
        THEN [outcome |-> "run", interactive |-> FALSE, rest |-> SubSeq(argv, i, Len(argv))]
        ELSE CASE argv[i] \in {<<"-", "h">>, <<"-", "v">>} -> ends("information")
               [] argv[i] = <<"-", "i">> -> [scan[i + 1] EXCEPT !.interactive = TRUE]
               [] argv[i] = <<"-", "d">> -> scan[i + 1]
               [] argv[i] = <<"-", "log-file">> /\ i < Len(argv) -> scan[i + 2]
               [] OTHER -> ends("error")
  IN  IF argv = <<>> THEN ends("error") ELSE scan[1]

----------------------------------------------------------------------------
(* Properties.                                                              *)

(* A quote that stands alone is not quoted by Emacs and opens a string for  *)
(* the server; a newline, quoted or not, ends the command there, and the    *)
(* server takes the rest for the next one.                                  *)
Survives(str) == /\ Newline \notin Range(str)
                 /\ SQuote \in Range(str) => QuoteString(str) # str

(* The commands irony-mode makes of paths, words, numbers and options.      *)
Empty(action) == [Cleared EXCEPT !.action = action]
Parsing(f, l) == [Empty("parse") EXCEPT !.file = f, !.flags = l]
Completing(f, n, m, l) == [Empty("complete") EXCEPT !.file = f, !.line = n, !.column = m, !.flags = l]
Typing(n, m) == [Empty("get_type") EXCEPT !.line = n, !.column = m]
Selecting(x, y) == [Empty("candidates") EXCEPT !.prefix = x, !.style = y]
Setting(x, y) == [Empty("set_unsaved") EXCEPT !.file = x, !.unsavedFile = y]
Resetting(x) == [Empty("reset_unsaved") EXCEPT !.file = x]
Asking(x, y) == [Empty("get_compile_options") EXCEPT !.dir = x, !.file = y]

(* Such commands, with any words for paths, prefix and options.             *)
ClientCommand ==
  LET flags == {<<>>} \cup {<<w>> : w \in Word} \cup {<<w, <<"--">>>> : w \in Word}
  IN  {Parsing(f, l) : f \in Word, l \in flags}
      \cup {Completing(f, n, m, l) : f \in Word, n \in Number, m \in {1, 80}, l \in flags}
      \cup {Typing(n, m) : n \in Number, m \in {1, 80}}
      \cup {Selecting(w, s) : w \in Word, s \in PrefixMatchStyle}
      \cup {Setting(f, w) : f \in Word, w \in Word}
      \cup {Resetting(f) : f \in Word}
      \cup {Asking(d, f) : d \in Word, f \in Word}
      \cup {Empty("diagnostics")}

(* The commands the server does not execute as they were meant, but for   *)
(* those named in CommandsReadBack (IronyServerMC).                         *)
Misread ==
  {c \in ClientCommand :
    LET strings == CommandStrings(c)
        read == ParseCommand(UnescapeCommandLine(GetLine(Sent(strings))), <<"temp">>)
        tooLarge == c.line > UIntMax \/ c.column > UIntMax
    IN  /\ \A i \in DOMAIN strings : Survives(strings[i])
        /\ <<"--">> \notin {c.file, c.unsavedFile, c.prefix, c.dir}
        /\ read # IF tooLarge THEN Invalid
                  ELSE [c EXCEPT !.file = IF @ = <<"-">> THEN <<"temp">> ELSE @]}
=============================================================================
