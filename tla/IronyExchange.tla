--------------------------- MODULE IronyExchange ---------------------------
(* irony-server together with what passes between it and irony-mode: the    *)
(* lines it reads, the replies it prints, and the candidates in them.       *)
EXTENDS IronyServer, IronyWire, IronyReplies

(* Properties of lines, replies and candidates, looked at once, before the  *)
(* server starts.                                                           *)

(* The server executes the command irony-mode wrote, argument by argument,  *)
(* whatever blanks, quotes and backslashes are in paths, prefix and compile *)
(* options (irony--quote-strings, std::getline, unescapeCommandLine,        *)
(* CommandParser), but for a word with a newline, a quote that stands       *)
(* alone, an argument that is "--", and numbers an unsigned cannot hold,    *)
(* which it refuses instead of cutting them.                                *)
CommandsReadBack == phase = "starting" => Misread = {}

(* Emacs reads back from the server what the server was to say, whatever    *)
(* quotes, backslashes and parentheses are in file names, messages and      *)
(* types, however the output is cut into pieces on its way, as long as the  *)
(* line that ends a reply is not in a text. The errors about unsaved texts  *)
(* are the matter of ErrorsRead (support::quoted, Irony.cpp,                *)
(* irony--server-query-update).                                             *)
RepliesRead == phase = "starting" => Unread = {}

(* "Command results are printed to \c std::cout as s-expr, in order to make *)
(* it easy for Emacs to consume" (Irony.h:8-10): whichever unsaved text the *)
(* next command sets or resets, and whether or not it is found, what the    *)
(* server prints about it is read by Emacs as it was meant                  *)
(* (Irony::setUnsaved, Irony::resetUnsaved).                                *)
ErrorsRead ==
  phase = "ready" => \A c \in NextCommand :
    /\ c.action = "set_unsaved" =>
         \A content \in ReadFileContent : Readable(SetUnsavedReply(content # None, c.file, c.unsavedFile))
    /\ c.action = "reset_unsaved" => Readable(ResetUnsavedReply(filenameToContent[c.file] # None, c.file))

(* A prefix that grows never brings a candidate back: what matches the      *)
(* longer prefix matched the shorter one, also where an upper case letter   *)
(* makes smart-case sensitive; and each style lets through all that a       *)
(* stricter one does (isStyleCaseInsensitive, startsWith).                  *)
PrefixMonotone == phase = "starting" => NotMonotone = {}

(* Emacs inserts what libclang described: after the typed text come the     *)
(* texts and punctuation in their order, with one field for each            *)
(* placeholder that holds the text of it; and the annotation is the         *)
(* prototype after the typed text. It holds as long as no character there   *)
(* takes two bytes: the indices of the server count bytes, those of         *)
(* substring characters (Irony::candidates,                                 *)
(* irony-completion--post-complete-yas-snippet).                            *)
SnippetsFaithful == phase = "starting" => Unfaithful = {}
=============================================================================
