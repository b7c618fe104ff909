------------------------------ MODULE IronyApi ------------------------------
(***************************************************************************)
(* What irony-server promises the client that sends it commands (Irony.h), *)
(* without the caches it keeps: a text that is not saved stands for its    *)
(* file until it is set again or reset; diagnostics and types are of the   *)
(* last parse, candidates of the last completion, with the options that    *)
(* came with it and the texts of that moment; and either is forgotten when *)
(* an unsaved text changes or the other one is made.                       *)
(***************************************************************************)
CONSTANTS File, Flags, Text,
          None       \* no text, no parse, no completion

VARIABLES disk,      \* disk[f]: the text of the file f
          unsaved,   \* unsaved[f]: the text that stands for it, or None
          parsed,    \* what diagnostics and get-type are about, or None
          completed  \* what candidates and completion-diagnostics are about, or None

\* One translation unit: the file it was made of, how, and all texts it saw.
View == [file : File, flags : Flags, text : [File -> Text]]

Init ==
  /\ disk \in [File -> Text]
  /\ unsaved = [f \in File |-> None]
  /\ parsed = None
  /\ completed = None

Effective == [f \in File |-> IF unsaved[f] # None THEN unsaved[f] ELSE disk[f]]

ViewOf(f, flags) == [file |-> f, flags |-> flags, text |-> Effective]

Save(f, text) ==
  /\ disk' = [disk EXCEPT ![f] = text]
  /\ UNCHANGED <<unsaved, parsed, completed>>

Parse(f, flags) ==
  /\ parsed' \in {None, ViewOf(f, flags)}
  /\ completed' = None
  /\ UNCHANGED <<disk, unsaved>>

Complete(f, flags) ==
  /\ completed' \in {None, ViewOf(f, flags)}
  /\ parsed' = None
  /\ UNCHANGED <<disk, unsaved>>

\* With None the text on disk counts again.
SetText(f, text) ==
  /\ unsaved' = [unsaved EXCEPT ![f] = text]
  /\ parsed' = None
  /\ completed' = None
  /\ UNCHANGED disk

Next ==
  \E f \in File :
    \/ \E text \in Text : Save(f, text)
    \/ \E text \in Text \cup {None} : SetText(f, text)
    \/ \E flags \in Flags : Parse(f, flags) \/ Complete(f, flags)

vars == <<disk, unsaved, parsed, completed>>
Spec == Init /\ [][Next]_vars
=============================================================================
