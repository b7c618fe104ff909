---------------------------- MODULE EpdfServerMC ----------------------------
(* An instance of EpdfServer: an ordinary file with a file attachment and a *)
(* highlight on its first page, nothing on the second and a text note on a  *)
(* third that poppler cannot load; a file that needs a password, with a     *)
(* note on its first page; and one that is missing.  A client can edit two  *)
(* properties of notes.                                                     *)
EXTENDS EpdfServer

CONSTANTS plain, protected, missing,   \* files
          attachment, highlight, note, \* annotations of the files
          new1, new2,                  \* annotations that may be made
          icon, isopen,                \* properties
          usecolors                    \* an option

MCAccess == [f \in File |-> CASE f = plain -> "plain"
                              [] f = protected -> "protected"
                              [] OTHER -> "missing"]

MCOnDisk ==
  [f \in File |-> [p \in Page |->
     CASE f = plain /\ p = 1 -> <<attachment, highlight>>
       [] f = plain /\ p = 3 -> <<note>>
       [] f = protected /\ p = 1 -> <<note>>
       [] OTHER -> <<>>]]

MCBadPage == {<<plain, 3>>}

MCAnnotType == [a \in Annot |-> CASE a \in {note, new1} -> "text"
                                  [] a = attachment -> "file"
                                  [] OTHER -> "markup"]

\* icon and is-open are for text annotations, other names are unknown.
MCModifiable == [n \in PropName |-> IF n \in {icon, isopen} THEN {"text"} ELSE {}]

MCKeyIndex == 0..5

\* What is followed further: one open document, edits and options in the one
\* with the password, new annotations in the other.  The first step beyond
\* these bounds is still checked.
OneDocument == Cardinality(OpenDocs) <= 1
Unedited(d) == /\ \A a \in Annot, n \in PropName : d.props[a][n] = DefaultVal
               /\ \A o \in Option : d.options[o] = DefaultVal
NothingNew(d) == \A pn \in Page : InPdf(d, pn) \cap {new1, new2} = {}
Bounds ==
  /\ OneDocument
  /\ plain \in OpenDocs => Unedited(docs[plain])
  /\ protected \in OpenDocs => NothingNew(docs[protected])
=============================================================================
