----------------------------- MODULE AnnotStore -----------------------------
(***************************************************************************)
(* What the annotation commands of epdfinfo promise a client, whatever the *)
(* server remembers and when it reads a page: an open document has a set   *)
(* of annotations, some of which the client may name.  A name stands for   *)
(* one annotation of the document and an annotation has one name, from the *)
(* moment the server gives the name until the annotation is deleted or the *)
(* document is closed.                                                     *)
(***************************************************************************)
CONSTANTS File, Annot, Key, Closed,
          Stored    \* Stored[f]: the annotations in the file f

VARIABLE store      \* store[f]: what is open under f, or Closed

Named == [annot : Annot, key : Key]
Content == [annots : SUBSET Annot, names : SUBSET Named]

Init == store = [f \in File |-> Closed]

\* The document a command works on: an open one, or the file read again.
Current(f) == IF store[f] # Closed THEN store[f]
              ELSE [annots |-> Stored[f], names |-> {}]

WellNamed(c) ==
  /\ \A n \in c.names : n.annot \in c.annots
  /\ \A n1, n2 \in c.names : (n1.key = n2.key \/ n1.annot = n2.annot) => n1 = n2

\* Only f changes, and is open afterwards with well-formed names.
Update(f) ==
  /\ store' = [store EXCEPT ![f] = store'[f]]
  /\ store'[f] \in Content
  /\ WellNamed(store'[f])

\* The client is told names; those it knew stay.
Learn(f) ==
  /\ Update(f)
  /\ store'[f].annots = Current(f).annots
  /\ Current(f).names \subseteq store'[f].names

\* A new annotation, named at once.
Add(f) ==
  /\ Update(f)
  /\ \E n \in store'[f].names :
       /\ n.annot \notin Current(f).annots
       /\ store'[f].annots = Current(f).annots \cup {n.annot}
  /\ Current(f).names \subseteq store'[f].names

\* A named annotation goes, with its name and nothing else.
Delete(f) ==
  /\ Update(f)
  /\ \E n \in Current(f).names :
       /\ store'[f].annots = Current(f).annots \ {n.annot}
       /\ store'[f].names = Current(f).names \ {n}

Close(f) == store' = [store EXCEPT ![f] = Closed]
CloseAll == store' = [f \in File |-> Closed]

Next == CloseAll \/ \E f \in File : Learn(f) \/ Add(f) \/ Delete(f) \/ Close(f)

Spec == Init /\ [][Next]_store
=============================================================================
