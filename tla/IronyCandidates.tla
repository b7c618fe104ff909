-------------------------- MODULE IronyCandidates --------------------------
(***************************************************************************)
(* What Irony::candidates makes of the completion strings of libclang, and *)
(* the snippet irony-completion--post-complete-yas-snippet makes of that.  *)
(* A completion string is a sequence of chunks, a text a sequence of       *)
(* characters. Indices count bytes in the server and characters in Emacs.  *)
(***************************************************************************)
EXTENDS Integers, Sequences, SequencesExt

CONSTANTS Letter,     \* the letters that typed texts and prefixes are made of
          Upper,      \* the upper case ones
          Lower,      \* the lower case letter of each
          Wide,       \* characters of two bytes
          Completion  \* the completion strings that the properties try

ASSUME LetterAssumption == Upper \subseteq Letter /\ Lower \in [Upper -> Letter \ Upper]
(* The comma and the space, which the server adds, take one byte.           *)
ASSUME WideAssumption == Wide \cap {",", " "} = {}
(* What clang_getCompletionAvailability and the like return.                *)
ASSUME CompletionAssumption ==
  \A c \in Completion :
    /\ c.availability \in {"available", "deprecated", "not available", "not-accessible"}
    /\ c.priority \in Nat
    /\ c.brief \in Seq(Range(c.brief))
    /\ c.chunks \in Seq(Range(c.chunks))
    /\ \A i \in DOMAIN c.chunks : c.chunks[i].text \in Seq(Range(c.chunks[i].text))

TextKind == {"typed text", "text", "placeholder", "informative", "current parameter"}
ArgsOutOfRange == "args-out-of-range"

----------------------------------------------------------------------------
(* Matching the prefix.                                                     *)

HasUppercase(prefix) == Range(prefix) \cap Upper # {}

ToLower(c) == IF c \in Upper THEN Lower[c] ELSE c

IsEqual(insensitive, a, b) == IF insensitive THEN ToLower(a) = ToLower(b) ELSE a = b

StartsWith(str, prefix, insensitive) ==
  /\ Len(str) >= Len(prefix)
  /\ \A i \in DOMAIN prefix : IsEqual(insensitive, prefix[i], str[i])

(* Mutated: smart-case the wrong way round.                                 *)
IsStyleCaseInsensitiveUpper(prefix, style) ==
  style = "case-insensitive" \/ (style = "smart-case" /\ HasUppercase(prefix))

IsStyleCaseInsensitive(prefix, style) ==
  style = "case-insensitive" \/ (style = "smart-case" /\ ~HasUppercase(prefix))

Matches(str, prefix, style) == StartsWith(str, prefix, IsStyleCaseInsensitive(prefix, style))

----------------------------------------------------------------------------
(* The loop over the chunks of one completion string.                       *)

(* std::string::size.                                                       *)
Size(text) == Len(text) + Cardinality({i \in DOMAIN text : text[i] \in Wide})

(* What a chunk adds to the prototype: punctuation is one character, and a  *)
(* comma looks better followed by a space.                                  *)
Printed(chunk) ==
  CASE chunk.kind \in TextKind -> chunk.text
    [] chunk.kind = "punctuation" -> IF chunk.text = <<",">> THEN <<",", " ">> ELSE chunk.text
    [] OTHER -> <<>>

Nothing == [typed |-> <<>>, resultType |-> <<>>, prototype |-> <<>>, annotationStart |-> 0,
            car |-> <<>>, cdr |-> <<>>, typedTextSet |-> FALSE, hasPrefix |-> TRUE]

(* Mutated: informative chunks are inserted as well.                        *)
PostCompInformative(st, chunk) ==
  IF ~st.typedTextSet \/ chunk.kind \in {"result type", "optional"} THEN st
  ELSE LET car == st.car \o Printed(chunk)
       IN  IF chunk.kind \in {"placeholder", "current parameter"}
           THEN [st EXCEPT !.car = car, !.cdr = @ \o <<Size(st.car), Size(car)>>]
           ELSE [st EXCEPT !.car = car]

(* The text after the typed text, with the range of every placeholder.      *)
PostComp(st, chunk) ==
  IF ~st.typedTextSet \/ chunk.kind \in {"informative", "result type", "optional"} THEN st
  ELSE LET car == st.car \o Printed(chunk)
       IN  IF chunk.kind \in {"placeholder", "current parameter"}
           THEN [st EXCEPT !.car = car, !.cdr = @ \o <<Size(st.car), Size(car)>>]
           ELSE [st EXCEPT !.car = car]

AddChunk(prefix, style, st, chunk) ==
  LET added == PostComp([st EXCEPT !.prototype = @ \o Printed(chunk),
                                   !.resultType = IF chunk.kind = "result type" THEN chunk.text ELSE @],
                        chunk)
  IN  IF ~st.hasPrefix THEN st
      ELSE IF chunk.kind # "typed text" \/ st.typedTextSet THEN added
      ELSE IF Matches(chunk.text, prefix, style)
           THEN [added EXCEPT !.typed = chunk.text, !.typedTextSet = TRUE,
                              !.annotationStart = Size(added.prototype)]
           ELSE [added EXCEPT !.typed = chunk.text, !.hasPrefix = FALSE]

(* The set of the one candidate a completion string makes, or of none.      *)
Candidate(completion, prefix, style) ==
  LET after[i \in 0..Len(completion.chunks)] ==
        IF i = 0 THEN Nothing ELSE AddChunk(prefix, style, after[i - 1], completion.chunks[i])
      st == after[Len(completion.chunks)]
  IN  IF completion.availability = "not available" \/ ~st.hasPrefix \/ ~st.typedTextSet
      THEN {} ELSE {st}

----------------------------------------------------------------------------
(* What Emacs does with a candidate.                                        *)

(* substring from one index to another.                                     *)
Substring(str, from, to) ==
  IF from > to \/ to > Len(str) THEN ArgsOutOfRange ELSE SubSeq(str, from + 1, to)

Annotation(candidate) ==
  Substring(candidate.prototype, candidate.annotationStart, Len(candidate.prototype))

(* The literal texts of the snippet, then its fields, then the rest.        *)
Snippet(candidate) ==
  LET phs == candidate.cdr
      from(k) == IF k = 1 THEN 0 ELSE phs[2 * k - 2]
      n == Len(phs) \div 2
  IN  [literals |-> [k \in 1..n |-> Substring(candidate.car, from(k), phs[2 * k - 1])],
       fields |-> [k \in 1..n |-> Substring(candidate.car, phs[2 * k - 1], phs[2 * k])],
       rest |-> Substring(candidate.car, from(n + 1), Len(candidate.car))]

----------------------------------------------------------------------------
(* Properties.                                                              *)

PrefixStyle == {"exact", "smart-case", "case-insensitive"}

(* Prefixes with a longer one that matches where they do not, or where a    *)
(* stricter style matches more.                                             *)
NotMonotone ==
  {prefix \in BoundedSeq(Letter, 2) : \E str \in BoundedSeq(Letter, 3) :
    \/ \E style \in PrefixStyle, c \in Letter :
         Matches(str, Append(prefix, c), style) /\ ~Matches(str, prefix, style)
    \/ Matches(str, prefix, "exact") /\ ~Matches(str, prefix, "smart-case")
    \/ Matches(str, prefix, "smart-case") /\ ~Matches(str, prefix, "case-insensitive")}

(* The candidate that a completion string describes.                        *)
Faithful(completion, style) ==
    LET chunks == completion.chunks
        text(kinds, i, j) == FlattenSeq([k \in 1..(j - i + 1) |->
                               IF chunks[i + k - 1].kind \in kinds THEN Printed(chunks[i + k - 1])
                               ELSE <<>>])
        inserted == TextKind \cup {"punctuation"}
        isTyped(i) == chunks[i].kind = "typed text" /\ \A j \in 1..(i - 1) : chunks[j].kind # "typed text"
        typed == IF \E i \in DOMAIN chunks : isTyped(i) THEN CHOOSE i \in DOMAIN chunks : isTyped(i) ELSE 0
        isField(i) == i > typed /\ chunks[i].kind \in {"placeholder", "current parameter"}
        upTo[i \in 0..Len(chunks)] ==
          IF i = 0 THEN <<>> ELSE IF isField(i) THEN Append(upTo[i - 1], i) ELSE upTo[i - 1]
        places == upTo[Len(chunks)]
        before(k) == (IF k = 1 THEN typed ELSE places[k - 1]) + 1
        n == Len(places)
        candidates == Candidate(completion, <<"a">>, style)
        narrow == \A i \in DOMAIN chunks : Range(chunks[i].text) \cap Wide = {}
    IN  IF \/ completion.availability = "not available" \/ typed = 0
           \/ ~Matches(chunks[typed].text, <<"a">>, style)
        THEN candidates = {}
        ELSE \E candidate \in candidates :
             /\ candidate.typed = chunks[typed].text
             /\ narrow =>
                  /\ Annotation(candidate) = text(inserted, typed + 1, Len(chunks))
                  /\ Snippet(candidate) =
                       [literals |-> [k \in 1..n |->
                                       text(inserted \ {"informative"}, before(k), places[k] - 1)],
                        fields |-> [k \in 1..n |-> chunks[places[k]].text],
                        rest |-> text(inserted \ {"informative"}, before(n + 1), Len(chunks))]
(* The completion strings of which Emacs makes something else.              *)
Unfaithful == {completion \in Completion : ~Faithful(completion, "exact") \/ ~Faithful(completion, "smart-case")}
=============================================================================
