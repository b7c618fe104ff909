-------------------------- MODULE EpdfServerProofs --------------------------
(* Proofs about EpdfServer, for every value of its constants.               *)
EXTENDS EpdfServer, SequenceTheorems, TLAPS

\* RemoveAt drops one element and keeps the others in order.
LEMMA RemoveAtProperties ==
  ASSUME NEW S, NEW s \in Seq(S), NEW k \in DOMAIN s
  PROVE  /\ RemoveAt(s, k) \in Seq(S)
         /\ Len(RemoveAt(s, k)) = Len(s) - 1
         /\ \A i \in 1..(Len(s) - 1) : RemoveAt(s, k)[i] = IF i < k THEN s[i] ELSE s[i + 1]
<1> DEFINE a == SubSeq(s, 1, k - 1)
           b == SubSeq(s, k + 1, Len(s))
<1>1. k \in 1..Len(s) /\ Len(s) \in Nat
  OBVIOUS
<1>2. /\ a \in Seq(S) /\ Len(a) = k - 1
      /\ \A i \in 1..(k - 1) : a[i] = s[i]
  BY <1>1
<1>3. /\ b \in Seq(S) /\ Len(b) = Len(s) - k
      /\ \A i \in 1..(Len(s) - k) : b[i] = s[k + i]
  BY <1>1
<1>4. /\ a \o b \in Seq(S) /\ Len(a \o b) = Len(a) + Len(b)
      /\ \A i \in 1..(Len(a) + Len(b)) : (a \o b)[i] = IF i <= Len(a) THEN a[i] ELSE b[i - Len(a)]
  BY <1>2, <1>3, ConcatProperties
<1>5. RemoveAt(s, k) = a \o b
  BY DEF RemoveAt
<1> HIDE DEF a, b
<1>6. Len(a \o b) = Len(s) - 1
  BY <1>1, <1>2, <1>3, <1>4
<1>7. ASSUME NEW i \in 1..(Len(s) - 1)
      PROVE  (a \o b)[i] = IF i < k THEN s[i] ELSE s[i + 1]
  <2>1. CASE i < k
    BY <2>1, <1>1, <1>2, <1>3, <1>4, SMTT(30)
  <2>2. CASE i >= k
    <3>1. i - (k - 1) \in 1..(Len(s) - k) /\ k + (i - (k - 1)) = i + 1
      BY <2>2, <1>1
    <3>2. b[i - (k - 1)] = s[i + 1]
      BY <3>1, <1>3
    <3>3. i \in 1..(Len(a) + Len(b)) /\ ~(i <= Len(a)) /\ ~(i < k)
      BY <2>2, <1>1, <1>2, <1>3, SMTT(30)
    <3>4. (a \o b)[i] = b[i - Len(a)]
      BY <3>3, <1>4
    <3>5. QED
      BY <3>2, <3>3, <3>4, <1>2
  <2>3. i < k \/ i >= k
    BY <1>1
  <2>4. QED
    BY <2>1, <2>2, <2>3
<1>8. QED
  BY <1>4, <1>5, <1>6, <1>7

\* Taking an annotation out of a list that has it once.
LEMMA WithoutProperties ==
  ASSUME NEW S, NEW s \in Seq(S), NEW a \in ToSet(s), IsInjective(s)
  PROVE  /\ Without(s, a) \in Seq(S)
         /\ ToSet(Without(s, a)) = ToSet(s) \ {a}
         /\ IsInjective(Without(s, a))
<1> DEFINE k == CHOOSE i \in DOMAIN s : s[i] = a
           t == RemoveAt(s, k)
<1>1. k \in DOMAIN s /\ s[k] = a
  BY DEF ToSet
<1>2. \A i, j \in DOMAIN s : s[i] = s[j] => i = j
  BY DEF IsInjective
<1>3. Without(s, a) = t
  BY DEF Without
<1> HIDE DEF k
<1>4. /\ t \in Seq(S) /\ Len(t) = Len(s) - 1 /\ Len(s) \in Nat
      /\ \A i \in 1..(Len(s) - 1) : t[i] = IF i < k THEN s[i] ELSE s[i + 1]
  BY <1>1, RemoveAtProperties
<1> HIDE DEF t
<1>5. DOMAIN s = 1..Len(s) /\ DOMAIN t = 1..(Len(s) - 1)
  BY <1>4
<1>6. \A i \in DOMAIN t : t[i] \in ToSet(s) /\ t[i] # a
  BY <1>1, <1>2, <1>4, <1>5 DEF ToSet
<1>7. ASSUME NEW i \in DOMAIN s, s[i] # a
      PROVE  s[i] \in ToSet(t)
  <2>1. CASE i < k
    BY <2>1, <1>1, <1>4, <1>5 DEF ToSet
  <2>2. CASE i > k
    <3>1. i - 1 \in DOMAIN t /\ t[i - 1] = s[i]
      BY <2>2, <1>1, <1>4, <1>5
    <3>2. QED
      BY <3>1 DEF ToSet
  <2>3. QED
    BY <2>1, <2>2, <1>1, <1>5, <1>7
<1>8. ToSet(t) = ToSet(s) \ {a}
  BY <1>6, <1>7 DEF ToSet
<1>9. ASSUME NEW i \in DOMAIN t, NEW j \in DOMAIN t, t[i] = t[j]
      PROVE  i = j
  <2> DEFINE pos(n) == IF n < k THEN n ELSE n + 1
  <2>1. pos(i) \in DOMAIN s /\ pos(j) \in DOMAIN s
    BY <1>1, <1>4, <1>5
  <2>2. t[i] = s[pos(i)] /\ t[j] = s[pos(j)]
    BY <1>4, <1>5
  <2>3. pos(i) = pos(j)
    BY <2>1, <2>2, <1>9, <1>2
  <2>4. QED
    BY <2>3, <1>1, <1>4, <1>5
<1>10. QED
  BY <1>3, <1>4, <1>8, <1>9 DEF IsInjective

-----------------------------------------------------------------------------
(* A document as the operations leave it.                                   *)

\* A document just opened is consistent.
LEMMA NewDocumentInv ==
  ASSUME NEW f \in File
  PROVE  DocumentInv(f, NewDocument(f))
<1>1. OnDisk[f] \in [Page -> Seq(Annot)] /\ DefaultVal \in Val
  BY ConstantsAssumption
<1>2. /\ \A p \in Page : IsInjective(OnDisk[f][p])
      /\ \A p, q \in Page : p # q => ToSet(OnDisk[f][p]) \cap ToSet(OnDisk[f][q]) = {}
  BY OnDiskAssumption
<1>3. NewDocument(f) \in Document
  BY <1>1 DEF NewDocument, Document
<1>4. QED
  BY <1>2, <1>3 DEF NewDocument, DocumentInv, InPdf

\* Numbering the annotations of a page gives entries of that page, one for
\* each annotation, no two with one key.
LEMMA ScanProperties ==
  ASSUME NEW f \in File, NEW d, DocumentInv(f, d), NEW pn \in Page
  PROVE  /\ Scan(d, pn) \subseteq Entry
         /\ \A n \in Scan(d, pn) : n.key[1] = pn /\ n.annot \in InPdf(d, pn)
         /\ {n.annot : n \in Scan(d, pn)} = InPdf(d, pn)
         /\ \A n1, n2 \in Scan(d, pn) : (n1.key = n2.key \/ n1.annot = n2.annot) => n1 = n2
<1> DEFINE s == d.pdf[pn]
<1>1. s \in Seq(Annot) /\ IsInjective(s)
  BY DEF DocumentInv, Document
<1>2. \A i \in DOMAIN s : i \in Nat /\ i - 1 \in Nat /\ s[i] \in Annot
  BY <1>1
<1>3. Scan(d, pn) = {[annot |-> s[i], key |-> <<pn, i - 1>>] : i \in DOMAIN s}
  BY DEF Scan
<1>4. InPdf(d, pn) = {s[i] : i \in DOMAIN s}
  BY DEF InPdf, ToSet
<1> HIDE DEF s
<1>5. Scan(d, pn) \subseteq Entry
  BY <1>2, <1>3 DEF Entry, Key
<1>6. \A n \in Scan(d, pn) : n.key[1] = pn /\ n.annot \in InPdf(d, pn)
  BY <1>3, <1>4
<1>7. InPdf(d, pn) \subseteq {n.annot : n \in Scan(d, pn)}
  <2> SUFFICES ASSUME NEW i \in DOMAIN s
               PROVE  s[i] \in {n.annot : n \in Scan(d, pn)}
    BY <1>4
  <2>1. [annot |-> s[i], key |-> <<pn, i - 1>>] \in Scan(d, pn)
    BY <1>3
  <2>2. QED
    BY <2>1
<1>8. ASSUME NEW n1 \in Scan(d, pn), NEW n2 \in Scan(d, pn),
             n1.key = n2.key \/ n1.annot = n2.annot
      PROVE  n1 = n2
  <2>1. PICK i \in DOMAIN s : n1 = [annot |-> s[i], key |-> <<pn, i - 1>>]
    BY <1>3
  <2>2. PICK j \in DOMAIN s : n2 = [annot |-> s[j], key |-> <<pn, j - 1>>]
    BY <1>3
  <2>3. i - 1 = j - 1 \/ s[i] = s[j]
    BY <2>1, <2>2, <1>8
  <2>4. i = j
    BY <2>3, <1>1, <1>2 DEF IsInjective
  <2>5. QED
    BY <2>1, <2>2, <2>4
<1>9. QED
  BY <1>5, <1>6, <1>7, <1>8

\* Building the lists of some pages keeps a document consistent, changes no
\* list that was there, forgets no key and asks poppler for nothing to change.
LEMMA GetForPagesInv ==
  ASSUME NEW f \in File, NEW d, DocumentInv(f, d), NEW S
  PROVE  LET g == GetForPages(f, d, S)
         IN  /\ DocumentInv(f, g)
             /\ g.pdf = d.pdf /\ g.props = d.props /\ g.options = d.options
             /\ d.keys \subseteq g.keys
             /\ \A pn \in S : Loadable(f, pn) => {e.annot : e \in g.lists[pn]} = InPdf(g, pn)
<1> DEFINE g == GetForPages(f, d, S)
           todo == {pn \in S : NeedsScan(f, d, pn)}
           new == UNION {Scan(d, pn) : pn \in todo}
<1>1. /\ todo \subseteq Page
      /\ \A pn \in todo : Loadable(f, pn) /\ d.lists[pn] = {}
      /\ \A pn \in S : Loadable(f, pn) /\ d.lists[pn] = {} => pn \in todo
  BY DEF NeedsScan, Loadable
<1>2. d \in Document
  BY DEF DocumentInv
<1>3. \A pn \in todo :
        /\ Scan(d, pn) \subseteq Entry
        /\ \A n \in Scan(d, pn) : n.key[1] = pn /\ n.annot \in InPdf(d, pn)
        /\ {n.annot : n \in Scan(d, pn)} = InPdf(d, pn)
        /\ \A n1, n2 \in Scan(d, pn) : (n1.key = n2.key \/ n1.annot = n2.annot) => n1 = n2
  BY <1>1, ScanProperties
<1>4. /\ new \subseteq Entry
      /\ \A n \in new : n.key[1] \in todo /\ n \in Scan(d, n.key[1])
  BY <1>3
<1>5. \A e \in d.keys : /\ e.key[1] \in Page /\ e \in d.lists[e.key[1]]
                        /\ e.key[1] \notin todo
                        /\ e.annot \in InPdf(d, e.key[1])
  <2> SUFFICES ASSUME NEW e \in d.keys
               PROVE  /\ e.key[1] \in Page /\ e \in d.lists[e.key[1]]
                      /\ e.key[1] \notin todo
                      /\ e.annot \in InPdf(d, e.key[1])
    OBVIOUS
  <2>1. PICK pn \in Page : e \in d.lists[pn]
    BY DEF DocumentInv
  <2>2. e.key[1] = pn
    BY <2>1 DEF DocumentInv
  <2>3. {x.annot : x \in d.lists[pn]} = InPdf(d, pn)
    BY <2>1 DEF DocumentInv
  <2>4. QED
    BY <1>1, <2>1, <2>2, <2>3
<1>6. Insert(d.keys, new) = d.keys \cup new
  BY <1>4, <1>5 DEF Insert
<1> DEFINE lists == [pn \in Page |-> IF pn \in todo THEN Scan(d, pn) ELSE d.lists[pn]]
<1>7. /\ g = [d EXCEPT !.lists = lists, !.keys = Insert(d.keys, new)]
      /\ g.lists = lists /\ g.keys = d.keys \cup new /\ g.pdf = d.pdf
      /\ g.props = d.props /\ g.options = d.options /\ g.dangling = d.dangling
  BY <1>2, <1>6 DEF GetForPages, Document
<1>8. g \in Document
  <2>1. lists \in [Page -> SUBSET Entry]
    BY <1>2, <1>3 DEF Document
  <2>2. d.keys \cup new \subseteq Entry
    BY <1>2, <1>4 DEF Document
  <2>3. QED
    BY <1>2, <1>6, <1>7, <2>1, <2>2 DEF Document
<1> HIDE DEF g, todo, new
<1>9. \A pn \in Page : InPdf(g, pn) = InPdf(d, pn)
  BY <1>7 DEF InPdf
<1>10. g.keys = UNION {g.lists[pn] : pn \in Page}
  <2>1. ASSUME NEW e \in g.keys
        PROVE  \E pn \in Page : e \in g.lists[pn]
    BY <1>1, <1>4, <1>5, <1>7, <2>1
  <2>2. ASSUME NEW pn \in Page, NEW e \in g.lists[pn]
        PROVE  e \in g.keys
    <3>1. CASE pn \in todo
      BY <3>1, <1>7, <2>2 DEF new
    <3>2. CASE pn \notin todo
      BY <3>2, <1>7, <2>2 DEF DocumentInv
    <3>3. QED
      BY <3>1, <3>2
  <2>3. QED
    BY <2>1, <2>2
<1>11. \A pn \in Page : \A e \in g.lists[pn] : e.key[1] = pn
  BY <1>3, <1>7 DEF DocumentInv
<1>12. ASSUME NEW e1 \in g.keys, NEW e2 \in g.keys,
              e1.key = e2.key \/ e1.annot = e2.annot
       PROVE  e1 = e2
  <2>1. \A e \in g.keys : e.key[1] \in Page /\ e.annot \in InPdf(d, e.key[1])
    BY <1>1, <1>3, <1>4, <1>5, <1>7
  <2>2. e1.key[1] = e2.key[1]
    <3>1. \A p, q \in Page : p # q => InPdf(d, p) \cap InPdf(d, q) = {}
      BY DEF DocumentInv
    <3>2. QED
      BY <1>12, <2>1, <3>1
  <2>3. CASE e1 \in new
    <3>1. e1.key[1] \in todo /\ e2 \in new
      BY <2>2, <2>3, <1>4, <1>5, <1>7
    <3>2. e1 \in Scan(d, e1.key[1]) /\ e2 \in Scan(d, e1.key[1])
      BY <2>2, <2>3, <3>1, <1>4
    <3>3. QED
      BY <3>1, <3>2, <1>3, <1>12
  <2>4. CASE e1 \notin new
    <3>1. e1 \in d.keys /\ e2 \in d.keys
      BY <2>2, <2>4, <1>4, <1>5, <1>7
    <3>2. QED
      BY <3>1, <1>12 DEF DocumentInv
  <2>5. QED
    BY <2>3, <2>4
<1>13. \A pn \in Page : g.lists[pn] # {} => {e.annot : e \in g.lists[pn]} = InPdf(g, pn)
  BY <1>3, <1>7, <1>9 DEF DocumentInv
<1>14. \A pn \in Page : g.lists[pn] # {} => Loadable(f, pn)
  BY <1>1, <1>7 DEF DocumentInv
<1>15. DocumentInv(f, g)
  <2>1. /\ g.dangling = {}
        /\ \A pn \in Page : IsInjective(g.pdf[pn])
        /\ \A p, q \in Page : p # q => InPdf(g, p) \cap InPdf(g, q) = {}
    BY <1>7, <1>9 DEF DocumentInv
  <2>2. QED
    BY <1>8, <1>10, <1>11, <1>12, <1>13, <1>14, <2>1 DEF DocumentInv
<1>16. ASSUME NEW pn \in S, Loadable(f, pn)
       PROVE  {e.annot : e \in g.lists[pn]} = InPdf(g, pn)
  <2>1. pn \in Page
    BY <1>16 DEF Loadable
  <2>2. CASE pn \in todo
    BY <2>1, <2>2, <1>3, <1>7, <1>9
  <2>3. CASE pn \notin todo
    BY <2>1, <2>3, <1>1, <1>7, <1>13, <1>16
  <2>4. QED
    BY <2>2, <2>3
<1>17. QED
  BY <1>7, <1>15, <1>16 DEF g

\* A new annotation of a listed page, under a key that is free.
LEMMA AddedInv ==
  ASSUME NEW f \in File, NEW g, DocumentInv(f, g),
         NEW pn \in Page, Loadable(f, pn),
         {e.annot : e \in g.lists[pn]} = InPdf(g, pn),
         NEW a \in Annot, \A p \in Page : a \notin InPdf(g, p),
         NEW k \in Nat, \A e \in g.keys : e.key # <<pn, k>>
  PROVE  LET n == [annot |-> a, key |-> <<pn, k>>]
         IN  DocumentInv(f, [g EXCEPT !.pdf[pn] = Append(@, a),
                                      !.lists[pn] = @ \cup {n},
                                      !.keys = Insert(@, {n}),
                                      !.props[a] = [x \in PropName |-> DefaultVal]])
<1> DEFINE n == [annot |-> a, key |-> <<pn, k>>]
           h == [g EXCEPT !.pdf[pn] = Append(@, a),
                          !.lists[pn] = @ \cup {n},
                          !.keys = Insert(@, {n}),
                          !.props[a] = [x \in PropName |-> DefaultVal]]
<1>1. g \in Document /\ DefaultVal \in Val /\ n \in Entry
  BY ConstantsAssumption DEF DocumentInv, Entry, Key
<1>2. Insert(g.keys, {n}) = g.keys \cup {n}
  BY DEF Insert
<1>3. /\ h.pdf = [g.pdf EXCEPT ![pn] = Append(@, a)]
      /\ h.lists = [g.lists EXCEPT ![pn] = @ \cup {n}]
      /\ h.keys = g.keys \cup {n}
      /\ h.dangling = g.dangling
  BY <1>1, <1>2 DEF Document
<1>4. h \in Document
  <2>1. Append(g.pdf[pn], a) \in Seq(Annot)
    BY <1>1 DEF Document
  <2>2. QED
    BY <1>1, <1>2, <2>1 DEF Document
<1> HIDE DEF h
<1>5. g.pdf[pn] \in Seq(Annot)
  BY <1>1 DEF Document
<1>6. InPdf(h, pn) = InPdf(g, pn) \cup {a}
  <2> DEFINE s == g.pdf[pn]
  <2>1. /\ DOMAIN Append(s, a) = DOMAIN s \cup {Len(s) + 1}
        /\ Append(s, a)[Len(s) + 1] = a
        /\ \A i \in DOMAIN s : Append(s, a)[i] = s[i]
    BY <1>5
  <2>2. h.pdf[pn] = Append(s, a)
    BY <1>1, <1>3 DEF Document
  <2> HIDE DEF s
  <2>3. ToSet(Append(s, a)) = ToSet(s) \cup {a}
    BY <2>1 DEF ToSet
  <2>4. QED
    BY <2>2, <2>3 DEF InPdf, s
<1>7. \A p \in Page : p # pn => InPdf(h, p) = InPdf(g, p)
  BY <1>1, <1>3 DEF InPdf, Document
<1>8. \A p \in Page : IsInjective(h.pdf[p])
  <2>2. IsInjective(Append(g.pdf[pn], a))
    <3> DEFINE s == g.pdf[pn]
    <3>1. /\ DOMAIN Append(s, a) = DOMAIN s \cup {Len(s) + 1}
          /\ Append(s, a)[Len(s) + 1] = a
          /\ \A i \in DOMAIN s : Append(s, a)[i] = s[i]
      BY <1>5
    <3>2. \A i \in DOMAIN s : s[i] # a
      BY DEF InPdf, ToSet
    <3>3. IsInjective(s)
      BY DEF DocumentInv
    <3> HIDE DEF s
    <3>4. QED
      BY <3>1, <3>2, <3>3 DEF IsInjective, s
  <2>3. QED
    BY <2>2, <1>1, <1>3 DEF DocumentInv, Document
<1>9. \A p, q \in Page : p # q => InPdf(h, p) \cap InPdf(h, q) = {}
  BY <1>6, <1>7 DEF DocumentInv
<1>10. /\ h.lists[pn] = g.lists[pn] \cup {n}
       /\ \A p \in Page : p # pn => h.lists[p] = g.lists[p]
  BY <1>1, <1>3 DEF Document
<1>11. h.keys = UNION {h.lists[p] : p \in Page}
  <2>1. g.keys = UNION {g.lists[p] : p \in Page}
    BY DEF DocumentInv
  <2>2. QED
    BY <1>3, <1>10, <2>1
<1>12. \A p \in Page : \A e \in h.lists[p] : e.key[1] = p
  BY <1>10 DEF DocumentInv
<1>13. \A p \in Page : h.lists[p] # {} => {e.annot : e \in h.lists[p]} = InPdf(h, p)
  <2>1. {e.annot : e \in h.lists[pn]} = InPdf(h, pn)
    <3>1. {e.annot : e \in g.lists[pn] \cup {n}} = {e.annot : e \in g.lists[pn]} \cup {n.annot}
      OBVIOUS
    <3>2. QED
      BY <3>1, <1>6, <1>10
  <2>2. QED
    BY <2>1, <1>7, <1>10 DEF DocumentInv
<1>14. \A e \in g.keys : e.key # n.key /\ e.annot # n.annot
  <2> SUFFICES ASSUME NEW e \in g.keys PROVE e.annot # a
    OBVIOUS
  <2>1. PICK p \in Page : e \in g.lists[p]
    BY DEF DocumentInv
  <2>2. {x.annot : x \in g.lists[p]} = InPdf(g, p)
    BY <2>1 DEF DocumentInv
  <2>3. QED
    BY <2>1, <2>2
<1>15. \A e1, e2 \in h.keys : (e1.key = e2.key \/ e1.annot = e2.annot) => e1 = e2
  <2>1. \A e1, e2 \in g.keys : (e1.key = e2.key \/ e1.annot = e2.annot) => e1 = e2
    BY DEF DocumentInv
  <2> HIDE DEF n
  <2>2. QED
    BY <1>3, <1>14, <2>1
<1>16. h.dangling = {} /\ \A p \in Page : h.lists[p] # {} => Loadable(f, p)
  BY <1>3, <1>10 DEF DocumentInv
<1>17. QED
  BY <1>4, <1>8, <1>9, <1>11, <1>12, <1>13, <1>15, <1>16 DEF DocumentInv, h

\* A listed annotation taken out of poppler, of its list and of the table.
LEMMA RemovedInv ==
  ASSUME NEW f \in File, NEW d, DocumentInv(f, d), NEW e \in d.keys
  PROVE  LET pn == PageOf(d, e.annot)
         IN  /\ pn \in Page /\ Loadable(f, pn) /\ e \in d.lists[pn]
             /\ DocumentInv(f, [d EXCEPT !.pdf[pn] = Without(@, e.annot),
                                         !.lists[pn] = @ \ {e},
                                         !.keys = @ \ {e}])
             /\ ToSet(Without(d.pdf[pn], e.annot)) = InPdf(d, pn) \ {e.annot}
<1> DEFINE a == e.annot
           pn == PageOf(d, a)
           h == [d EXCEPT !.pdf[pn] = Without(@, a), !.lists[pn] = @ \ {e}, !.keys = @ \ {e}]
<1>1. d \in Document
  BY DEF DocumentInv
<1>2. PICK p \in Page : e \in d.lists[p]
  BY DEF DocumentInv
<1>3. {x.annot : x \in d.lists[p]} = InPdf(d, p) /\ Loadable(f, p)
  BY <1>2 DEF DocumentInv
<1>4. a \in InPdf(d, p)
  BY <1>2, <1>3
<1>5. pn = p
  <2>1. \A q \in Page : q # p => a \notin InPdf(d, q)
    BY <1>4 DEF DocumentInv
  <2>2. QED
    BY <1>4, <2>1 DEF PageOf
<1> HIDE DEF pn
<1>6. d.pdf[p] \in Seq(Annot) /\ IsInjective(d.pdf[p]) /\ a \in ToSet(d.pdf[p])
  BY <1>1, <1>4 DEF Document, DocumentInv, InPdf
<1>7. /\ Without(d.pdf[p], a) \in Seq(Annot)
      /\ ToSet(Without(d.pdf[p], a)) = InPdf(d, p) \ {a}
      /\ IsInjective(Without(d.pdf[p], a))
  BY <1>6, WithoutProperties DEF InPdf
<1>8. /\ h.pdf = [d.pdf EXCEPT ![p] = Without(@, a)]
      /\ h.lists = [d.lists EXCEPT ![p] = @ \ {e}]
      /\ h.keys = d.keys \ {e}
      /\ h.dangling = d.dangling
  BY <1>1, <1>5 DEF Document
<1>9. h \in Document
  BY <1>1, <1>5, <1>7 DEF Document
<1> HIDE DEF h
<1>10. /\ h.pdf[p] = Without(d.pdf[p], a) /\ InPdf(h, p) = InPdf(d, p) \ {a}
       /\ \A q \in Page : q # p => h.pdf[q] = d.pdf[q] /\ InPdf(h, q) = InPdf(d, q)
  BY <1>1, <1>7, <1>8 DEF InPdf, Document
<1>11. /\ h.lists[p] = d.lists[p] \ {e}
       /\ \A q \in Page : q # p => h.lists[q] = d.lists[q]
  BY <1>1, <1>8 DEF Document
<1>12. \A e1, e2 \in d.keys : (e1.key = e2.key \/ e1.annot = e2.annot) => e1 = e2
  BY DEF DocumentInv
<1>13. d.keys = UNION {d.lists[q] : q \in Page}
  BY DEF DocumentInv
<1>14. h.keys = UNION {h.lists[q] : q \in Page}
  <2>1. \A q \in Page : q # p => e \notin d.lists[q]
    BY <1>2 DEF DocumentInv
  <2>2. QED
    BY <1>8, <1>11, <1>13, <2>1
<1>15. \A q \in Page : h.lists[q] # {} => {x.annot : x \in h.lists[q]} = InPdf(h, q)
  <2>1. {x.annot : x \in d.lists[p] \ {e}} = {x.annot : x \in d.lists[p]} \ {a}
    BY <1>2, <1>12, <1>13
  <2>2. QED
    BY <2>1, <1>3, <1>10, <1>11 DEF DocumentInv
<1>16. /\ \A q \in Page : IsInjective(h.pdf[q])
       /\ \A q, r \in Page : q # r => InPdf(h, q) \cap InPdf(h, r) = {}
  BY <1>7, <1>10 DEF DocumentInv
<1>17. /\ \A q \in Page : \A x \in h.lists[q] : x.key[1] = q
       /\ \A q \in Page : h.lists[q] # {} => Loadable(f, q)
       /\ h.dangling = {}
       /\ \A e1, e2 \in h.keys : (e1.key = e2.key \/ e1.annot = e2.annot) => e1 = e2
  BY <1>8, <1>11, <1>12 DEF DocumentInv
<1>18. DocumentInv(f, h)
  BY <1>9, <1>14, <1>15, <1>16, <1>17 DEF DocumentInv
<1>19. QED
  BY <1>2, <1>3, <1>5, <1>7, <1>18 DEF pn, h

\* Options and properties are no part of what keeps the annotations consistent.
LEMMA OptionsInv ==
  ASSUME NEW f \in File, NEW d, DocumentInv(f, d), NEW new \in [Option -> Val]
  PROVE  DocumentInv(f, [d EXCEPT !.options = new])
<1> DEFINE h == [d EXCEPT !.options = new]
<1>1. d \in Document
  BY DEF DocumentInv
<1>2. /\ h.pdf = d.pdf /\ h.lists = d.lists /\ h.keys = d.keys /\ h.dangling = d.dangling
      /\ h \in Document
  BY <1>1 DEF Document
<1> HIDE DEF h
<1>3. DocumentInv(f, h)
  BY <1>2, SMTT(30) DEF DocumentInv, InPdf
<1>4. QED
  BY <1>3 DEF h

LEMMA PropsInv ==
  ASSUME NEW f \in File, NEW d, DocumentInv(f, d), NEW a \in Annot,
         NEW new \in [PropName -> Val]
  PROVE  DocumentInv(f, [d EXCEPT !.props[a] = new])
<1> DEFINE h == [d EXCEPT !.props[a] = new]
<1>1. d \in Document
  BY DEF DocumentInv
<1>2. /\ h.pdf = d.pdf /\ h.lists = d.lists /\ h.keys = d.keys /\ h.dangling = d.dangling
      /\ h \in Document
  BY <1>1 DEF Document
<1> HIDE DEF h
<1>3. DocumentInv(f, h)
  BY <1>2, SMTT(30) DEF DocumentInv, InPdf
<1>4. QED
  BY <1>3 DEF h

-----------------------------------------------------------------------------
(* What one command may do to the document it is about.                     *)

\* The document a command works on, when there is one.
Current(f) == IF docs[f] # Closed THEN docs[f] ELSE NewDocument(f)

Annots(d) == UNION {InPdf(d, pn) : pn \in Page}

Learns(c, d) == Annots(d) = Annots(c) /\ c.keys \subseteq d.keys

Adds(c, d) ==
  /\ c.keys \subseteq d.keys
  /\ \E n \in d.keys : n.annot \notin Annots(c) /\ Annots(d) = Annots(c) \cup {n.annot}

Deletes(c, d) ==
  \E n \in c.keys : Annots(d) = Annots(c) \ {n.annot} /\ d.keys = c.keys \ {n}

\* The command leaves d, and answers r.
Effect(f, d, r) ==
  /\ r.status = "err" /\ docs[f] # Closed => d = docs[f]
  /\ d = Closed \/ Learns(Current(f), d) \/ Adds(Current(f), d) \/ Deletes(Current(f), d)

GoodStep(f) ==
  \E d \in Document \cup {Closed}, r \in Reply :
    /\ Answer(f, d, r)
    /\ d = Closed \/ DocumentInv(f, d)
    /\ Effect(f, d, r)
    /\ r.cmd = "getannots" => ListingComplete'

LEMMA GoodAnswer ==
  ASSUME NEW f, NEW d, d = Closed \/ DocumentInv(f, d), NEW status \in {"ok", "err"},
         Answer(f, d, Answered(status)), Effect(f, d, Answered(status))
  PROVE  GoodStep(f)
<1>1. d \in Document \cup {Closed}
  BY DEF DocumentInv
<1>2. Answered(status) \in Reply /\ Answered(status).cmd = "other"
  BY DEF Answered, Reply
<1>3. QED
  BY <1>1, <1>2 DEF GoodStep

\* A document argument is the document as it is, just read if it was not open.
LEMMA OpenedDocument ==
  ASSUME IInv, NEW f \in File, NEW passwd
  PROVE  LET d == DocumentOpen(f, passwd)
         IN  /\ d = Closed \/ DocumentInv(f, d)
             /\ docs[f] # Closed => d = docs[f]
             /\ d # Closed => d = Current(f)
             /\ \A r : Effect(f, d, r)
<1> DEFINE d == DocumentOpen(f, passwd)
<1>1. docs[f] # Closed => d = docs[f]
  BY DEF DocumentOpen
<1>2. d # Closed => d = Current(f)
  BY DEF DocumentOpen, Current
<1>3. d = Closed \/ DocumentInv(f, d)
  BY <1>2, NewDocumentInv DEF IInv, OpenDocs, Current
<1>4. \A r : Effect(f, d, r)
  BY <1>1, <1>2 DEF Effect, Learns
<1>5. QED
  BY <1>1, <1>2, <1>3, <1>4

LEMMA DocCommandStep ==
  ASSUME IInv, NEW f \in File, DocCommand(f)
  PROVE  GoodStep(f)
<1> DEFINE d == ArgDoc(f)
<1>1. /\ d = Closed \/ DocumentInv(f, d)
      /\ docs[f] # Closed => d = docs[f]
      /\ d # Closed => d = Current(f)
      /\ \A r : Effect(f, d, r)
  BY OpenedDocument DEF ArgDoc
<1>2. \A status \in {"ok", "err"} : Answer(f, d, Answered(status)) => GoodStep(f)
  BY <1>1, GoodAnswer
<1>3. CASE RejectArguments(f)
  BY <1>2, <1>3 DEF RejectArguments
<1>4. CASE \E passwd \in {"none", "right", "wrong"} : Open(f, passwd)
  <2>1. PICK passwd \in {"none", "right", "wrong"} : Open(f, passwd)
    BY <1>4
  <2>2. \E status \in {"ok", "err"} : Answer(f, DocumentOpen(f, passwd), Answered(status))
    BY <2>1 DEF Open
  <2>3. QED
    BY <2>2, OpenedDocument, GoodAnswer
<1>5. CASE Close(f)
  <2>1. Effect(f, Closed, Answered("ok"))
    BY DEF Effect, Answered
  <2>2. QED
    BY <1>5, <2>1, GoodAnswer DEF Close
<1>6. CASE DocumentQuery(f) \/ Save(f)
  BY <1>2, <1>6 DEF DocumentQuery, Save
<1>7. CASE \E pn \in PageArg : PageQuery(f, pn) \/ RenderPage(f, pn)
  <2>1. PICK pn \in PageArg : PageQuery(f, pn) \/ RenderPage(f, pn)
    BY <1>7
  <2>2. QED
    BY <1>2, <2>1 DEF PageQuery, RenderPage
<1>8. CASE \E opts \in ArgList(OptName) : SetOptions(f, opts)
  <2>1. PICK opts \in ArgList(OptName) : SetOptions(f, opts)
    BY <1>8
  <2> DEFINE commit == [o \in Option |-> IF o \in DOMAIN opts.pairs THEN opts.pairs[o] ELSE d.options[o]]
             h == [d EXCEPT !.options = commit]
  <2>2. CASE Answer(f, d, Answered("err"))
    BY <1>2, <2>2
  <2>3. CASE /\ \A o \in DOMAIN opts.pairs : o \in Option /\ opts.pairs[o] # Bad
             /\ Answer(f, h, Answered("ok"))
    <3>1. DocumentInv(f, d) /\ d = Current(f)
      BY <1>1, <2>1 DEF SetOptions
    <3>2. \A o \in DOMAIN opts.pairs : opts.pairs[o] \in Val
      BY <2>1, <2>3 DEF ArgList
    <3>3. commit \in [Option -> Val]
      BY <3>1, <3>2 DEF DocumentInv, Document
    <3>4. DocumentInv(f, h)
      BY <3>1, <3>3, OptionsInv
    <3>5. h.keys = d.keys /\ h.pdf = d.pdf
      BY <3>1 DEF DocumentInv, Document
    <3>6. Effect(f, h, Answered("ok"))
      BY <3>1, <3>5 DEF Effect, Answered, Learns, Annots, InPdf
    <3>7. QED
      BY <2>3, <3>4, <3>6, GoodAnswer
  <2>4. QED
    BY <2>1, <2>2, <2>3 DEF SetOptions
<1>9. QED
  BY <1>3, <1>4, <1>5, <1>6, <1>7, <1>8 DEF DocCommand

LEMMA GetAnnotsStep ==
  ASSUME IInv, NEW f \in File, NEW first \in PageArg, NEW last \in PageArg,
         GetAnnots(f, first, last)
  PROVE  GoodStep(f)
<1> DEFINE d == ArgDoc(f)
           range == {pn \in Page : first <= pn /\ pn <= LastPage(last)}
           g == GetForPages(f, d, range)
           r == [cmd |-> "getannots", file |-> f, pages |-> <<first, last>>, status |-> "ok",
                 annots |-> UNION {g.lists[pn] : pn \in {p \in range : Loadable(f, p)}}]
<1>1. DocumentInv(f, d) /\ d = Current(f) /\ Answer(f, g, r)
  BY OpenedDocument DEF GetAnnots, ArgDoc
<1>2. /\ DocumentInv(f, g) /\ g.pdf = d.pdf /\ d.keys \subseteq g.keys
      /\ \A pn \in range : Loadable(f, pn) => {e.annot : e \in g.lists[pn]} = InPdf(g, pn)
  <2> HIDE DEF range, d
  <2>1. QED
    BY <1>1, GetForPagesInv
<1> HIDE DEF g
<1>3. first \in Nat /\ last \in Nat
  BY ConstantsAssumption DEF PageArg
<1>4. r.annots \subseteq g.keys
  BY <1>2 DEF DocumentInv
<1>5. g \in Document
  BY <1>2 DEF DocumentInv
<1>6. r \in Reply
  BY <1>3, <1>4, <1>5 DEF Reply, Document
<1>7. {e.annot : e \in r.annots} = UNION {InPdf(g, pn) : pn \in {p \in range : Loadable(f, p)}}
  BY <1>2
<1>8. docs'[f] = g /\ reply' = r
  BY <1>1 DEF Answer, IInv
<1>9. ListingComplete'
  <2>1. range = {pn \in Page : first <= pn /\ (last = 0 \/ pn <= last)}
    BY <1>3, ConstantsAssumption DEF LastPage, Page
  <2> DEFINE shown == {pn \in Page : first <= pn /\ (last = 0 \/ pn <= last) /\ Loadable(f, pn)}
  <2>2. {pn \in range : Loadable(f, pn)} = shown
    BY <2>1
  <2>3. {e.annot : e \in r.annots} = UNION {InPdf(g, pn) : pn \in shown}
    BY <1>7, <2>2
  <2>4. r.file = f /\ r.pages[1] = first /\ r.pages[2] = last
    OBVIOUS
  <2> HIDE DEF r
  <2>5. QED
    BY <1>4, <1>8, <2>3, <2>4 DEF ListingComplete
<1>10. Effect(f, g, r)
  BY <1>1, <1>2 DEF Effect, Learns, Annots, InPdf
<1>11. QED
  BY <1>1, <1>2, <1>5, <1>6, <1>9, <1>10 DEF GoodStep

LEMMA AddAnnotStep ==
  ASSUME IInv, NEW f \in File, NEW pn, NEW type, NEW regions,
         AddAnnot(f, pn, type, regions)
  PROVE  GoodStep(f)
<1> DEFINE d == ArgDoc(f)
           g == GetForPages(f, d, {pn})
<1>1. /\ DocumentInv(f, d) /\ d = Current(f)
      /\ \A r : Effect(f, d, r)
  BY OpenedDocument DEF AddAnnot, ArgDoc
<1>2. CASE Answer(f, d, Answered("err"))
  BY <1>1, <1>2, GoodAnswer
<1>3. CASE Loadable(f, pn) /\ ~Answer(f, d, Answered("err"))
  <2>1. pn \in Page
    BY <1>3 DEF Loadable
  <2>2. /\ DocumentInv(f, g) /\ g.pdf = d.pdf /\ d.keys \subseteq g.keys
        /\ {e.annot : e \in g.lists[pn]} = InPdf(g, pn)
    <3> HIDE DEF d
    <3>1. QED
      BY <1>1, <1>3, GetForPagesInv
  <2> DEFINE n(a, i) == [annot |-> a, key |-> <<pn, i>>]
             h(a, i) == [g EXCEPT !.pdf[pn] = Append(@, a),
                                  !.lists[pn] = @ \cup {n(a, i)},
                                  !.keys = Insert(@, {n(a, i)}),
                                  !.props[a] = [x \in PropName |-> DefaultVal]]
  <2>3. PICK a \in Annot, i \in KeyIndex :
          /\ \A p \in Page : a \notin InPdf(d, p)
          /\ NextIndex(g, pn, i)
          /\ Answer(f, h(a, i), Answered("ok"))
    BY <1>3 DEF AddAnnot
  <2> HIDE DEF g
  <2>4. /\ i \in Nat
        /\ \A p \in Page : a \notin InPdf(g, p)
        /\ \A e \in g.keys : e.key # <<pn, i>>
    BY <2>2, <2>3, ConstantsAssumption DEF NextIndex, InPdf
  <2>5. DocumentInv(f, h(a, i))
    BY <1>3, <2>1, <2>2, <2>4, AddedInv
  <2>6. /\ h(a, i).keys = g.keys \cup {n(a, i)}
        /\ h(a, i).pdf = [g.pdf EXCEPT ![pn] = Append(@, a)]
    <3>1. Insert(g.keys, {n(a, i)}) = g.keys \cup {n(a, i)}
      BY <2>4 DEF Insert
    <3>2. g \in Document
      BY <2>2 DEF DocumentInv
    <3>3. QED
      BY <2>1, <3>1, <3>2 DEF Document
  <2> HIDE DEF h
  <2>7. Annots(h(a, i)) = Annots(g) \cup {a}
    <3>1. g.pdf \in [Page -> Seq(Annot)]
      BY <2>2 DEF DocumentInv, Document
    <3> DEFINE s == g.pdf[pn]
    <3>2. s \in Seq(Annot)
      BY <2>1, <3>1
    <3>3. /\ DOMAIN Append(s, a) = DOMAIN s \cup {Len(s) + 1}
          /\ Append(s, a)[Len(s) + 1] = a
          /\ \A k \in DOMAIN s : Append(s, a)[k] = s[k]
      BY <3>2
    <3>4. h(a, i).pdf[pn] = Append(s, a)
      BY <2>1, <2>6, <3>1
    <3>5. ToSet(Append(s, a)) = ToSet(s) \cup {a}
      <4> HIDE DEF s
      <4>1. QED
        BY <3>3 DEF ToSet
    <3>6. /\ InPdf(h(a, i), pn) = InPdf(g, pn) \cup {a}
          /\ \A p \in Page : p # pn => InPdf(h(a, i), p) = InPdf(g, p)
      BY <2>6, <3>1, <3>4, <3>5 DEF InPdf
    <3>7. QED
      BY <2>1, <3>6 DEF Annots
  <2>8. Annots(g) = Annots(d) /\ a \notin Annots(d)
    BY <2>2, <2>4 DEF Annots, InPdf
  <2>9. Adds(d, h(a, i))
    <3>1. n(a, i) \in h(a, i).keys /\ n(a, i).annot = a
      BY <2>6
    <3>2. QED
      BY <2>2, <2>6, <2>7, <2>8, <3>1 DEF Adds
  <2>10. Effect(f, h(a, i), Answered("ok"))
    BY <1>1, <2>9 DEF Effect, Answered
  <2>11. QED
    BY <2>3, <2>5, <2>10, GoodAnswer
<1>4. QED
  BY <1>2, <1>3 DEF AddAnnot

LEMMA DelAnnotStep ==
  ASSUME IInv, NEW f \in File, NEW key, DelAnnot(f, key)
  PROVE  GoodStep(f)
<1> DEFINE d == ArgDoc(f)
<1>1. /\ DocumentInv(f, d) /\ d = Current(f)
      /\ \A r : Effect(f, d, r)
  BY OpenedDocument DEF DelAnnot, ArgDoc
<1>2. CASE Answer(f, d, Answered("err"))
  BY <1>1, <1>2, GoodAnswer
<1>3. CASE ~Answer(f, d, Answered("err"))
  <2> DEFINE pn(e) == PageOf(d, e.annot)
             h(e) == [d EXCEPT !.pdf[pn(e)] = Without(@, e.annot),
                               !.lists[pn(e)] = @ \ {e},
                               !.keys = @ \ {e}]
  <2>1. PICK e \in d.keys :
          IF Loadable(f, pn(e))
          THEN Answer(f, h(e), Answered("ok"))
          ELSE Answer(f, [d EXCEPT !.dangling = @ \cup {e}], Answered("err"))
    BY <1>3 DEF DelAnnot
  <2> HIDE DEF d
  <2>2. /\ pn(e) \in Page /\ Loadable(f, pn(e))
        /\ DocumentInv(f, h(e))
        /\ ToSet(Without(d.pdf[pn(e)], e.annot)) = InPdf(d, pn(e)) \ {e.annot}
        /\ e \in d.lists[pn(e)]
    BY <1>1, RemovedInv
  <2>3. Answer(f, h(e), Answered("ok"))
    BY <2>1, <2>2
  <2>4. d \in Document
    BY <1>1 DEF DocumentInv
  <2>5. /\ h(e).keys = d.keys \ {e}
        /\ h(e).pdf = [d.pdf EXCEPT ![pn(e)] = Without(@, e.annot)]
    BY <2>2, <2>4 DEF Document
  <2> HIDE DEF h
  <2>6. /\ InPdf(h(e), pn(e)) = InPdf(d, pn(e)) \ {e.annot}
        /\ \A p \in Page : p # pn(e) => InPdf(h(e), p) = InPdf(d, p)
    BY <2>2, <2>4, <2>5 DEF InPdf, Document
  <2>7. \A p \in Page : p # pn(e) => e.annot \notin InPdf(d, p)
    <3>1. e.annot \in InPdf(d, pn(e))
      <4>1. {x.annot : x \in d.lists[pn(e)]} = InPdf(d, pn(e))
        BY <1>1, <2>2 DEF DocumentInv
      <4>2. QED
        BY <2>2, <4>1
    <3>2. \A p, q \in Page : p # q => InPdf(d, p) \cap InPdf(d, q) = {}
      BY <1>1 DEF DocumentInv
    <3>3. QED
      BY <2>2, <3>1, <3>2
  <2> HIDE DEF pn
  <2>8. Annots(h(e)) = Annots(d) \ {e.annot}
    BY <2>2, <2>6, <2>7 DEF Annots
  <2>9. Effect(f, h(e), Answered("ok"))
    BY <1>1, <2>5, <2>8 DEF Effect, Deletes, Answered
  <2>10. QED
    BY <2>2, <2>3, <2>9, GoodAnswer
<1>4. QED
  BY <1>2, <1>3

LEMMA EditAnnotStep ==
  ASSUME IInv, NEW f \in File, NEW key, NEW edits \in ArgList(PropName),
         EditAnnot(f, key, edits)
  PROVE  GoodStep(f)
<1> DEFINE d == ArgDoc(f)
           parsed == {n \in DOMAIN edits.pairs : edits.pairs[n] # Bad}
           applied(a) == [n \in PropName |-> IF n \in parsed THEN edits.pairs[n] ELSE d.props[a][n]]
           h(a) == [d EXCEPT !.props[a] = applied(a)]
<1>1. /\ DocumentInv(f, d) /\ d = Current(f)
      /\ \A r : Effect(f, d, r)
  BY OpenedDocument DEF EditAnnot, ArgDoc
<1>2. CASE Answer(f, d, Answered("err"))
  BY <1>1, <1>2, GoodAnswer
<1>3. CASE ~Answer(f, d, Answered("err"))
  <2>1. PICK e \in d.keys :
          /\ EditValidate(e.annot, edits)
          /\ Answer(f, h(e.annot), Answered(IF parsed = DOMAIN edits.pairs THEN "ok" ELSE "err"))
    BY <1>3 DEF EditAnnot
  <2>2. parsed = DOMAIN edits.pairs
    BY <2>1 DEF EditValidate
  <2>3. \A n \in parsed : edits.pairs[n] \in Val
    BY DEF ArgList
  <2>4. d \in Document /\ e.annot \in Annot
    BY <1>1 DEF DocumentInv, Document, Entry
  <2>5. applied(e.annot) \in [PropName -> Val]
    BY <2>3, <2>4 DEF Document
  <2> HIDE DEF applied
  <2>6. DocumentInv(f, h(e.annot))
    BY <1>1, <2>4, <2>5, PropsInv
  <2>7. h(e.annot).keys = d.keys /\ h(e.annot).pdf = d.pdf
    BY <2>4 DEF Document
  <2>8. Effect(f, h(e.annot), Answered("ok"))
    BY <1>1, <2>7 DEF Effect, Learns, Annots, InPdf, Answered
  <2>9. QED
    BY <2>1, <2>2, <2>6, <2>8, GoodAnswer
<1>4. QED
  BY <1>2, <1>3

LEMMA CommandStep ==
  ASSUME IInv, NEW f \in File, AnnotCommand(f) \/ DocCommand(f)
  PROVE  GoodStep(f)
<1>1. CASE DocCommand(f)
  BY <1>1, DocCommandStep
<1>2. CASE \E first, last \in PageArg : GetAnnots(f, first, last)
  BY <1>2, GetAnnotsStep
<1>3. CASE \E pn \in PageArg, type \in AnnotKind, regions \in {"none", "good", "bad"} :
              AddAnnot(f, pn, type, regions)
  BY <1>3, AddAnnotStep
<1>4. CASE \E key \in KeyArg(f) : GetAnnot(f, key) \/ GetAttachment(f, key)
  <2>1. PICK status \in {"ok", "err"} : ArgDoc(f) # Closed /\ Answer(f, ArgDoc(f), Answered(status))
    BY <1>4 DEF GetAnnot, GetAttachment
  <2>2. QED
    BY <2>1, OpenedDocument, GoodAnswer DEF ArgDoc
<1>5. CASE \E key \in KeyArg(f) : DelAnnot(f, key)
  BY <1>5, DelAnnotStep
<1>6. CASE \E key \in KeyArg(f), edits \in ArgList(PropName) : EditAnnot(f, key, edits)
  BY <1>6, EditAnnotStep
<1>7. QED
  BY <1>1, <1>2, <1>3, <1>4, <1>5, <1>6 DEF AnnotCommand


-----------------------------------------------------------------------------
(* The steps that are not about one document.                              *)

OtherStep == SkipLine \/ RejectLine \/ Quit \/ Start

LEMMA NextCases ==
  ASSUME IInv, Next
  PROVE  OtherStep \/ \E f \in File : GoodStep(f)
BY CommandStep DEF Next, OtherStep

LEMMA OtherStepKeeps ==
  ASSUME IInv, OtherStep
  PROVE  /\ running' \in BOOLEAN
         /\ \E status \in {"ok", "err", "none"} :
              reply' = Answered(status) /\ reply' \in Reply /\ reply'.cmd = "other"
         /\ docs' = docs \/ docs' = [f \in File |-> Closed]
         /\ reply'.status = "err" => docs' = docs
<1>1. \A status \in {"ok", "err", "none"} :
        /\ Answered(status) \in Reply /\ Answered(status).cmd = "other"
        /\ Answered(status).status = status
  BY DEF Answered, Reply
<1>2. CASE SkipLine
  BY <1>1, <1>2 DEF SkipLine, IInv
<1>3. CASE RejectLine
  BY <1>1, <1>3 DEF RejectLine, IInv
<1>4. CASE Quit
  BY <1>1, <1>4 DEF Quit, IInv
<1>5. CASE Start
  BY <1>1, <1>5 DEF Start, IInv
<1>6. QED
  BY <1>2, <1>3, <1>4, <1>5 DEF OtherStep

-----------------------------------------------------------------------------
(* The inductive invariant.                                                *)

LEMMA InitInv == Init => IInv /\ ListingComplete
<1> SUFFICES ASSUME Init PROVE IInv /\ ListingComplete
  OBVIOUS
<1>1. reply \in Reply /\ reply.cmd = "other"
  BY DEF Init, Answered, Reply
<1>2. IInv
  BY <1>1 DEF Init, IInv, OpenDocs
<1>3. QED
  BY <1>1, <1>2 DEF ListingComplete

LEMMA GoodStepInv ==
  ASSUME IInv, NEW f \in File, GoodStep(f)
  PROVE  IInv' /\ ListingComplete'
<1>1. PICK d \in Document \cup {Closed}, r \in Reply :
        /\ Answer(f, d, r)
        /\ d = Closed \/ DocumentInv(f, d)
        /\ r.cmd = "getannots" => ListingComplete'
  BY DEF GoodStep
<1>2. running' = running /\ reply' = r /\ docs' = [docs EXCEPT ![f] = d]
  BY <1>1 DEF Answer
<1>3. docs' \in [File -> Document \cup {Closed}]
  BY <1>2 DEF IInv
<1>4. ASSUME NEW g \in File, docs'[g] # Closed
      PROVE  DocumentInv(g, docs'[g])
  <2>1. CASE g = f
    BY <1>1, <1>2, <1>4, <2>1 DEF IInv
  <2>2. CASE g # f
    BY <1>2, <1>4, <2>2 DEF IInv, OpenDocs
  <2>3. QED
    BY <2>1, <2>2
<1>5. IInv'
  BY <1>2, <1>3, <1>4 DEF IInv, OpenDocs
<1>6. ListingComplete'
  BY <1>1, <1>2 DEF ListingComplete
<1>7. QED
  BY <1>5, <1>6

LEMMA StepInv == IInv /\ ListingComplete /\ [Next]_vars => IInv' /\ ListingComplete'
<1> SUFFICES ASSUME IInv, ListingComplete, [Next]_vars
             PROVE  IInv' /\ ListingComplete'
  OBVIOUS
<1>1. CASE \E f \in File : GoodStep(f)
  BY <1>1, GoodStepInv
<1>2. CASE OtherStep
  <2>1. docs' \in [File -> Document \cup {Closed}]
    BY <1>2, OtherStepKeeps DEF IInv
  <2>2. \A f \in File : docs'[f] # Closed => docs'[f] = docs[f]
    BY <1>2, OtherStepKeeps DEF IInv
  <2>3. running' \in BOOLEAN /\ reply' \in Reply /\ reply'.cmd = "other"
    BY <1>2, OtherStepKeeps
  <2>4. \A f \in File : docs'[f] # Closed => DocumentInv(f, docs'[f])
    BY <2>2 DEF IInv, OpenDocs
  <2>5. QED
    BY <2>1, <2>3, <2>4 DEF IInv, OpenDocs, ListingComplete
<1>3. CASE UNCHANGED vars
  BY <1>3 DEF vars, IInv, OpenDocs, ListingComplete
<1>4. QED
  BY <1>1, <1>2, <1>3, NextCases

\* What the commands preserve holds of the server: the inductive invariant, and that
\* the last answer of getannots about pages there are was complete.
LEMMA Preserved == Spec => [](IInv /\ ListingComplete)
<1>1. Init => IInv /\ ListingComplete
  BY InitInv
<1>2. (IInv /\ ListingComplete) /\ [Next]_vars => (IInv /\ ListingComplete)'
  BY StepInv
<1>3. QED
  BY <1>1, <1>2, PTL DEF Spec

\* The inductive invariant holds in every reachable state: every open document
\* satisfies DocumentInv after every command.
THEOREM Invariance == Spec => []IInv
BY Preserved, PTL

-----------------------------------------------------------------------------
(* What follows from the invariant: the properties of EpdfServer.           *)

\* A list that is empty is built anew without meeting a key of the table:
\* the entries with a key of the page are those of its list.
LEMMA NoClash == IInv => ScanNeverClashes
<1> SUFFICES ASSUME IInv, NEW f \in OpenDocs, NEW pn \in Page,
                    NeedsScan(f, docs[f], pn),
                    NEW n \in Scan(docs[f], pn), NEW e \in docs[f].keys,
                    e.key = n.key
             PROVE  FALSE
  BY DEF ScanNeverClashes
<1>1. DocumentInv(f, docs[f])
  BY DEF IInv, OpenDocs
<1>2. PICK q \in Page : e \in docs[f].lists[q]
  BY <1>1 DEF DocumentInv
<1>3. e.key[1] = q
  BY <1>1, <1>2 DEF DocumentInv
<1>4. n.key[1] = pn
  BY DEF Scan
<1>5. QED
  BY <1>2, <1>3, <1>4 DEF NeedsScan

\* In every state the variables have their types.
THEOREM TypeCorrect == Spec => []TypeOK
<1>1. IInv => TypeOK
  BY DEF IInv, TypeOK
<1>2. QED
  BY <1>1, Invariance, PTL

\* The key table and the page lists always hold the same annotations.
THEOREM TablesAgree == Spec => []KeysMatchLists
<1>1. IInv => KeysMatchLists
  BY DEF IInv, KeysMatchLists, DocumentInv
<1>2. QED
  BY <1>1, Invariance, PTL

\* No two annotations of a document have one key, no annotation two.
THEOREM KeysAreUnique == Spec => []KeysUnique
<1>1. IInv => KeysUnique
  BY DEF IInv, KeysUnique, DocumentInv
<1>2. QED
  BY <1>1, Invariance, PTL

\* A page list that was built shows what poppler has on the page.
THEOREM ListsAreCurrent == Spec => []ListsMatchPdf
<1>1. IInv => ListsMatchPdf
  BY DEF IInv, ListsMatchPdf, DocumentInv
<1>2. QED
  BY <1>1, Invariance, PTL

\* The assertion of annoation_get_for_page holds whenever it is evaluated.
THEOREM AssertionHolds == Spec => []ScanNeverClashes
BY NoClash, Invariance, PTL

\* The path of cmd_delannot that frees a registered annotation is never taken.
THEOREM NothingDangles == Spec => []NoDangling
<1>1. IInv => NoDangling
  BY DEF IInv, NoDangling, DocumentInv
<1>2. QED
  BY <1>1, Invariance, PTL

\* getannots, asked for pages the document has, lists exactly poppler's
\* annotations of them, each under a valid key.
THEOREM ListingIsComplete == Spec => []ListingComplete
BY Preserved, PTL

-----------------------------------------------------------------------------
(* What a step may not do.                                                  *)

\* A command that answers with an error leaves every open document as it was.
THEOREM ErrorsAreAtomic == Spec => ErrorChangesNothing
<1>1. ASSUME IInv, Next, reply'.status = "err", NEW f \in OpenDocs
      PROVE  docs'[f] = docs[f]
  <2>1. CASE OtherStep
    BY <1>1, <2>1, OtherStepKeeps
  <2>2. ASSUME NEW g \in File, GoodStep(g)
        PROVE  docs'[f] = docs[f]
    <3>1. PICK d, r : Answer(g, d, r) /\ Effect(g, d, r)
      BY <2>2 DEF GoodStep
    <3>2. docs' = [docs EXCEPT ![g] = d] /\ reply' = r
      BY <3>1 DEF Answer
    <3>3. g = f => d = docs[f]
      BY <1>1, <3>1, <3>2 DEF Effect, OpenDocs
    <3>4. QED
      BY <3>2, <3>3 DEF IInv, OpenDocs
  <2>3. QED
    BY <1>1, <2>1, <2>2, NextCases
<1>2. IInv /\ [Next]_vars =>
        [reply'.status = "err" => \A f \in OpenDocs : docs'[f] = docs[f]]_vars
  BY <1>1
<1>3. QED
  BY <1>2, Invariance, PTL DEF Spec, ErrorChangesNothing

\* A key that stays in the table keeps its annotation: two entries that agree
\* in key or annotation, before and after a step, are one.
THEOREM KeysKeepTheirMeaning == Spec => KeyNeverRebound
<1> DEFINE Same(e, n) == e.key = n.key \/ e.annot = n.annot
<1>1. ASSUME IInv, IInv', Next, NEW f \in OpenDocs, docs'[f] # Closed,
             NEW e \in docs[f].keys, NEW n \in docs'[f].keys,
             e.key = n.key \/ e.annot = n.annot
      PROVE  e = n
  <2>1. /\ \A x, y \in docs[f].keys : Same(x, y) => x = y
        /\ \A x, y \in docs'[f].keys : Same(x, y) => x = y
    BY <1>1 DEF IInv, OpenDocs, DocumentInv
  <2>2. docs[f].keys \subseteq docs'[f].keys \/ docs'[f].keys \subseteq docs[f].keys
    <3>1. CASE OtherStep
      BY <1>1, <3>1, OtherStepKeeps DEF OpenDocs
    <3>2. ASSUME NEW g \in File, GoodStep(g)
          PROVE  docs[f].keys \subseteq docs'[f].keys \/ docs'[f].keys \subseteq docs[f].keys
      <4>1. PICK d, r : Answer(g, d, r) /\ Effect(g, d, r)
        BY <3>2 DEF GoodStep
      <4>2. docs' = [docs EXCEPT ![g] = d]
        BY <4>1 DEF Answer
      <4>3. g # f => docs'[f] = docs[f]
        BY <4>2 DEF IInv
      <4>4. g = f => docs'[f] = d /\ Current(f) = docs[f]
        BY <1>1, <4>2 DEF IInv, OpenDocs, Current
      <4>5. QED
        BY <1>1, <4>1, <4>3, <4>4 DEF Effect, Learns, Adds, Deletes
    <3>3. QED
      BY <1>1, <3>1, <3>2, NextCases
  <2>3. QED
    BY <1>1, <2>1, <2>2
<1>2. IInv /\ IInv' /\ [Next]_vars =>
        [\A f \in OpenDocs : docs'[f] # Closed =>
           \A e \in docs[f].keys, n \in docs'[f].keys :
             (e.key = n.key \/ e.annot = n.annot) => e = n]_vars
  BY <1>1
<1>3. QED
  BY <1>2, Invariance, PTL DEF Spec, KeyNeverRebound


-----------------------------------------------------------------------------
(* The server implements the annotation store.                              *)

StoreOf(d) == [annots |-> Annots(d), names |-> d.keys]

storeBar == [f \in File |-> IF docs[f] = Closed THEN Closed ELSE StoreOf(docs[f])]

\* What the store says of a document whose invariant holds.
LEMMA StoreOfInv ==
  ASSUME NEW f, NEW d, DocumentInv(f, d)
  PROVE  StoreOf(d) \in Store!Content /\ Store!WellNamed(StoreOf(d))
<1>1. \A pn \in Page : InPdf(d, pn) \subseteq Annot
  BY DEF DocumentInv, Document, InPdf, ToSet
<1>2. d.keys \subseteq Entry
  BY DEF DocumentInv, Document
<1>3. StoreOf(d) \in Store!Content
  BY <1>1, <1>2 DEF StoreOf, Annots, Store!Content, Store!Named, Entry
<1>4. \A n \in d.keys : n.annot \in Annots(d)
  BY DEF DocumentInv, Annots
<1>5. \A n1, n2 \in d.keys : (n1.key = n2.key \/ n1.annot = n2.annot) => n1 = n2
  BY DEF DocumentInv
<1>6. Store!WellNamed(StoreOf(d))
  BY <1>4, <1>5 DEF StoreOf, Store!WellNamed
<1>7. QED
  BY <1>3, <1>6

\* One command on a document is one step of the store.
LEMMA StepOfStore ==
  ASSUME IInv, NEW f \in File, GoodStep(f)
  PROVE  Store!Next
<1>1. PICK d \in Document \cup {Closed}, r \in Reply :
        /\ Answer(f, d, r)
        /\ d = Closed \/ DocumentInv(f, d)
        /\ Effect(f, d, r)
  BY DEF GoodStep
<1>2. docs' = [docs EXCEPT ![f] = d] /\ docs \in [File -> Document \cup {Closed}]
  BY <1>1 DEF Answer, IInv
<1>3. CASE d = Closed
  <2>1. storeBar' = [storeBar EXCEPT ![f] = Closed]
    BY <1>2, <1>3 DEF storeBar
  <2>2. Store!Close(f)
    BY <2>1 DEF Store!Close, storeBar, StoreOf, Annots
  <2>3. QED
    BY <2>2 DEF Store!Next
<1>4. CASE d # Closed
  <2>1. storeBar' = [storeBar EXCEPT ![f] = StoreOf(d)] /\ storeBar'[f] = StoreOf(d)
    BY <1>2, <1>4 DEF storeBar
  <2>2. StoreOf(d) \in Store!Content /\ Store!WellNamed(StoreOf(d))
    BY <1>1, <1>4, StoreOfInv
  <2>3. Store!Update(f)
    BY <2>1, <2>2 DEF Store!Update, storeBar, StoreOf, Annots
  <2>4. Store!Current(f) = StoreOf(Current(f))
    <3>1. CASE docs[f] = Closed
      <4>1. Current(f) = NewDocument(f)
        BY <3>1 DEF Current
      <4>2. Annots(NewDocument(f)) = UNION {ToSet(OnDisk[f][pn]) : pn \in Page}
        BY DEF Annots, InPdf, NewDocument
      <4>3. NewDocument(f).keys = {}
        BY DEF NewDocument
      <4>4. QED
        BY <3>1, <4>1, <4>2, <4>3 DEF Store!Current, StoreOf
    <3>2. CASE docs[f] # Closed
      <4>1. StoreOf(docs[f]) # Closed
        BY <3>2, StoreOfInv, ClosedAssumption DEF IInv, OpenDocs
      <4>2. QED
        BY <3>2, <4>1 DEF Store!Current, StoreOf, Current, Annots
    <3>3. QED
      BY <3>1, <3>2
  <2>5. /\ StoreOf(d).annots = Annots(d) /\ StoreOf(d).names = d.keys
        /\ Store!Current(f).annots = Annots(Current(f))
        /\ Store!Current(f).names = Current(f).keys
    BY <2>4 DEF StoreOf
  <2>6. CASE Learns(Current(f), d)
    <3>1. Store!Learn(f)
      BY <2>1, <2>3, <2>5, <2>6 DEF Store!Learn, Learns, storeBar, StoreOf, Annots
    <3>2. QED
      BY <3>1 DEF Store!Next
  <2>7. CASE Adds(Current(f), d)
    <3>1. Store!Add(f)
      BY <2>1, <2>3, <2>5, <2>7 DEF Store!Add, Adds, storeBar, StoreOf, Annots
    <3>2. QED
      BY <3>1 DEF Store!Next
  <2>8. CASE Deletes(Current(f), d)
    <3>1. Store!Delete(f)
      BY <2>1, <2>3, <2>5, <2>8 DEF Store!Delete, Deletes, storeBar, StoreOf, Annots
    <3>2. QED
      BY <3>1 DEF Store!Next
  <2>9. QED
    BY <1>1, <1>4, <2>6, <2>7, <2>8 DEF Effect
<1>5. QED
  BY <1>3, <1>4

\* The server implements the annotation store: every command a client sends is
\* one of the store's operations, or is not seen in the store.
THEOREM ImplementsAnnotStore == Spec => ImplementsStore
<1>1. Init => Store!Init
  BY DEF Init, Store!Init
<1>2. ASSUME IInv, [Next]_vars
      PROVE  [Store!Next]_storeBar
  <2>1. CASE \E f \in File : GoodStep(f)
    BY <1>2, <2>1, StepOfStore
  <2>2. CASE OtherStep
    <3>1. CASE docs' = docs
      BY <3>1 DEF storeBar
    <3>2. CASE docs' = [f \in File |-> Closed]
      BY <3>2 DEF Store!Next, Store!CloseAll
    <3>3. QED
      BY <1>2, <2>2, <3>1, <3>2, OtherStepKeeps
  <2>3. CASE UNCHANGED vars
    BY <2>3 DEF vars, storeBar
  <2>4. QED
    BY <1>2, <2>1, <2>2, <2>3, NextCases
<1>3. QED
  BY <1>1, <1>2, Invariance, PTL DEF Spec, ImplementsStore, Store!Spec, storeBar, StoreOf, Annots

=============================================================================
