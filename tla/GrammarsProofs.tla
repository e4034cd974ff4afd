-------------------------- MODULE GrammarsProofs --------------------------
(***************************************************************************)
(* What holds of the grammars of a call for any documents, links, items,   *)
(* addresses and depth of subdialogs: main listens to exactly what the     *)
(* item asks for, every grammar it keeps has one owner, and the signals it *)
(* caches lack none of a grammar that is active.                           *)
(***************************************************************************)
EXTENDS Grammars, SequenceTheorems, TLAPS

-----------------------------------------------------------------------------
(* Types.                                                                   *)

OnPages == UNION {ToSet(Page[d]) : d \in Docs}
AllTexts == {g.text : g \in OnPages} \cup ToSet(Links)

PageInfos ==
  [doc : Docs, scope : Places, dialog : {g.dialog : g \in OnPages},
   field : {g.field : g \in OnPages}, dynamic : BOOLEAN, text : AllTexts,
   gram : Addresses \cup {None}, enabled : BOOLEAN]
LinkInfos == [text : ToSet(Links), gram : Addresses, enabled : BOOLEAN]
Managers == [doc : Docs \cup {None}, grammars : Seq(PageInfos),
             universals : Seq(LinkInfos)]

Entries == [text : AllTexts, active : BOOLEAN]
Table(ids) == DOMAIN ids \subseteq Addresses /\ ids \in [DOMAIN ids -> Entries]

\* The two lists of a manager.
Kinds == {"page", "link"}
Row(c, k) == IF k = "page" THEN c.grammars ELSE c.universals

-----------------------------------------------------------------------------
(* The inductive invariant: c is a manager, w are those that wait, ids the  *)
(* table of main.                                                           *)

\* A grammar that is named is known by its text, and active when enabled.
Fits(info, ids) ==
  /\ info.gram = None => ~info.enabled
  /\ info.gram # None =>
       /\ info.gram \in DOMAIN ids
       /\ ids[info.gram].text = info.text
       /\ ids[info.gram].active = info.enabled
Agrees(c, ids) == \A k \in Kinds : \A i \in DOMAIN Row(c, k) : Fits(Row(c, k)[i], ids)

\* A grammar of the page is loaded with it, or if dynamic when enabled.
Made(c) == \A i \in DOMAIN c.grammars :
             c.grammars[i].gram = None
               <=> (c.grammars[i].dynamic /\ ~c.grammars[i].enabled)

\* Each grammar has one owner.
Names(c, id) == \E k \in Kinds : \E i \in DOMAIN Row(c, k) : Row(c, k)[i].gram = id
Once(c) ==
  \A k, l \in Kinds : \A i \in DOMAIN Row(c, k) : \A j \in DOMAIN Row(c, l) :
    Row(c, k)[i].gram = Row(c, l)[j].gram /\ Row(c, k)[i].gram # None =>
      k = l /\ i = j
Owned(c, w, ids) ==
  /\ Once(c) /\ \A m \in DOMAIN w : Once(w[m])
  /\ \A id \in DOMAIN ids : Names(c, id) \/ \E m \in DOMAIN w : Names(w[m], id)
  /\ \A id \in Addresses : \A m \in DOMAIN w : Names(w[m], id) =>
       /\ ~Names(c, id)
       /\ \A n \in DOMAIN w : Names(w[n], id) => n = m

Quiet(c) == \A k \in Kinds : \A i \in DOMAIN Row(c, k) : ~Row(c, k)[i].enabled

\* What main knows of the managers.
Tabled(c, w, ids) ==
  /\ Owned(c, w, ids)
  /\ Agrees(c, ids) /\ Made(c)
  /\ \A m \in DOMAIN w : Agrees(w[m], ids) /\ Made(w[m]) /\ Quiet(w[m])

Recorded(ids, texts) == \A id \in DOMAIN ids : <<ids[id].text, id>> \in texts

\* How far the lists have been gone through.
Asks(d, it, info) ==
  LET dialogs == info.doc = d /\ info.dialog = it.dialog
  IN  \/ it.field # "" /\ dialogs /\ info.field = it.field
      \/ ~it.modal /\ info.scope = "dialog" /\ dialogs
      \/ ~it.modal /\ info.scope = "document"
EnabledFrom(c, it, n) ==
  \A i \in DOMAIN c.grammars :
    IF i <= n THEN ~c.grammars[i].enabled
    ELSE c.grammars[i].enabled <=> Asks(c.doc, it, c.grammars[i])
LinksEnabled(c, it) ==
  \A i \in DOMAIN c.universals : c.universals[i].enabled => it.universals
SomeEnabled(c) ==
  \E k \in Kinds : \E i \in DOMAIN Row(c, k) : Row(c, k)[i].enabled

Phase ==
  /\ pc \in {"idle", "release", "load", "disable", "enable", "listen", "call",
             "deaf", "ending", "done"}
  /\ at \in Nat /\ target \in Docs \cup {None}
  /\ pc = "load" => target # None
  /\ pc \in {"load", "call"} => Quiet(gm)
  /\ pc = "disable" => /\ at # 0
                       /\ \A i \in DOMAIN gm.grammars :
                            i < at => ~gm.grammars[i].enabled
  /\ pc = "enable" => /\ at <= Len(gm.grammars)
                      /\ EnabledFrom(gm, item, at) /\ LinksEnabled(gm, item)
  /\ pc = "listen" => /\ EnabledFrom(gm, item, 0) /\ LinksEnabled(gm, item)
                      /\ \A i \in DOMAIN gm.universals :
                           item.universals => gm.universals[i].enabled
                      /\ SomeEnabled(gm)

\* Signals may be old only where none are active, or while grammars are freed.
Signalled == \/ pc = "release" \/ Active = {}
             \/ gram_signals \in {None, Texts(Active)}

Typed == /\ gm \in Managers /\ callers \in Seq(Managers) /\ Table(gram_ids)

IInv == /\ Typed /\ Phase /\ Signalled
        /\ Tabled(gm, callers, gram_ids) /\ Recorded(gram_ids, gram_texts)

-----------------------------------------------------------------------------
(* Sequences and the lists of a manager.                                    *)

\* s differs from t at most at i.
SameAt(t, s, i) ==
  \A j : j # i => /\ j \in DOMAIN s <=> j \in DOMAIN t
                  /\ j \in DOMAIN t => s[j] = t[j]

LEMMA AppendedAt ==
  ASSUME NEW S, NEW t \in Seq(S), NEW x \in S
  PROVE  LET s == Append(t, x)
             n == Len(t) + 1
         IN  /\ s \in Seq(S) /\ DOMAIN s = 1..n /\ n \notin DOMAIN t
             /\ n \in DOMAIN s /\ s[n] = x /\ SameAt(t, s, n)
<1> DEFINE s == Append(t, x)
           n == Len(t) + 1
<1>1. /\ s \in Seq(S) /\ Len(s) = n /\ s[n] = x
      /\ \A j \in 1..Len(t) : s[j] = t[j]
  BY AppendProperties
<1>2. Len(t) \in Nat /\ DOMAIN t = 1..Len(t) /\ DOMAIN s = 1..Len(s)
  BY <1>1
<1> HIDE DEF s
<1>3. n \in DOMAIN s /\ n \notin DOMAIN t /\ DOMAIN s = 1..n
  BY <1>1, <1>2
<1>4. SameAt(t, s, n)
  BY <1>1, <1>2 DEF SameAt
<1> QED
  BY <1>1, <1>3, <1>4 DEF s

LEMMA FrontAt ==
  ASSUME NEW S, NEW t \in Seq(S), t # <<>>
  PROVE  LET s == Front(t)
             n == Len(t)
         IN  /\ s \in Seq(S) /\ n \in DOMAIN t /\ Last(t) = t[n] /\ t[n] \in S
             /\ n \notin DOMAIN s /\ SameAt(t, s, n)
<1> DEFINE s == Front(t)
           n == Len(t)
<1>1. n \in Nat \ {0} /\ DOMAIN t = 1..n
  BY EmptySeq
<1>2. \A i \in 1..n - 1 : t[i] \in S
  BY <1>1
<1>3. s = SubSeq(t, 1, n - 1)
  BY DEF Front
<1>4. 1 \in Int /\ n - 1 \in Int
  BY <1>1
<1>5. s \in Seq(S)
  BY <1>2, <1>3, <1>4, SubSeqProperties
<1>6. Len(s) = IF 1 <= n - 1 THEN (n - 1) - 1 + 1 ELSE 0
  BY <1>2, <1>3, <1>4, SubSeqProperties
<1>7. \A i \in 1..(n - 1) - 1 + 1 : s[i] = t[1 + i - 1]
  BY <1>2, <1>3, <1>4, SubSeqProperties
<1> HIDE DEF s
<1>8. Len(s) = n - 1 /\ DOMAIN s = 1..n - 1
  <2> HIDE DEF n
  <2>1. Len(s) = n - 1
    BY <1>1, <1>6
  <2>2. DOMAIN s = 1..Len(s)
    BY <1>5
  <2> QED
    BY <2>1, <2>2
<1>9. \A i \in 1..n - 1 : s[i] = t[i]
  BY <1>1, <1>7
<1>10. SameAt(t, s, n) /\ n \notin DOMAIN s
  BY <1>1, <1>8, <1>9 DEF SameAt
<1>11. n \in DOMAIN t /\ t[n] \in S /\ Last(t) = t[n]
  BY <1>1 DEF Last
<1> QED
  BY <1>5, <1>10, <1>11 DEF s

LEMMA EditedAt ==
  ASSUME NEW S, NEW t \in Seq(S), NEW i \in DOMAIN t, NEW x \in S
  PROVE  LET s == [t EXCEPT ![i] = x]
         IN  /\ s \in Seq(S) /\ DOMAIN s = DOMAIN t /\ Len(s) = Len(t) /\ s[i] = x
             /\ SameAt(t, s, i)
<1> DEFINE s == [t EXCEPT ![i] = x]
<1>1. s \in Seq(S) /\ DOMAIN s = DOMAIN t /\ Len(s) = Len(t) /\ s[i] = x
  OBVIOUS
<1>2. SameAt(t, s, i)
  BY DEF SameAt
<1> QED
  BY <1>1, <1>2

LEMMA ManagerIs ==
  ASSUME NEW c \in Managers
  PROVE  /\ c.doc \in Docs \cup {None}
         /\ c.grammars \in Seq(PageInfos) /\ c.universals \in Seq(LinkInfos)
         /\ \A i \in DOMAIN c.grammars : c.grammars[i] \in PageInfos
         /\ \A i \in DOMAIN c.universals : c.universals[i] \in LinkInfos
         /\ Row(c, "page") = c.grammars /\ Row(c, "link") = c.universals
<1>1. /\ c.doc \in Docs \cup {None}
      /\ c.grammars \in Seq(PageInfos) /\ c.universals \in Seq(LinkInfos)
  BY DEF Managers
<1>2. \A i \in DOMAIN c.grammars : c.grammars[i] \in PageInfos
  BY <1>1
<1>3. \A i \in DOMAIN c.universals : c.universals[i] \in LinkInfos
  BY <1>1
<1> QED
  BY <1>1, <1>2, <1>3 DEF Row

\* d differs from c at most in the list k, at i.
SameBut(c, d, k, i) ==
  \A l \in Kinds : \A j : l # k \/ j # i =>
    /\ j \in DOMAIN Row(d, l) <=> j \in DOMAIN Row(c, l)
    /\ j \in DOMAIN Row(c, l) => Row(d, l)[j] = Row(c, l)[j]

-----------------------------------------------------------------------------
(* One info of the manager that runs changes, and main is told.             *)

GramAt(c, k, i) == IF i \in DOMAIN Row(c, k) THEN Row(c, k)[i].gram ELSE None

\* Main forgets o, unless it is n, and knows n, which was unknown unless it is o.
Moved(ids, e, o, n) ==
  /\ \A x : x # o /\ x # n => /\ x \in DOMAIN e <=> x \in DOMAIN ids
                              /\ x \in DOMAIN ids => e[x] = ids[x]
  /\ n # None => n \in DOMAIN e /\ (n # o => n \notin DOMAIN ids)
  /\ o # None /\ o # n => o \notin DOMAIN e

LEMMA SlotKeeps ==
  ASSUME NEW c \in Managers, NEW d \in Managers, NEW w \in Seq(Managers),
         NEW ids, NEW e, Table(ids), Table(e), NEW k \in Kinds, NEW i,
         SameBut(c, d, k, i), Moved(ids, e, GramAt(c, k, i), GramAt(d, k, i)),
         i \in DOMAIN Row(d, k) => Fits(Row(d, k)[i], e),
         Tabled(c, w, ids), Made(d)
  PROVE  Tabled(d, w, e)
<1>1. PICK o, n : o = GramAt(c, k, i) /\ n = GramAt(d, k, i)
  OBVIOUS
<1>2. Moved(ids, e, o, n)
  BY <1>1
<1>3. ASSUME NEW l \in Kinds, NEW j \in DOMAIN Row(d, l)
      PROVE  \/ l = k /\ j = i /\ Row(d, l)[j].gram = n
             \/ /\ l # k \/ j # i
                /\ j \in DOMAIN Row(c, l) /\ Row(d, l)[j] = Row(c, l)[j]
  BY <1>1 DEF SameBut, GramAt
<1>4. ASSUME NEW l \in Kinds, NEW j \in DOMAIN Row(c, l)
      PROVE  \/ l = k /\ j = i /\ Row(c, l)[j].gram = o
             \/ /\ l # k \/ j # i
                /\ j \in DOMAIN Row(d, l) /\ Row(d, l)[j] = Row(c, l)[j]
  BY <1>1 DEF SameBut, GramAt
<1>5. /\ Once(c) /\ Agrees(c, ids)
      /\ \A m \in DOMAIN w : w[m] \in Managers
      /\ \A m \in DOMAIN w : Once(w[m]) /\ Agrees(w[m], ids) /\ Made(w[m]) /\ Quiet(w[m])
      /\ \A id \in DOMAIN ids : Names(c, id) \/ \E m \in DOMAIN w : Names(w[m], id)
      /\ \A id \in Addresses : \A m \in DOMAIN w : Names(w[m], id) =>
           /\ ~Names(c, id)
           /\ \A q \in DOMAIN w : Names(w[q], id) => q = m
  BY DEF Tabled, Owned
<1>6. \A x \in DOMAIN ids \cup DOMAIN e : x \in Addresses /\ x # None
  BY GrammarsAssumption DEF Table
<1>7. o # None => Names(c, o)
  BY <1>1 DEF GramAt, Names
<1>8. \A x : Names(c, x) /\ x # None => x \in DOMAIN ids
  BY <1>5 DEF Names, Agrees, Fits
<1>9. \A m \in DOMAIN w : \A x : Names(w[m], x) /\ x # None => x \in DOMAIN ids
  BY <1>5 DEF Names, Agrees, Fits
<1>10. ASSUME NEW l \in Kinds, NEW j \in DOMAIN Row(c, l), l # k \/ j # i,
              Row(c, l)[j].gram # None
       PROVE  Row(c, l)[j].gram # o /\ Row(c, l)[j].gram # n
  <2>1. PICK x : x = Row(c, l)[j].gram
    OBVIOUS
  <2>2. x # o
    <3>1. SUFFICES ASSUME x = o
                   PROVE  FALSE
      OBVIOUS
    <3>2. i \in DOMAIN Row(c, k) /\ Row(c, k)[i].gram = o /\ o # None
      BY <1>1, <1>10, <2>1, <3>1 DEF GramAt
    <3>3. Row(c, l)[j].gram = Row(c, k)[i].gram /\ Row(c, l)[j].gram # None
      BY <1>10, <2>1, <3>1, <3>2
    <3>4. l = k /\ j = i
      BY <1>5, <3>2, <3>3 DEF Once
    <3> QED
      BY <1>10, <3>4
  <2>3. x \in DOMAIN ids
    BY <1>5, <1>10, <2>1 DEF Agrees, Fits
  <2>4. x # n
    BY <1>2, <1>6, <2>2, <2>3 DEF Moved
  <2> QED
    BY <2>1, <2>2, <2>4
<1>11. ASSUME NEW m \in DOMAIN w, NEW x, Names(w[m], x), x # None
       PROVE  x # o /\ x # n /\ x \in DOMAIN ids /\ x \in DOMAIN e /\ e[x] = ids[x]
  <2>1. x \in DOMAIN ids /\ x \in Addresses
    BY <1>6, <1>9, <1>11
  <2>2. x # o
    BY <1>5, <1>7, <1>11, <2>1
  <2>3. x # n
    BY <1>2, <1>11, <2>1, <2>2 DEF Moved
  <2> QED
    BY <1>2, <2>1, <2>2, <2>3 DEF Moved
<1>12. Agrees(d, e)
  <2> SUFFICES ASSUME NEW l \in Kinds, NEW j \in DOMAIN Row(d, l)
               PROVE  Fits(Row(d, l)[j], e)
    BY DEF Agrees
  <2>1. CASE l = k /\ j = i
    BY <2>1
  <2>2. CASE l # k \/ j # i
    <3>1. j \in DOMAIN Row(c, l) /\ Row(d, l)[j] = Row(c, l)[j]
      BY <1>3, <2>2
    <3>2. Fits(Row(c, l)[j], ids)
      BY <1>5, <3>1 DEF Agrees
    <3>3. PICK x : x = Row(c, l)[j].gram
      OBVIOUS
    <3>4. x # None => x \in DOMAIN e /\ e[x] = ids[x]
      BY <1>2, <1>10, <2>2, <3>1, <3>2, <3>3 DEF Moved, Fits
    <3> QED
      BY <3>1, <3>2, <3>3, <3>4 DEF Fits
  <2> QED
    BY <2>1, <2>2
<1>13. Once(d)
  <2> SUFFICES ASSUME NEW l \in Kinds, NEW p \in Kinds,
                      NEW j \in DOMAIN Row(d, l), NEW q \in DOMAIN Row(d, p),
                      Row(d, l)[j].gram = Row(d, p)[q].gram, Row(d, l)[j].gram # None
               PROVE  l = p /\ j = q
    BY DEF Once
  <2>1. CASE (l = k /\ j = i) /\ (p = k /\ q = i)
    BY <2>1
  <2>2. CASE (l = k /\ j = i) /\ ~(p = k /\ q = i)
    BY <1>3, <1>10, <2>2
  <2>3. CASE ~(l = k /\ j = i) /\ (p = k /\ q = i)
    BY <1>3, <1>10, <2>3
  <2>4. CASE ~(l = k /\ j = i) /\ ~(p = k /\ q = i)
    BY <1>3, <1>5, <2>4 DEF Once
  <2> QED
    BY <2>1, <2>2, <2>3, <2>4
<1>14. ASSUME NEW id, Names(c, id), id # o
       PROVE  Names(d, id)
  BY <1>4, <1>14 DEF Names
<1>15. ASSUME NEW id, Names(d, id)
       PROVE  Names(c, id) \/ id = n
  BY <1>3, <1>15 DEF Names
<1>16. ASSUME NEW id \in DOMAIN e
       PROVE  Names(d, id) \/ \E m \in DOMAIN w : Names(w[m], id)
  <2>1. CASE id = n
    BY <1>1, <1>6, <2>1 DEF GramAt, Names
  <2>2. CASE id # n
    <3>1. id # o /\ id \in DOMAIN ids
      BY <1>2, <1>6, <2>2 DEF Moved
    <3> QED
      BY <1>5, <1>14, <3>1
  <2> QED
    BY <2>1, <2>2
<1>17. ASSUME NEW id \in Addresses, NEW m \in DOMAIN w, Names(w[m], id)
       PROVE  ~Names(d, id)
  <2>1. id # None
    BY GrammarsAssumption
  <2>2. ~Names(c, id) /\ id # n
    BY <1>5, <1>11, <1>17, <2>1
  <2> QED
    BY <1>15, <2>2
<1>18. Owned(d, w, e)
  BY <1>5, <1>13, <1>16, <1>17 DEF Owned
<1>19. ASSUME NEW m \in DOMAIN w
       PROVE  Agrees(w[m], e)
  <2> SUFFICES ASSUME NEW l \in Kinds, NEW j \in DOMAIN Row(w[m], l)
               PROVE  Fits(Row(w[m], l)[j], e)
    BY DEF Agrees
  <2>1. Fits(Row(w[m], l)[j], ids)
    BY <1>5 DEF Agrees
  <2>2. PICK x : x = Row(w[m], l)[j].gram
    OBVIOUS
  <2>3. x # None => x \in DOMAIN ids /\ x \in DOMAIN e /\ e[x] = ids[x]
    BY <1>11, <2>2 DEF Names
  <2> QED
    BY <2>1, <2>2, <2>3 DEF Fits
<1> QED
  BY <1>5, <1>12, <1>18, <1>19 DEF Tabled

-----------------------------------------------------------------------------
(* What main does.                                                          *)

LEMMA Adds ==
  ASSUME NEW ids, NEW e, Table(ids), NEW id \in Addresses \ DOMAIN ids,
         NEW text \in AllTexts, NEW active \in BOOLEAN,
         e = [g \in DOMAIN e |-> e[g]], DOMAIN e = DOMAIN ids \cup {id},
         e[id] = [text |-> text, active |-> active],
         \A g \in DOMAIN ids : e[g] = ids[g]
  PROVE  /\ Table(e) /\ Moved(ids, e, None, id)
         /\ id \in DOMAIN e /\ e[id].text = text /\ e[id].active = active
         /\ DOMAIN e = DOMAIN ids \cup {id}
         /\ \A g \in DOMAIN ids : e[g] = ids[g] /\ g # id
<1>1. /\ id \in DOMAIN e /\ e[id] = [text |-> text, active |-> active]
      /\ DOMAIN e = DOMAIN ids \cup {id}
      /\ \A g \in DOMAIN ids : e[g] = ids[g] /\ g # id
  OBVIOUS
<1>2. \A g \in DOMAIN e : e[g] \in Entries
  BY <1>1 DEF Table, Entries
<1>3. e \in [DOMAIN e -> Entries]
  BY <1>2
<1>4. Table(e)
  BY <1>1, <1>3 DEF Table
<1>5. Moved(ids, e, None, id)
  BY <1>1 DEF Moved
<1> QED
  BY <1>1, <1>4, <1>5

LEMMA Sets ==
  ASSUME NEW ids, NEW e, Table(ids), NEW id \in DOMAIN ids, NEW active \in BOOLEAN,
         e = [g \in DOMAIN e |-> e[g]], DOMAIN e = DOMAIN ids,
         e[id] = [ids[id] EXCEPT !.active = active],
         \A g \in DOMAIN ids : g # id => e[g] = ids[g]
  PROVE  /\ Table(e) /\ Moved(ids, e, id, id) /\ DOMAIN e = DOMAIN ids
         /\ e[id].text = ids[id].text /\ e[id].active = active
         /\ \A g \in DOMAIN ids : g # id => e[g] = ids[g]
<1>1. ids[id] \in Entries
  BY DEF Table
<1>2. PICK x : x = [ids[id] EXCEPT !.active = active]
  OBVIOUS
<1>3. x \in Entries /\ x.text = ids[id].text /\ x.active = active
  BY <1>1, <1>2 DEF Entries
<1>4. \A g \in DOMAIN e : e[g] \in Entries
  BY <1>2, <1>3 DEF Table
<1>5. e \in [DOMAIN e -> Entries] /\ e[id] = x
  BY <1>2, <1>4
<1>6. Table(e)
  BY <1>5 DEF Table
<1>7. Moved(ids, e, id, id)
  BY <1>5 DEF Moved
<1> QED
  BY <1>3, <1>5, <1>6, <1>7

LEMMA Frees ==
  ASSUME NEW ids, NEW e, Table(ids), NEW id \in DOMAIN ids,
         e = [g \in DOMAIN ids \ {id} |-> ids[g]]
  PROVE  /\ Table(e) /\ Moved(ids, e, id, None) /\ DOMAIN e = DOMAIN ids \ {id}
         /\ \A g \in DOMAIN e : e[g] = ids[g] /\ g # id
<1>1. /\ DOMAIN e = DOMAIN ids \ {id}
      /\ \A g \in DOMAIN e : e[g] = ids[g] /\ g # id
  OBVIOUS
<1>2. \A g \in DOMAIN e : e[g] \in Entries
  BY <1>1 DEF Table
<1>3. e \in [DOMAIN e -> Entries]
  BY <1>1, <1>2
<1>4. Table(e)
  BY <1>1, <1>3 DEF Table
<1>5. id # None /\ None \notin DOMAIN ids
  BY GrammarsAssumption DEF Table
<1>6. Moved(ids, e, id, None)
  BY <1>1, <1>5 DEF Moved
<1> QED
  BY <1>1, <1>4, <1>6

LEMMA Leaves ==
  ASSUME NEW ids
  PROVE  Moved(ids, ids, None, None)
BY DEF Moved

\* The texts that are active.
ActiveIn(ids) == {id \in DOMAIN ids : ids[id].active}
TextsOf(ids)  == {ids[id].text : id \in ActiveIn(ids)}

LEMMA ActiveIs ==
  Active = ActiveIn(gram_ids) /\ Texts(Active) = TextsOf(gram_ids)
BY DEF Active, Texts, ActiveIn, TextsOf

LEMMA SameTexts ==
  ASSUME NEW ids, NEW e,
         \A x : /\ (x \in DOMAIN e /\ e[x].active) <=> (x \in DOMAIN ids /\ ids[x].active)
                /\ x \in DOMAIN ids /\ ids[x].active => e[x].text = ids[x].text
  PROVE  ActiveIn(e) = ActiveIn(ids) /\ TextsOf(e) = TextsOf(ids)
<1>1. ActiveIn(e) = ActiveIn(ids)
  BY DEF ActiveIn
<1>2. \A x \in ActiveIn(ids) : e[x].text = ids[x].text
  BY DEF ActiveIn
<1> QED
  BY <1>1, <1>2 DEF TextsOf

\* What is cached is of the table ids.
SignalsOf(signals, ids) == ActiveIn(ids) = {} \/ signals \in {None, TextsOf(ids)}

\* What is cached lacks no text that is active, and what it has too many are
\* universals.
CoveredBy(signals, ids) ==
  signals # None => /\ TextsOf(ids) \subseteq signals
                    /\ signals \subseteq TextsOf(ids) \cup ToSet(Links)
Covered == CoveredBy(gram_signals, gram_ids)

LEMMA SignalledIs == Signalled <=> pc = "release" \/ SignalsOf(gram_signals, gram_ids)
BY ActiveIs DEF Signalled, SignalsOf

\* One grammar is loaded and not active.
LEMMA HandleGrammarDoes ==
  ASSUME Table(gram_ids), Recorded(gram_ids, gram_texts),
         NEW id \in Addresses \ DOMAIN gram_ids, NEW text \in AllTexts,
         HandleGrammar(id, text)
  PROVE  /\ Table(gram_ids') /\ Moved(gram_ids, gram_ids', None, id)
         /\ id \in DOMAIN gram_ids' /\ gram_ids'[id].text = text
         /\ gram_ids'[id].active = FALSE
         /\ Recorded(gram_ids', gram_texts')
         /\ SignalsOf(gram_signals, gram_ids) => SignalsOf(gram_signals', gram_ids')
<1>1. PICK e : e = gram_ids'
  OBVIOUS
<1>2. PICK ids : ids = gram_ids
  OBVIOUS
<1>0. PICK b \in BOOLEAN : b = FALSE
  OBVIOUS
<1>2a. Table(ids) /\ id \in Addresses \ DOMAIN ids
  BY <1>2
<1>2b. /\ e = [g \in DOMAIN e |-> e[g]] /\ DOMAIN e = DOMAIN ids \cup {id}
       /\ e[id] = [text |-> text, active |-> b]
       /\ \A g \in DOMAIN ids : e[g] = ids[g]
  BY <1>0, <1>1, <1>2, <1>2a DEF HandleGrammar
<1>3. /\ Table(e) /\ Moved(ids, e, None, id)
      /\ id \in DOMAIN e /\ e[id].text = text /\ e[id].active = b
      /\ DOMAIN e = DOMAIN ids \cup {id}
      /\ \A g \in DOMAIN ids : e[g] = ids[g] /\ g # id
  BY <1>2a, <1>2b, Adds
<1>4. gram_texts' = gram_texts \cup {<<text, id>>} /\ gram_signals' = gram_signals
  BY DEF HandleGrammar, Record
<1>5. Recorded(e, gram_texts')
  BY <1>2, <1>3, <1>4 DEF Recorded
<1>6. ActiveIn(e) = ActiveIn(ids) /\ TextsOf(e) = TextsOf(ids)
  <2>1. ASSUME NEW x
        PROVE  /\ (x \in DOMAIN e /\ e[x].active) <=> (x \in DOMAIN ids /\ ids[x].active)
               /\ x \in DOMAIN ids /\ ids[x].active => e[x].text = ids[x].text
    BY <1>0, <1>3
  <2> QED
    BY <2>1, SameTexts
<1> QED
  BY <1>0, <1>1, <1>2, <1>3, <1>4, <1>5, <1>6 DEF SignalsOf

LEMMA HandleGrammarAndActivateDoes ==
  ASSUME Table(gram_ids), Recorded(gram_ids, gram_texts),
         NEW id \in Addresses \ DOMAIN gram_ids, NEW text \in AllTexts,
         HandleGrammarAndActivate(id, text)
  PROVE  /\ Table(gram_ids') /\ Moved(gram_ids, gram_ids', None, id)
         /\ id \in DOMAIN gram_ids' /\ gram_ids'[id].text = text
         /\ gram_ids'[id].active = TRUE
         /\ Recorded(gram_ids', gram_texts') /\ SignalsOf(gram_signals', gram_ids')
<1>1. PICK e : e = gram_ids'
  OBVIOUS
<1>2. PICK ids : ids = gram_ids
  OBVIOUS
<1>0. PICK b \in BOOLEAN : b = TRUE
  OBVIOUS
<1>2a. Table(ids) /\ id \in Addresses \ DOMAIN ids
  BY <1>2
<1>2b. /\ e = [g \in DOMAIN e |-> e[g]] /\ DOMAIN e = DOMAIN ids \cup {id}
       /\ e[id] = [text |-> text, active |-> b]
       /\ \A g \in DOMAIN ids : e[g] = ids[g]
  BY <1>0, <1>1, <1>2, <1>2a DEF HandleGrammarAndActivate
<1>3. /\ Table(e) /\ Moved(ids, e, None, id)
      /\ id \in DOMAIN e /\ e[id].text = text /\ e[id].active = b
      /\ DOMAIN e = DOMAIN ids \cup {id}
      /\ \A g \in DOMAIN ids : e[g] = ids[g] /\ g # id
  BY <1>2a, <1>2b, Adds
<1>4. gram_texts' = gram_texts \cup {<<text, id>>} /\ gram_signals' = None
  BY DEF HandleGrammarAndActivate, Record, ForgetSignals
<1>5. Recorded(e, gram_texts')
  BY <1>2, <1>3, <1>4 DEF Recorded
<1> QED
  BY <1>0, <1>1, <1>2, <1>3, <1>4, <1>5 DEF SignalsOf

LEMMA HandleGrammarStatusDoes ==
  ASSUME Table(gram_ids), Recorded(gram_ids, gram_texts),
         NEW id \in DOMAIN gram_ids, NEW active \in BOOLEAN,
         HandleGrammarStatus(id, active)
  PROVE  /\ Table(gram_ids') /\ Moved(gram_ids, gram_ids', id, id)
         /\ id \in DOMAIN gram_ids' /\ gram_ids'[id].text = gram_ids[id].text
         /\ gram_ids'[id].active = active
         /\ Recorded(gram_ids', gram_texts') /\ SignalsOf(gram_signals', gram_ids')
<1>1. PICK e : e = gram_ids'
  OBVIOUS
<1>2. PICK ids : ids = gram_ids
  OBVIOUS
<1>2a. Table(ids) /\ id \in DOMAIN ids
  BY <1>2
<1>2b. /\ e = [g \in DOMAIN e |-> e[g]] /\ DOMAIN e = DOMAIN ids
       /\ e[id] = [ids[id] EXCEPT !.active = active]
       /\ \A g \in DOMAIN ids : g # id => e[g] = ids[g]
  BY <1>1, <1>2, <1>2a DEF HandleGrammarStatus, Table
<1>3. /\ Table(e) /\ Moved(ids, e, id, id) /\ DOMAIN e = DOMAIN ids
      /\ e[id].text = ids[id].text /\ e[id].active = active
      /\ \A g \in DOMAIN ids : g # id => e[g] = ids[g]
  BY <1>2a, <1>2b, Sets
<1>4. gram_texts' = gram_texts /\ gram_signals' = None
  BY DEF HandleGrammarStatus, ForgetSignals
<1>5. \A g \in DOMAIN e : e[g].text = ids[g].text
  BY <1>3
<1>6. Recorded(e, gram_texts')
  BY <1>2, <1>3, <1>4, <1>5 DEF Recorded
<1> QED
  BY <1>1, <1>2, <1>3, <1>4, <1>6 DEF SignalsOf

LEMMA HandleFreeGrammarDoes ==
  ASSUME Table(gram_ids), Recorded(gram_ids, gram_texts),
         NEW id \in DOMAIN gram_ids, HandleFreeGrammar(id)
  PROVE  /\ Table(gram_ids') /\ Moved(gram_ids, gram_ids', id, None)
         /\ Recorded(gram_ids', gram_texts')
<1>1. PICK e : e = gram_ids'
  OBVIOUS
<1>2. PICK ids : ids = gram_ids
  OBVIOUS
<1>3. /\ Table(e) /\ Moved(ids, e, id, None) /\ DOMAIN e = DOMAIN ids \ {id}
      /\ \A g \in DOMAIN e : e[g] = ids[g] /\ g # id
  BY <1>1, <1>2, Frees DEF HandleFreeGrammar
<1>4. gram_texts' = gram_texts \ {<<ids[id].text, id>>}
  BY <1>2 DEF HandleFreeGrammar
<1>5. Recorded(e, gram_texts')
  BY <1>2, <1>3, <1>4 DEF Recorded
<1> QED
  BY <1>1, <1>2, <1>3, <1>5

\* Nothing is active where nothing is enabled.
LEMMA QuietActive ==
  ASSUME NEW c, NEW w, NEW ids, Tabled(c, w, ids), Quiet(c), Table(ids)
  PROVE  ActiveIn(ids) = {}
<1> SUFFICES ASSUME NEW id \in DOMAIN ids
             PROVE  ~ids[id].active
  BY DEF ActiveIn
<1>1. id # None
  BY GrammarsAssumption DEF Table
<1>2. ASSUME NEW b, Agrees(b, ids), Quiet(b), Names(b, id)
      PROVE  ~ids[id].active
  BY <1>1, <1>2 DEF Agrees, Quiet, Names, Fits
<1>3. Names(c, id) \/ \E m \in DOMAIN w : Names(w[m], id)
  BY DEF Tabled, Owned
<1>4. CASE Names(c, id)
  BY <1>2, <1>4 DEF Tabled
<1>5. CASE \E m \in DOMAIN w : Names(w[m], id)
  BY <1>2, <1>5 DEF Tabled
<1> QED
  BY <1>3, <1>4, <1>5

-----------------------------------------------------------------------------
(* Infos that change, and lists that are gone through.                      *)

LEMMA PageInfoIs ==
  ASSUME NEW info \in PageInfos
  PROVE  /\ info.text \in AllTexts /\ info.gram \in Addresses \cup {None}
         /\ info.enabled \in BOOLEAN /\ info.dynamic \in BOOLEAN
BY DEF PageInfos

\* What is enabled or not, and where, changes; what it is of does not.
SameOf(info, new) ==
  /\ new.doc = info.doc /\ new.scope = info.scope /\ new.dialog = info.dialog
  /\ new.field = info.field /\ new.dynamic = info.dynamic /\ new.text = info.text

LEMMA EnablesIs ==
  ASSUME NEW info
  PROVE  Enables(info) <=> Asks(gm.doc, item, info)
BY DEF Enables, Asks

LEMMA AsksSame ==
  ASSUME NEW d, NEW it, NEW info, NEW new, SameOf(info, new)
  PROVE  Asks(d, it, new) <=> Asks(d, it, info)
BY DEF Asks, SameOf

\* One grammar of a page becomes another.
PageBecomes(c, d, i, new) ==
  /\ i \in DOMAIN c.grammars /\ d \in Managers /\ d.doc = c.doc
  /\ d.universals = c.universals /\ DOMAIN d.grammars = DOMAIN c.grammars
  /\ Len(d.grammars) = Len(c.grammars)
  /\ d.grammars[i] = new /\ SameAt(c.grammars, d.grammars, i)

LEMMA PageBecomesIs ==
  ASSUME NEW c \in Managers, NEW i \in DOMAIN c.grammars, NEW new \in PageInfos,
         NEW d, d = [c EXCEPT !.grammars = [c.grammars EXCEPT ![i] = new]]
  PROVE  PageBecomes(c, d, i, new)
<1>1. PICK s : s = [c.grammars EXCEPT ![i] = new]
  OBVIOUS
<1>2. /\ s \in Seq(PageInfos) /\ DOMAIN s = DOMAIN c.grammars
      /\ Len(s) = Len(c.grammars) /\ s[i] = new /\ SameAt(c.grammars, s, i)
  BY <1>1, ManagerIs, EditedAt
<1>3. d = [c EXCEPT !.grammars = s]
  BY <1>1
<1>4. /\ d \in Managers /\ d.doc = c.doc /\ d.grammars = s
      /\ d.universals = c.universals
  BY <1>2, <1>3 DEF Managers
<1> QED
  BY <1>2, <1>4 DEF PageBecomes

LinkBecomes(c, d, i, new) ==
  /\ i \in DOMAIN c.universals /\ d \in Managers /\ d.doc = c.doc
  /\ d.grammars = c.grammars /\ DOMAIN d.universals = DOMAIN c.universals
  /\ d.universals[i] = new /\ SameAt(c.universals, d.universals, i)

LEMMA LinkBecomesIs ==
  ASSUME NEW c \in Managers, NEW i \in DOMAIN c.universals, NEW new \in LinkInfos,
         NEW d, d = [c EXCEPT !.universals = [c.universals EXCEPT ![i] = new]]
  PROVE  LinkBecomes(c, d, i, new)
<1>1. PICK s : s = [c.universals EXCEPT ![i] = new]
  OBVIOUS
<1>2. /\ s \in Seq(LinkInfos) /\ DOMAIN s = DOMAIN c.universals
      /\ s[i] = new /\ SameAt(c.universals, s, i)
  BY <1>1, ManagerIs, EditedAt
<1>3. d = [c EXCEPT !.universals = s]
  BY <1>1
<1>4. /\ d \in Managers /\ d.doc = c.doc /\ d.universals = s
      /\ d.grammars = c.grammars
  BY <1>2, <1>3 DEF Managers
<1> QED
  BY <1>2, <1>4 DEF LinkBecomes

\* The table follows one grammar of the page, if it is made as it should be,
MadeAs(info) == info.gram = None <=> (info.dynamic /\ ~info.enabled)

LEMMA PageKeeps ==
  ASSUME NEW c \in Managers, NEW d \in Managers, NEW i, d.universals = c.universals,
         SameAt(c.grammars, d.grammars, i), NEW w \in Seq(Managers),
         NEW ids, NEW e, Table(ids), Table(e), Tabled(c, w, ids),
         Moved(ids, e, GramAt(c, "page", i), GramAt(d, "page", i)),
         i \in DOMAIN d.grammars => Fits(d.grammars[i], e),
         i \in DOMAIN d.grammars => MadeAs(d.grammars[i])
  PROVE  Tabled(d, w, e)
<1>1. SameBut(c, d, "page", i)
  <2>1. ASSUME NEW j
        PROVE  /\ j # i => /\ j \in DOMAIN d.grammars <=> j \in DOMAIN c.grammars
                           /\ j \in DOMAIN c.grammars => d.grammars[j] = c.grammars[j]
               /\ j \in DOMAIN d.universals <=> j \in DOMAIN c.universals
               /\ j \in DOMAIN c.universals => d.universals[j] = c.universals[j]
    BY DEF SameAt
  <2> QED
    BY <2>1 DEF SameBut, Row, Kinds
<1>2. Row(d, "page") = d.grammars
  BY DEF Row
<1>3. Made(d)
  BY DEF Made, MadeAs, Tabled, SameAt
<1>4. PICK k \in Kinds : k = "page"
  BY DEF Kinds
<1>5. SameBut(c, d, k, i)
  BY <1>1, <1>4
<1>6. Moved(ids, e, GramAt(c, k, i), GramAt(d, k, i))
  BY <1>4
<1>7. i \in DOMAIN Row(d, k) => Fits(Row(d, k)[i], e)
  BY <1>2, <1>4
<1> QED
  BY <1>3, <1>5, <1>6, <1>7, SlotKeeps

\* and one link.
LEMMA LinkKeeps ==
  ASSUME NEW c \in Managers, NEW d \in Managers, NEW i, d.grammars = c.grammars,
         SameAt(c.universals, d.universals, i), NEW w \in Seq(Managers),
         NEW ids, NEW e, Table(ids), Table(e), Tabled(c, w, ids),
         Moved(ids, e, GramAt(c, "link", i), GramAt(d, "link", i)),
         i \in DOMAIN d.universals => Fits(d.universals[i], e)
  PROVE  Tabled(d, w, e)
<1>1. SameBut(c, d, "link", i)
  <2>1. ASSUME NEW j
        PROVE  /\ j # i => /\ j \in DOMAIN d.universals <=> j \in DOMAIN c.universals
                           /\ j \in DOMAIN c.universals => d.universals[j] = c.universals[j]
               /\ j \in DOMAIN d.grammars <=> j \in DOMAIN c.grammars
               /\ j \in DOMAIN c.grammars => d.grammars[j] = c.grammars[j]
    BY DEF SameAt
  <2> QED
    BY <2>1 DEF SameBut, Row, Kinds
<1>2. Row(d, "link") = d.universals
  BY DEF Row
<1>3. Made(d)
  BY DEF Made, Tabled
<1>4. PICK k \in Kinds : k = "link"
  BY DEF Kinds
<1>5. SameBut(c, d, k, i)
  BY <1>1, <1>4
<1>6. Moved(ids, e, GramAt(c, k, i), GramAt(d, k, i))
  BY <1>4
<1>7. i \in DOMAIN Row(d, k) => Fits(Row(d, k)[i], e)
  BY <1>2, <1>4
<1> QED
  BY <1>3, <1>5, <1>6, <1>7, SlotKeeps

LEMMA PageBecomesKeeps ==
  ASSUME NEW c \in Managers, NEW d, NEW i, NEW new \in PageInfos,
         PageBecomes(c, d, i, new), NEW w \in Seq(Managers), NEW ids, NEW e,
         Table(ids), Table(e), Tabled(c, w, ids),
         Moved(ids, e, c.grammars[i].gram, new.gram), Fits(new, e),
         MadeAs(new)
  PROVE  Tabled(d, w, e)
<1>1. /\ GramAt(c, "page", i) = c.grammars[i].gram /\ GramAt(d, "page", i) = new.gram
      /\ d.grammars[i] = new
  BY DEF PageBecomes, GramAt, Row
<1>2. /\ d \in Managers /\ d.universals = c.universals
      /\ SameAt(c.grammars, d.grammars, i)
  BY DEF PageBecomes
<1>3. Moved(ids, e, GramAt(c, "page", i), GramAt(d, "page", i))
  BY <1>1
<1>4. Fits(d.grammars[i], e) /\ MadeAs(d.grammars[i])
  BY <1>1
<1> QED
  BY <1>2, <1>3, <1>4, PageKeeps

LEMMA LinkBecomesKeeps ==
  ASSUME NEW c \in Managers, NEW d, NEW i, NEW new \in LinkInfos,
         LinkBecomes(c, d, i, new), NEW w \in Seq(Managers), NEW ids, NEW e,
         Table(ids), Table(e), Tabled(c, w, ids),
         Moved(ids, e, c.universals[i].gram, new.gram), Fits(new, e)
  PROVE  Tabled(d, w, e)
<1>1. /\ GramAt(c, "link", i) = c.universals[i].gram /\ GramAt(d, "link", i) = new.gram
      /\ d.universals[i] = new
  BY DEF LinkBecomes, GramAt, Row
<1>2. /\ d \in Managers /\ d.grammars = c.grammars
      /\ SameAt(c.universals, d.universals, i)
  BY DEF LinkBecomes
<1>3. Moved(ids, e, GramAt(c, "link", i), GramAt(d, "link", i))
  BY <1>1
<1>4. Fits(d.universals[i], e)
  BY <1>1
<1> QED
  BY <1>2, <1>3, <1>4, LinkKeeps

\* Each list, one by one.
LEMMA QuietIs ==
  ASSUME NEW c
  PROVE  Quiet(c) <=> /\ \A i \in DOMAIN c.grammars : ~c.grammars[i].enabled
                      /\ \A i \in DOMAIN c.universals : ~c.universals[i].enabled
BY DEF Quiet, Row, Kinds

LEMMA SomeEnabledIs ==
  ASSUME NEW c
  PROVE  SomeEnabled(c) <=> \/ \E i \in DOMAIN c.grammars : c.grammars[i].enabled
                            \/ \E i \in DOMAIN c.universals : c.universals[i].enabled
BY DEF SomeEnabled, Row, Kinds

LEMMA AgreesIs ==
  ASSUME NEW c, NEW ids
  PROVE  Agrees(c, ids) <=> /\ \A i \in DOMAIN c.grammars : Fits(c.grammars[i], ids)
                            /\ \A i \in DOMAIN c.universals : Fits(c.universals[i], ids)
BY DEF Agrees, Row, Kinds

-----------------------------------------------------------------------------
(* The steps.                                                               *)

LEMMA InvIs ==
  ASSUME IInv
  PROVE  /\ gm \in Managers /\ callers \in Seq(Managers) /\ Table(gram_ids)
         /\ Phase /\ Tabled(gm, callers, gram_ids) /\ Recorded(gram_ids, gram_texts)
         /\ pc = "release" \/ SignalsOf(gram_signals, gram_ids)
BY SignalledIs DEF IInv, Typed

LEMMA InvFrom ==
  ASSUME gm \in Managers, callers \in Seq(Managers), Table(gram_ids),
         Phase, Tabled(gm, callers, gram_ids), Recorded(gram_ids, gram_texts),
         pc = "release" \/ SignalsOf(gram_signals, gram_ids)
  PROVE  IInv
BY SignalledIs DEF IInv, Typed

LEMMA InvFromPrime ==
  (/\ gm \in Managers /\ callers \in Seq(Managers) /\ Table(gram_ids)
   /\ Phase /\ Tabled(gm, callers, gram_ids) /\ Recorded(gram_ids, gram_texts)
   /\ pc = "release" \/ SignalsOf(gram_signals, gram_ids)
   => IInv)'
BY InvFrom, PTL

\* Nothing but the place changes.
LEMMA LoopKeeps ==
  ASSUME IInv, UNCHANGED <<gm, callers, main>>, Phase',
         pc # "release" \/ pc' = "release"
  PROVE  IInv'
<1>1. /\ gm' = gm /\ callers' = callers /\ gram_ids' = gram_ids
      /\ gram_texts' = gram_texts /\ gram_signals' = gram_signals
  BY DEF main
<1>2. /\ gm' \in Managers /\ callers' \in Seq(Managers) /\ Table(gram_ids')
      /\ Tabled(gm', callers', gram_ids') /\ Recorded(gram_ids', gram_texts')
      /\ pc' = "release" \/ SignalsOf(gram_signals', gram_ids')
  BY <1>1, InvIs
<1> QED
  BY <1>2, InvFromPrime DEF main


\* Where nothing but at and pc matters.
LEMMA Elsewhere ==
  ASSUME pc' \in {"idle", "release", "deaf", "ending", "done"}, at' \in Nat,
         target' \in Docs \cup {None}
  PROVE  Phase'
BY DEF Phase

LEMMA InstallDocumentKeeps ==
  ASSUME IInv, InstallDocument
  PROVE  IInv'
<1>1. pc' = "release" /\ at' \in Nat /\ target' \in Docs \cup {None}
  BY DEF InstallDocument
<1>2. Phase' /\ UNCHANGED <<gm, callers, main>>
  BY <1>1, Elsewhere DEF InstallDocument
<1> QED
  BY <1>1, <1>2, LoopKeeps

LEMMA PopExecutionContextKeeps ==
  ASSUME IInv, PopExecutionContext
  PROVE  IInv'
<1>1. pc' = "release" /\ at' \in Nat /\ target' \in Docs \cup {None}
  BY DEF PopExecutionContext
<1>2. Phase' /\ UNCHANGED <<gm, callers, main>>
  BY <1>1, Elsewhere DEF PopExecutionContext
<1> QED
  BY <1>1, <1>2, LoopKeeps

LEMMA PhaseIs ==
  ASSUME IInv
  PROVE  at \in Nat /\ target \in Docs \cup {None} /\ Phase
BY DEF IInv, Phase

LEMMA LoadFailsKeeps ==
  ASSUME IInv, LoadFails
  PROVE  IInv'
<1>1. pc = "load" /\ pc' = "ending" /\ at' \in Nat /\ target' \in Docs \cup {None}
  BY PhaseIs DEF LoadFails
<1>2. Phase' /\ UNCHANGED <<gm, callers, main>>
  BY <1>1, Elsewhere DEF LoadFails
<1> QED
  BY <1>1, <1>2, LoopKeeps

LEMMA LoadedKeeps ==
  ASSUME IInv, Loaded
  PROVE  IInv'
<1>1. pc = "load" /\ pc' = "idle" /\ at' \in Nat /\ target' \in Docs \cup {None}
  BY PhaseIs DEF Loaded
<1>2. Phase' /\ UNCHANGED <<gm, callers, main>>
  BY <1>1, Elsewhere DEF Loaded
<1> QED
  BY <1>1, <1>2, LoopKeeps

LEMMA EnableFailsKeeps ==
  ASSUME IInv, EnableFails
  PROVE  IInv'
<1>1. pc = "enable" /\ pc' = "idle" /\ at' \in Nat /\ target' \in Docs \cup {None}
  BY PhaseIs DEF EnableFails
<1>2. Phase' /\ UNCHANGED <<gm, callers, main>>
  BY <1>1, Elsewhere DEF EnableFails
<1> QED
  BY <1>1, <1>2, LoopKeeps

LEMMA RecognizeKeeps ==
  ASSUME IInv, Recognize
  PROVE  IInv'
<1>1. pc \in {"listen", "deaf"} /\ pc' = "idle" /\ at' \in Nat /\ target' \in Docs \cup {None}
  BY PhaseIs DEF Recognize
<1>2. Phase' /\ UNCHANGED <<gm, callers, main>>
  BY <1>1, Elsewhere DEF Recognize
<1> QED
  BY <1>1, <1>2, LoopKeeps

\* Nothing is behind the first grammar that is disabled.
LEMMA CollectKeeps ==
  ASSUME IInv, Collect
  PROVE  IInv'
<1>1. pc = "idle" /\ pc' = "disable" /\ at' = 1 /\ target' = target /\ gm' = gm
  BY DEF Collect
<1>2. \A i \in DOMAIN gm.grammars : i \in Nat /\ i >= 1
  <2>1. gm.grammars \in Seq(PageInfos)
    BY InvIs, ManagerIs
  <2> QED
    BY <2>1
<1>3. \A i \in DOMAIN gm'.grammars : i < 1 => ~gm'.grammars[i].enabled
  BY <1>1, <1>2
<1>4. Phase'
  BY <1>1, <1>3, PhaseIs DEF Phase
<1>5. UNCHANGED <<gm, callers, main>>
  BY DEF Collect
<1> QED
  BY <1>1, <1>4, <1>5, LoopKeeps

\* What is enabled at the end is what the item asks for.
LEMMA EnabledKeeps ==
  ASSUME IInv, Enabled
  PROVE  IInv'
<1>1. /\ pc = "enable" /\ at = 0 /\ at' = 0 /\ gm' = gm /\ item' = item
      /\ target' = target
      /\ item.universals => \A i \in DOMAIN gm.universals : gm.universals[i].enabled
      /\ \/ SomeEnabled(gm) /\ pc' = "listen"
         \/ pc' \in {"idle", "deaf"}
  BY SomeEnabledIs DEF Enabled
<1>2. EnabledFrom(gm, item, 0) /\ LinksEnabled(gm, item)
  BY <1>1, PhaseIs DEF Phase
<1>3. Phase'
  BY <1>1, <1>2, PhaseIs DEF Phase
<1>4. UNCHANGED <<gm, callers, main>> /\ pc' # "release"
  BY <1>1 DEF Enabled
<1> QED
  BY <1>1, <1>3, <1>4, LoopKeeps

\* What main caches is what is active then.
LEMMA ActiveSignalsKeeps ==
  ASSUME IInv, ActiveSignals
  PROVE  IInv'
<1>1. /\ gm' = gm /\ callers' = callers /\ gram_ids' = gram_ids
      /\ gram_texts' = gram_texts /\ pc' = pc /\ at' = at /\ item' = item
      /\ target' = target
      /\ gram_signals' = TextsOf(gram_ids)
  BY ActiveIs DEF ActiveSignals, loop
<1>2. Phase'
  BY <1>1, PhaseIs DEF Phase
<1>3. SignalsOf(gram_signals', gram_ids')
  BY <1>1 DEF SignalsOf
<1> QED
  BY <1>1, <1>2, <1>3, InvIs, InvFromPrime

\* Nothing is kept of a call that has ended.
LEMMA NothingKept ==
  ASSUME NEW c, NEW w, c = NoGm, w = <<>>
  PROVE  /\ c \in Managers /\ w \in Seq(Managers) /\ Tabled(c, w, <<>>)
         /\ Table(<<>>) /\ Recorded(<<>>, {}) /\ SignalsOf(None, <<>>)
<1>1. c \in Managers /\ w \in Seq(Managers)
      /\ c.grammars = <<>> /\ c.universals = <<>>
  BY DEF NoGm, Managers
<1>2. PICK e : e = <<>>
  OBVIOUS
<1>3. DOMAIN e = {} /\ DOMAIN c.grammars = {} /\ DOMAIN c.universals = {}
      /\ DOMAIN w = {}
  BY <1>1, <1>2
<1>4. Table(e)
  BY <1>2, <1>3 DEF Table
<1>5. Tabled(c, w, e)
  BY <1>3 DEF Tabled, Owned, Once, Agrees, Made, Row, Kinds
<1>6. Recorded(e, {}) /\ SignalsOf(None, e)
  BY <1>3 DEF Recorded, SignalsOf
<1> QED
  BY <1>1, <1>2, <1>4, <1>5, <1>6

LEMMA InitKeeps == Init => IInv
<1> SUFFICES ASSUME Init
             PROVE  IInv
  OBVIOUS
<1>1. /\ gm = NoGm /\ callers = <<>> /\ gram_ids = <<>> /\ gram_texts = {}
      /\ gram_signals = None /\ pc = "idle" /\ at = 0 /\ target = None
  BY DEF Init
<1>2. /\ gm \in Managers /\ callers \in Seq(Managers) /\ Table(gram_ids)
      /\ Tabled(gm, callers, gram_ids) /\ Recorded(gram_ids, gram_texts)
      /\ SignalsOf(gram_signals, gram_ids)
  BY <1>1, NothingKept
<1>3. Phase
  BY <1>1 DEF Phase
<1> QED
  BY <1>2, <1>3, InvFrom

LEMMA EndingKeeps ==
  ASSUME IInv, Ending
  PROVE  IInv'
<1>1. /\ gm' = NoGm /\ callers' = <<>> /\ gram_ids' = <<>> /\ gram_texts' = {}
      /\ gram_signals' = None /\ pc' = "done" /\ at' \in Nat
      /\ target' \in Docs \cup {None}
  BY PhaseIs DEF Ending
<1>2. Phase'
  BY <1>1, Elsewhere
<1>3. /\ gm' \in Managers /\ callers' \in Seq(Managers) /\ Table(gram_ids')
      /\ Tabled(gm', callers', gram_ids') /\ Recorded(gram_ids', gram_texts')
      /\ SignalsOf(gram_signals', gram_ids')
  BY <1>1, NothingKept
<1> QED
  BY <1>2, <1>3, InvFromPrime

-----------------------------------------------------------------------------
(* A document is released.                                                  *)

LEMMA PageShrinks ==
  ASSUME NEW c \in Managers, c.grammars # <<>>, NEW d,
         d = [c EXCEPT !.grammars = Front(c.grammars)],
         NEW w \in Seq(Managers), NEW ids, NEW e,
         Table(ids), Table(e), Tabled(c, w, ids),
         Moved(ids, e, Last(c.grammars).gram, None)
  PROVE  d \in Managers /\ Tabled(d, w, e)
<1>1. PICK s : s = Front(c.grammars)
  OBVIOUS
<1>2. PICK n : n = Len(c.grammars)
  OBVIOUS
<1>3. /\ s \in Seq(PageInfos) /\ n \in DOMAIN c.grammars
      /\ Last(c.grammars) = c.grammars[n]
      /\ n \notin DOMAIN s /\ SameAt(c.grammars, s, n)
  BY <1>1, <1>2, ManagerIs, FrontAt
<1>4. /\ d \in Managers /\ d.grammars = s /\ d.universals = c.universals
  BY <1>1, <1>3 DEF Managers
<1>5. GramAt(c, "page", n) = Last(c.grammars).gram /\ GramAt(d, "page", n) = None
  BY <1>3, <1>4 DEF GramAt, Row
<1>6. Moved(ids, e, GramAt(c, "page", n), GramAt(d, "page", n))
  BY <1>5
<1>7. n \notin DOMAIN d.grammars /\ SameAt(c.grammars, d.grammars, n)
  BY <1>3, <1>4
<1> QED
  BY <1>4, <1>6, <1>7, PageKeeps

LEMMA LinkShrinks ==
  ASSUME NEW c \in Managers, c.universals # <<>>, NEW d,
         d = [c EXCEPT !.universals = Front(c.universals)],
         NEW w \in Seq(Managers), NEW ids, NEW e,
         Table(ids), Table(e), Tabled(c, w, ids),
         Moved(ids, e, Last(c.universals).gram, None)
  PROVE  d \in Managers /\ Tabled(d, w, e)
<1>1. PICK s : s = Front(c.universals)
  OBVIOUS
<1>2. PICK n : n = Len(c.universals)
  OBVIOUS
<1>3. /\ s \in Seq(LinkInfos) /\ n \in DOMAIN c.universals
      /\ Last(c.universals) = c.universals[n]
      /\ n \notin DOMAIN s /\ SameAt(c.universals, s, n)
  BY <1>1, <1>2, ManagerIs, FrontAt
<1>4. /\ d \in Managers /\ d.universals = s /\ d.grammars = c.grammars
  BY <1>1, <1>3 DEF Managers
<1>5. GramAt(c, "link", n) = Last(c.universals).gram /\ GramAt(d, "link", n) = None
  BY <1>3, <1>4 DEF GramAt, Row
<1>6. Moved(ids, e, GramAt(c, "link", n), GramAt(d, "link", n))
  BY <1>5
<1>7. n \notin DOMAIN d.universals /\ SameAt(c.universals, d.universals, n)
  BY <1>3, <1>4
<1> QED
  BY <1>4, <1>6, <1>7, LinkKeeps

LEMMA PageIsKnown ==
  ASSUME NEW c \in Managers, NEW w, NEW ids, Tabled(c, w, ids),
         NEW i \in DOMAIN c.grammars
  PROVE  /\ Fits(c.grammars[i], ids) /\ MadeAs(c.grammars[i])
         /\ c.grammars[i] \in PageInfos
BY ManagerIs, AgreesIs DEF Tabled, Made, MadeAs

LEMMA LinkIsKnown ==
  ASSUME NEW c \in Managers, NEW w, NEW ids, Tabled(c, w, ids),
         NEW i \in DOMAIN c.universals
  PROVE  /\ Fits(c.universals[i], ids) /\ c.universals[i] \in LinkInfos
         /\ c.universals[i].gram \in DOMAIN ids
<1>1. Fits(c.universals[i], ids) /\ c.universals[i] \in LinkInfos
  BY ManagerIs, AgreesIs DEF Tabled
<1>2. c.universals[i].gram # None
  BY <1>1, GrammarsAssumption DEF LinkInfos
<1> QED
  BY <1>1, <1>2 DEF Fits

LEMMA ReleaseGrammarKeeps ==
  ASSUME IInv, ReleaseGrammar
  PROVE  IInv'
<1>1. /\ pc = "release" /\ gm.grammars # <<>> /\ callers' = callers
      /\ pc' = pc /\ at' = at /\ target' = target
      /\ gm' = [gm EXCEPT !.grammars = Front(gm.grammars)]
      /\ IF Last(gm.grammars).gram = None THEN UNCHANGED main
         ELSE HandleFreeGrammar(Last(gm.grammars).gram)
  BY DEF ReleaseGrammar, loop
<1>2. Phase'
  BY <1>1, Elsewhere, PhaseIs
<1>3. Last(gm.grammars).gram # None => Last(gm.grammars).gram \in DOMAIN gram_ids
  <2>1. PICK n : n = Len(gm.grammars)
    OBVIOUS
  <2>2. n \in DOMAIN gm.grammars /\ Last(gm.grammars) = gm.grammars[n]
    BY <1>1, <2>1, InvIs, ManagerIs, FrontAt
  <2>3. Fits(gm.grammars[n], gram_ids)
    BY <2>2, InvIs, PageIsKnown
  <2> QED
    BY <2>2, <2>3 DEF Fits
<1>4. /\ Table(gram_ids') /\ Recorded(gram_ids', gram_texts')
      /\ Moved(gram_ids, gram_ids', Last(gm.grammars).gram, None)
  <2>1. CASE Last(gm.grammars).gram = None
    <3>1. gram_ids' = gram_ids /\ gram_texts' = gram_texts
      BY <1>1, <2>1 DEF main
    <3>2. Moved(gram_ids, gram_ids, None, None)
      BY Leaves
    <3> QED
      BY <2>1, <3>1, <3>2, InvIs
  <2>2. CASE Last(gm.grammars).gram # None
    BY <1>1, <1>3, <2>2, InvIs, HandleFreeGrammarDoes
  <2> QED
    BY <2>1, <2>2
<1>5. gm' \in Managers /\ Tabled(gm', callers, gram_ids')
  BY <1>1, <1>4, InvIs, PageShrinks
<1> QED
  BY <1>1, <1>2, <1>4, <1>5, InvIs, InvFromPrime

LEMMA ReleaseUniversalKeeps ==
  ASSUME IInv, ReleaseUniversal
  PROVE  IInv'
<1>1. /\ pc = "release" /\ gm.universals # <<>> /\ callers' = callers
      /\ pc' = pc /\ at' = at /\ target' = target
      /\ gm' = [gm EXCEPT !.universals = Front(gm.universals)]
      /\ HandleFreeGrammar(Last(gm.universals).gram)
  BY DEF ReleaseUniversal, loop
<1>2. Phase'
  BY <1>1, Elsewhere, PhaseIs
<1>3. Last(gm.universals).gram \in DOMAIN gram_ids
  <2>1. PICK n : n = Len(gm.universals)
    OBVIOUS
  <2>2. n \in DOMAIN gm.universals /\ Last(gm.universals) = gm.universals[n]
    BY <1>1, <2>1, InvIs, ManagerIs, FrontAt
  <2> QED
    BY <2>2, InvIs, LinkIsKnown
<1>4. /\ Table(gram_ids') /\ Recorded(gram_ids', gram_texts')
      /\ Moved(gram_ids, gram_ids', Last(gm.universals).gram, None)
  BY <1>1, <1>3, InvIs, HandleFreeGrammarDoes
<1>5. gm' \in Managers /\ Tabled(gm', callers, gram_ids')
  BY <1>1, <1>4, InvIs, LinkShrinks
<1> QED
  BY <1>1, <1>2, <1>4, <1>5, InvIs, InvFromPrime

-----------------------------------------------------------------------------
(* Contexts are pushed and popped.                                          *)

LEMMA TabledSame ==
  ASSUME NEW c, NEW d, NEW w, NEW ids, Tabled(c, w, ids),
         d.grammars = c.grammars, d.universals = c.universals
  PROVE  Tabled(d, w, ids)
<1>1. \A k \in Kinds : Row(d, k) = Row(c, k)
  BY DEF Row
<1>2. \A id : Names(d, id) <=> Names(c, id)
  BY <1>1 DEF Names
<1>3. Once(d) /\ Agrees(d, ids) /\ Made(d)
  BY <1>1 DEF Tabled, Owned, Once, Agrees, Made
<1>4. Owned(d, w, ids)
  BY <1>2, <1>3 DEF Tabled, Owned
<1> QED
  BY <1>3, <1>4 DEF Tabled

\* A manager that holds nothing.
LEMMA EmptyIs ==
  ASSUME NEW c, c.grammars = <<>>, c.universals = <<>>
  PROVE  /\ Quiet(c) /\ Made(c) /\ Once(c) /\ \A id : ~Names(c, id)
         /\ \A ids : Agrees(c, ids)
<1>1. \A k \in Kinds : DOMAIN Row(c, k) = {}
  BY DEF Row
<1>2. DOMAIN c.grammars = {}
  OBVIOUS
<1> QED
  BY <1>1, <1>2 DEF Quiet, Made, Once, Names, Agrees

\* w is the managers of t with h before them.
Headed(w, h, t) ==
  /\ \A m \in DOMAIN w : (w[m] = h /\ m = 1) \/ (m - 1 \in DOMAIN t /\ w[m] = t[m - 1])
  /\ \A n \in DOMAIN t : n + 1 \in DOMAIN w /\ w[n + 1] = t[n]
  /\ 1 \in DOMAIN w /\ w[1] = h
  /\ \A m \in DOMAIN w : m \in Nat \ {0}
  /\ \A n \in DOMAIN t : n \in Nat \ {0}

LEMMA PoppedIs ==
  ASSUME NEW S, NEW w \in Seq(S), w # <<>>
  PROVE  /\ Head(w) \in S /\ Tail(w) \in Seq(S) /\ Headed(w, Head(w), Tail(w))
<1>1. PICK h : h = Head(w)
  OBVIOUS
<1>2. PICK t : t = Tail(w)
  OBVIOUS
<1>3. /\ h \in S /\ t \in Seq(S) /\ Len(t) = Len(w) - 1 /\ h = w[1]
      /\ \A n \in 1..Len(t) : t[n] = w[n + 1]
  BY <1>1, <1>2, HeadTailProperties, EmptySeq
<1>4. DOMAIN w = 1..Len(w) /\ DOMAIN t = 1..Len(t) /\ Len(w) \in Nat /\ Len(w) # 0
  BY <1>3, EmptySeq
<1>5. Headed(w, h, t)
  <2>1. \A m \in DOMAIN w : (w[m] = h /\ m = 1) \/ (m - 1 \in DOMAIN t /\ w[m] = t[m - 1])
    <3>1. SUFFICES ASSUME NEW m \in DOMAIN w, m # 1
                   PROVE  m - 1 \in DOMAIN t /\ w[m] = t[m - 1]
      BY <1>3
    <3>2. m - 1 \in 1..Len(t) /\ (m - 1) + 1 = m
      BY <1>3, <1>4, <3>1
    <3>3. t[m - 1] = w[(m - 1) + 1]
      BY <1>3, <3>2
    <3> QED
      BY <1>4, <3>2, <3>3
  <2>2. \A n \in DOMAIN t : n + 1 \in DOMAIN w /\ w[n + 1] = t[n]
    BY <1>3, <1>4
  <2>3. 1 \in DOMAIN w /\ w[1] = h
    BY <1>3, <1>4
  <2>4. (\A m \in DOMAIN w : m \in Nat \ {0}) /\ \A n \in DOMAIN t : n \in Nat \ {0}
    BY <1>4
  <2> QED
    BY <2>1, <2>2, <2>3, <2>4 DEF Headed
<1> QED
  BY <1>1, <1>2, <1>3, <1>5

LEMMA PushedIs ==
  ASSUME NEW S, NEW h \in S, NEW t \in Seq(S)
  PROVE  <<h>> \o t \in Seq(S) /\ Headed(<<h>> \o t, h, t)
<1>1. PICK w : w = <<h>> \o t
  OBVIOUS
<1>2. PICK o : o = <<h>>
  OBVIOUS
<1>3. o \in Seq(S) /\ Len(o) = 1 /\ o[1] = h /\ w = o \o t
  BY <1>1, <1>2
<1>4. /\ w \in Seq(S) /\ Len(w) = 1 + Len(t)
      /\ \A m \in 1..1 + Len(t) : w[m] = IF m <= 1 THEN o[m] ELSE t[m - 1]
  BY <1>3, ConcatProperties
<1>5. DOMAIN w = 1..1 + Len(t) /\ DOMAIN t = 1..Len(t) /\ Len(t) \in Nat
  BY <1>4
<1>6. Headed(w, h, t)
  <2>1. \A m \in DOMAIN w : (w[m] = h /\ m = 1) \/ (m - 1 \in DOMAIN t /\ w[m] = t[m - 1])
    <3>1. SUFFICES ASSUME NEW m \in DOMAIN w
                   PROVE  (w[m] = h /\ m = 1) \/ (m - 1 \in DOMAIN t /\ w[m] = t[m - 1])
      OBVIOUS
    <3>2. m = 1 \/ (m - 1 \in 1..Len(t) /\ ~(m <= 1))
      BY <1>5
    <3>3. m \in 1..1 + Len(t) /\ w[m] = IF m <= 1 THEN o[m] ELSE t[m - 1]
      BY <1>4, <1>5
    <3>4. CASE m = 1
      BY <1>3, <1>5, <3>3, <3>4
    <3>5. CASE m # 1
      BY <1>5, <3>2, <3>3, <3>5
    <3> QED
      BY <3>4, <3>5
  <2>2. \A n \in DOMAIN t : n + 1 \in DOMAIN w /\ w[n + 1] = t[n]
    <3>1. SUFFICES ASSUME NEW n \in DOMAIN t
                   PROVE  n + 1 \in DOMAIN w /\ w[n + 1] = t[n]
      OBVIOUS
    <3>2. n + 1 \in 1..1 + Len(t) /\ ~(n + 1 <= 1) /\ (n + 1) - 1 = n
      BY <1>5
    <3>3. w[n + 1] = t[(n + 1) - 1]
      BY <1>4, <3>2
    <3> QED
      BY <1>5, <3>2, <3>3
  <2>3. 1 \in DOMAIN w /\ w[1] = h
    BY <1>3, <1>4, <1>5
  <2>4. (\A m \in DOMAIN w : m \in Nat \ {0}) /\ \A n \in DOMAIN t : n \in Nat \ {0}
    BY <1>5
  <2> QED
    BY <2>1, <2>2, <2>3, <2>4 DEF Headed
<1> QED
  BY <1>1, <1>4, <1>6

LEMMA PopKeeps ==
  ASSUME NEW c, NEW w, NEW h, NEW t, Headed(w, h, t), NEW ids, Tabled(c, w, ids),
         c.grammars = <<>>, c.universals = <<>>
  PROVE  Tabled(h, t, ids)
<1>1. \A id : ~Names(c, id)
  BY EmptyIs
<1>2. /\ \A m \in DOMAIN w : Once(w[m]) /\ Agrees(w[m], ids) /\ Made(w[m]) /\ Quiet(w[m])
      /\ \A id \in DOMAIN ids : \E m \in DOMAIN w : Names(w[m], id)
      /\ \A id \in Addresses : \A m, n \in DOMAIN w :
           Names(w[m], id) /\ Names(w[n], id) => n = m
  BY <1>1 DEF Tabled, Owned
<1>3. /\ Once(h) /\ Agrees(h, ids) /\ Made(h)
      /\ \A n \in DOMAIN t : Once(t[n]) /\ Agrees(t[n], ids) /\ Made(t[n]) /\ Quiet(t[n])
  BY <1>2 DEF Headed
<1>4. ASSUME NEW id \in DOMAIN ids
      PROVE  Names(h, id) \/ \E n \in DOMAIN t : Names(t[n], id)
  BY <1>2 DEF Headed
<1>5. ASSUME NEW id \in Addresses, NEW n \in DOMAIN t, Names(t[n], id)
      PROVE  ~Names(h, id) /\ \A q \in DOMAIN t : Names(t[q], id) => q = n
  <2>1. n + 1 \in DOMAIN w /\ w[n + 1] = t[n] /\ 1 \in DOMAIN w /\ w[1] = h /\ n \in Nat \ {0}
    BY DEF Headed
  <2>2. ~Names(h, id)
    BY <1>2, <1>5, <2>1
  <2>3. ASSUME NEW q \in DOMAIN t, Names(t[q], id)
        PROVE  q = n
    <3>1. q + 1 \in DOMAIN w /\ w[q + 1] = t[q] /\ q \in Nat
      BY DEF Headed
    <3>2. q + 1 = n + 1
      BY <1>2, <1>5, <2>1, <2>3, <3>1
    <3> QED
      BY <2>1, <3>1, <3>2
  <2> QED
    BY <2>2, <2>3
<1>6. Owned(h, t, ids)
  BY <1>3, <1>4, <1>5 DEF Owned
<1> QED
  BY <1>3, <1>6 DEF Tabled

LEMMA PushKeeps ==
  ASSUME NEW c, NEW w, NEW h, NEW t, Headed(w, h, t), NEW ids, Tabled(h, t, ids),
         Quiet(h), c.grammars = <<>>, c.universals = <<>>
  PROVE  Tabled(c, w, ids)
<1>1. /\ Made(c) /\ Once(c) /\ Agrees(c, ids) /\ \A id : ~Names(c, id)
  BY EmptyIs
<1>2. /\ Once(h) /\ Agrees(h, ids) /\ Made(h)
      /\ \A n \in DOMAIN t : Once(t[n]) /\ Agrees(t[n], ids) /\ Made(t[n]) /\ Quiet(t[n])
      /\ \A id \in DOMAIN ids : Names(h, id) \/ \E n \in DOMAIN t : Names(t[n], id)
      /\ \A id \in Addresses : \A n \in DOMAIN t : Names(t[n], id) =>
           ~Names(h, id) /\ \A q \in DOMAIN t : Names(t[q], id) => q = n
  BY DEF Tabled, Owned
<1>3. \A m \in DOMAIN w : Once(w[m]) /\ Agrees(w[m], ids) /\ Made(w[m]) /\ Quiet(w[m])
  BY <1>2 DEF Headed
<1>4. ASSUME NEW id \in DOMAIN ids
      PROVE  \E m \in DOMAIN w : Names(w[m], id)
  BY <1>2 DEF Headed
<1>5. ASSUME NEW id \in Addresses, NEW m \in DOMAIN w, Names(w[m], id),
             NEW n \in DOMAIN w, Names(w[n], id)
      PROVE  n = m
  <2>1. m \in Nat /\ n \in Nat
    BY DEF Headed
  <2>2. \/ w[m] = h /\ m = 1
        \/ m - 1 \in DOMAIN t /\ w[m] = t[m - 1]
    BY DEF Headed
  <2>3. \/ w[n] = h /\ n = 1
        \/ n - 1 \in DOMAIN t /\ w[n] = t[n - 1]
    BY DEF Headed
  <2>4. CASE w[m] = h /\ m = 1
    BY <1>2, <1>5, <2>3, <2>4
  <2>5. CASE m - 1 \in DOMAIN t /\ w[m] = t[m - 1]
    <3>1. ~Names(h, id) /\ \A q \in DOMAIN t : Names(t[q], id) => q = m - 1
      BY <1>2, <1>5, <2>5
    <3>2. n - 1 = m - 1
      BY <1>5, <2>3, <3>1
    <3> QED
      BY <2>1, <3>2
  <2> QED
    BY <2>2, <2>4, <2>5
<1>6. Owned(c, w, ids)
  BY <1>1, <1>3, <1>4, <1>5 DEF Owned
<1> QED
  BY <1>1, <1>3, <1>6 DEF Tabled

LEMMA ReleasedKeeps ==
  ASSUME IInv, Released
  PROVE  IInv'
<1>1. /\ pc = "release" /\ gm.grammars = <<>> /\ gm.universals = <<>>
      /\ at' = 0 /\ target' = target /\ gram_ids' = gram_ids
      /\ gram_texts' = gram_texts /\ gram_signals' = gram_signals
  BY DEF Released, main
<1>2. SignalsOf(gram_signals', gram_ids')
  <2>1. Quiet(gm)
    BY <1>1, EmptyIs
  <2>2. ActiveIn(gram_ids) = {}
    BY <2>1, InvIs, QuietActive
  <2> QED
    BY <1>1, <2>2 DEF SignalsOf
<1>3. CASE target # None /\ gm' = [gm EXCEPT !.doc = target] /\ pc' = "load"
           /\ callers' = callers
  <2>1. target \in Docs
    BY <1>3, PhaseIs
  <2>2. gm' \in Managers /\ gm'.grammars = <<>> /\ gm'.universals = <<>>
    BY <1>1, <1>3, <2>1, InvIs DEF Managers
  <2>3. PICK d : d = gm'
    OBVIOUS
  <2>4. Quiet(d)
    BY <2>2, <2>3, EmptyIs
  <2>5. Tabled(d, callers, gram_ids)
    BY <1>1, <2>2, <2>3, InvIs, TabledSame
  <2>6. Phase'
    BY <1>1, <1>3, <2>1, <2>3, <2>4 DEF Phase
  <2> QED
    BY <1>1, <1>2, <1>3, <2>2, <2>3, <2>5, <2>6, InvIs, InvFromPrime
<1>4. CASE target = None /\ callers # <<>> /\ gm' = Head(callers)
           /\ callers' = Tail(callers) /\ pc' = "idle"
  <2>1. /\ gm' \in Managers /\ callers' \in Seq(Managers)
        /\ Headed(callers, gm', callers')
    BY <1>4, InvIs, PoppedIs
  <2>2. PICK h, t : h = gm' /\ t = callers'
    OBVIOUS
  <2>3. Tabled(h, t, gram_ids)
    BY <1>1, <2>1, <2>2, InvIs, PopKeeps
  <2>4. Phase'
    BY <1>1, <1>4, Elsewhere
  <2> QED
    BY <1>1, <1>2, <2>1, <2>2, <2>3, <2>4, InvIs, InvFromPrime
<1>5. CASE target = None /\ gm' = NoGm /\ pc' = "done" /\ callers' = callers
  <2>1. gm' \in Managers /\ gm'.grammars = <<>> /\ gm'.universals = <<>>
    BY <1>5 DEF NoGm, Managers
  <2>2. PICK d : d = gm'
    OBVIOUS
  <2>3. Tabled(d, callers, gram_ids)
    BY <1>1, <2>1, <2>2, InvIs, TabledSame
  <2>4. Phase'
    BY <1>1, <1>5, Elsewhere
  <2> QED
    BY <1>1, <1>2, <1>5, <2>1, <2>2, <2>3, <2>4, InvIs, InvFromPrime
<1> QED
  BY <1>3, <1>4, <1>5 DEF Released

LEMMA SubdialogKeeps ==
  ASSUME IInv, Subdialog
  PROVE  IInv'
<1>1. /\ pc = "call" /\ at' = 0 /\ gram_ids' = gram_ids
      /\ gram_texts' = gram_texts /\ gram_signals' = gram_signals
  BY DEF Subdialog, main
<1>2. CASE pc' = "idle" /\ UNCHANGED <<gm, callers, target>>
  <2>1. Phase'
    BY <1>1, <1>2, Elsewhere, PhaseIs
  <2>2. UNCHANGED <<gm, callers, main>>
    BY <1>2 DEF Subdialog
  <2> QED
    BY <1>1, <2>1, <2>2, LoopKeeps
<1>3. CASE callers' = <<gm>> \o callers /\ gm' = NoGm /\ target' \in Docs
           /\ pc' = "release"
  <2>1. callers' \in Seq(Managers) /\ Headed(callers', gm, callers)
    BY <1>3, InvIs, PushedIs
  <2>2. gm' \in Managers /\ gm'.grammars = <<>> /\ gm'.universals = <<>>
    BY <1>3 DEF NoGm, Managers
  <2>3. PICK d, w : d = gm' /\ w = callers'
    OBVIOUS
  <2>4. Quiet(gm)
    BY <1>1, PhaseIs DEF Phase
  <2>5. Tabled(d, w, gram_ids)
    BY <2>1, <2>2, <2>3, <2>4, InvIs, PushKeeps
  <2>6. Phase'
    BY <1>1, <1>3, Elsewhere
  <2> QED
    BY <1>1, <1>3, <2>1, <2>2, <2>3, <2>5, <2>6, InvIs, InvFromPrime
<1> QED
  BY <1>2, <1>3 DEF Subdialog

-----------------------------------------------------------------------------
(* A document is loaded.                                                    *)

Sources == [of : Docs, grammar : OnPages] \cup [of : {None}, text : ToSet(Links)]

LEMMA OnPageIs ==
  ASSUME NEW g \in OnPages
  PROVE  Scope(g) \in Places /\ g.dynamic \in BOOLEAN /\ g.text \in AllTexts
<1>1. PICK d \in Docs : g \in ToSet(Page[d])
  BY DEF OnPages
<1>2. PICK i \in DOMAIN Page[d] : g = Page[d][i]
  BY <1>1 DEF ToSet
<1>3. /\ g.place \in Places /\ g.dynamic \in BOOLEAN
      /\ g.attribute \in {"none", "dialog", "document"}
  BY <1>2, GrammarsAssumption
<1>4. Scope(g) \in Places
  BY <1>3 DEF Scope, Places
<1> QED
  BY <1>3, <1>4 DEF AllTexts

LEMMA OfDocIs ==
  ASSUME NEW d \in Docs \cup {None}
  PROVE  OfDoc(d) \in Seq(Sources)
<1>1. CASE d = None
  BY <1>1 DEF OfDoc
<1>2. CASE d # None
  <2>1. d \in Docs
    BY <1>2
  <2>2. PICK p : p = Page[d]
    OBVIOUS
  <2>3. p \in Seq(ToSet(p)) /\ ToSet(p) \subseteq OnPages
    BY <2>1, <2>2, GrammarsAssumption DEF OnPages
  <2>4. DOMAIN p = 1..Len(p) /\ Len(p) \in Nat
    BY <2>3
  <2>5. OfDoc(d) = [i \in 1..Len(p) |-> [of |-> d, grammar |-> p[i]]]
    BY <1>2, <2>2, <2>4 DEF OfDoc
  <2>6. \A i \in 1..Len(p) : [of |-> d, grammar |-> p[i]] \in Sources
    BY <2>1, <2>3, <2>4 DEF Sources, ToSet
  <2> QED
    BY <2>4, <2>5, <2>6
<1> QED
  BY <1>1, <1>2

LEMMA ToLoadIs ==
  ASSUME NEW d \in Docs
  PROVE  ToLoad(d) \in Seq(Sources)
<1>1. OfDoc(d) \in Seq(Sources) /\ OfDoc(Root[d]) \in Seq(Sources)
  BY OfDocIs, GrammarsAssumption
<1>2. PICK u : u = [i \in DOMAIN Links |-> [of |-> None, text |-> Links[i]]]
  OBVIOUS
<1>3. u \in Seq(Sources)
  <2>1. DOMAIN Links = 1..Len(Links) /\ Len(Links) \in Nat
    BY GrammarsAssumption
  <2>2. \A i \in 1..Len(Links) : [of |-> None, text |-> Links[i]] \in Sources
    BY <2>1 DEF Sources, ToSet
  <2> QED
    BY <1>2, <2>1, <2>2
<1>4. ToLoad(d) = OfDoc(d) \o OfDoc(Root[d]) \o u
  BY <1>2 DEF ToLoad
<1> QED
  BY <1>1, <1>3, <1>4

LEMMA SourceIs ==
  ASSUME NEW new \in Sources
  PROVE  /\ new.of # None => new.of \in Docs /\ new.grammar \in OnPages
         /\ new.of = None => new.text \in ToSet(Links)
BY GrammarsAssumption DEF Sources

LEMMA GrammarInfoIs ==
  ASSUME NEW g \in OnPages, NEW d \in Docs, NEW id \in Addresses \cup {None}, NEW info,
         info = GrammarInfo(g, d, id)
  PROVE  /\ info \in PageInfos /\ info.text = g.text /\ info.gram = id
         /\ info.dynamic = g.dynamic /\ ~info.enabled
BY OnPageIs DEF GrammarInfo, PageInfos

LEMMA GrammarInfoUnivIs ==
  ASSUME NEW text \in ToSet(Links), NEW id \in Addresses, NEW info,
         info = GrammarInfoUniv(text, id)
  PROVE  /\ info \in LinkInfos /\ info.text = text /\ info.gram = id
         /\ ~info.enabled
BY DEF GrammarInfoUniv, LinkInfos

LEMMA PageGrows ==
  ASSUME NEW c \in Managers, NEW info \in PageInfos, NEW d,
         d = [c EXCEPT !.grammars = Append(c.grammars, info)],
         NEW w \in Seq(Managers), NEW ids, NEW e,
         Table(ids), Table(e), Tabled(c, w, ids), Quiet(c),
         Moved(ids, e, None, info.gram), Fits(info, e), MadeAs(info), ~info.enabled
  PROVE  d \in Managers /\ Tabled(d, w, e) /\ Quiet(d)
<1>1. PICK s : s = Append(c.grammars, info)
  OBVIOUS
<1>2. PICK n : n = Len(c.grammars) + 1
  OBVIOUS
<1>3. /\ s \in Seq(PageInfos) /\ n \notin DOMAIN c.grammars
      /\ n \in DOMAIN s /\ s[n] = info /\ SameAt(c.grammars, s, n)
  BY <1>1, <1>2, ManagerIs, AppendedAt
<1>4. /\ d \in Managers /\ d.grammars = s /\ d.universals = c.universals
  BY <1>1, <1>3 DEF Managers
<1>5. GramAt(c, "page", n) = None /\ GramAt(d, "page", n) = info.gram
  BY <1>3, <1>4 DEF GramAt, Row
<1>6. Moved(ids, e, GramAt(c, "page", n), GramAt(d, "page", n))
  BY <1>5
<1>7. /\ SameAt(c.grammars, d.grammars, n)
      /\ Fits(d.grammars[n], e) /\ MadeAs(d.grammars[n])
  BY <1>3, <1>4
<1>8. Tabled(d, w, e)
  BY <1>4, <1>6, <1>7, PageKeeps
<1>9. Quiet(d)
  BY <1>3, <1>4, QuietIs DEF SameAt
<1> QED
  BY <1>4, <1>8, <1>9

LEMMA LinkGrows ==
  ASSUME NEW c \in Managers, NEW info \in LinkInfos, NEW d,
         d = [c EXCEPT !.universals = Append(c.universals, info)],
         NEW w \in Seq(Managers), NEW ids, NEW e,
         Table(ids), Table(e), Tabled(c, w, ids), Quiet(c),
         Moved(ids, e, None, info.gram), Fits(info, e), ~info.enabled
  PROVE  d \in Managers /\ Tabled(d, w, e) /\ Quiet(d)
<1>1. PICK s : s = Append(c.universals, info)
  OBVIOUS
<1>2. PICK n : n = Len(c.universals) + 1
  OBVIOUS
<1>3. /\ s \in Seq(LinkInfos) /\ n \notin DOMAIN c.universals
      /\ n \in DOMAIN s /\ s[n] = info /\ SameAt(c.universals, s, n)
  BY <1>1, <1>2, ManagerIs, AppendedAt
<1>4. /\ d \in Managers /\ d.universals = s /\ d.grammars = c.grammars
  BY <1>1, <1>3 DEF Managers
<1>5. GramAt(c, "link", n) = None /\ GramAt(d, "link", n) = info.gram
  BY <1>3, <1>4 DEF GramAt, Row
<1>6. Moved(ids, e, GramAt(c, "link", n), GramAt(d, "link", n))
  BY <1>5
<1>7. SameAt(c.universals, d.universals, n) /\ Fits(d.universals[n], e)
  BY <1>3, <1>4
<1>8. Tabled(d, w, e)
  BY <1>4, <1>6, <1>7, LinkKeeps
<1>9. Quiet(d)
  BY <1>3, <1>4, QuietIs DEF SameAt
<1> QED
  BY <1>4, <1>8, <1>9

LEMMA FreshIs ==
  ASSUME NEW id \in FreshIds
  PROVE  id \in Addresses \ DOMAIN gram_ids /\ id # None
BY GrammarsAssumption DEF FreshIds, Fresh

LEMMA LoadGrammarKeeps ==
  ASSUME IInv, LoadGrammar
  PROVE  IInv'
<1>1. /\ pc = "load" /\ at < Len(ToLoad(target)) /\ at' = at + 1
      /\ callers' = callers /\ pc' = pc /\ item' = item /\ target' = target
  BY DEF LoadGrammar
<1>2. at \in Nat /\ target \in Docs /\ Quiet(gm)
  BY <1>1, PhaseIs DEF Phase
<1>3. PICK new : new = ToLoad(target)[at + 1]
  OBVIOUS
<1>4. new \in Sources
  <2>1. PICK s \in Seq(Sources) : s = ToLoad(target)
    BY <1>2, ToLoadIs
  <2>2. at + 1 \in 1..Len(s)
    BY <1>1, <1>2, <2>1
  <2> QED
    BY <1>3, <2>1, <2>2
<1>5. CASE /\ new.of # None /\ new.grammar.dynamic /\ UNCHANGED main
           /\ gm' = [gm EXCEPT !.grammars =
                       Append(gm.grammars, GrammarInfo(new.grammar, new.of, None))]
  <2>1. PICK info : info = GrammarInfo(new.grammar, new.of, None)
    OBVIOUS
  <2>2. /\ info \in PageInfos /\ info.gram = None /\ info.dynamic /\ ~info.enabled
    BY <1>4, <1>5, <2>1, SourceIs, GrammarInfoIs
  <2>3. gram_ids' = gram_ids /\ gram_texts' = gram_texts /\ gram_signals' = gram_signals
    BY <1>5 DEF main
  <2>4. Moved(gram_ids, gram_ids, None, info.gram)
    BY <2>2, Leaves
  <2>5. Fits(info, gram_ids) /\ MadeAs(info)
    BY <2>2 DEF Fits, MadeAs
  <2>6. gm' = [gm EXCEPT !.grammars = Append(gm.grammars, info)]
    BY <1>5, <2>1
  <2>7. PICK d : d = gm'
    OBVIOUS
  <2>8. d \in Managers /\ Tabled(d, callers, gram_ids) /\ Quiet(d)
    BY <1>2, <2>2, <2>4, <2>5, <2>6, <2>7, InvIs, PageGrows
  <2>9. Phase'
    BY <1>1, <1>2, <2>7, <2>8, PhaseIs DEF Phase
  <2> QED
    BY <1>1, <2>3, <2>7, <2>8, <2>9, InvIs, InvFromPrime
<1>6. ASSUME NEW id \in FreshIds, new.of # None, ~new.grammar.dynamic,
             HandleGrammar(id, new.grammar.text),
             gm' = [gm EXCEPT !.grammars =
                      Append(gm.grammars, GrammarInfo(new.grammar, new.of, id))]
      PROVE  IInv'
  <2>1. PICK info : info = GrammarInfo(new.grammar, new.of, id)
    OBVIOUS
  <2>2. /\ new.grammar \in OnPages /\ new.of \in Docs
        /\ id \in Addresses \ DOMAIN gram_ids /\ id # None
    BY <1>4, <1>6, SourceIs, FreshIs
  <2>3. /\ info \in PageInfos /\ info.gram = id /\ ~info.dynamic
        /\ ~info.enabled
        /\ info.text = new.grammar.text /\ info.text \in AllTexts
    BY <1>6, <2>1, <2>2, GrammarInfoIs, OnPageIs
  <2>4. HandleGrammar(id, info.text)
    BY <1>6, <2>3
  <2>5. /\ Table(gram_ids') /\ Moved(gram_ids, gram_ids', None, id)
        /\ id \in DOMAIN gram_ids' /\ gram_ids'[id].text = info.text
        /\ gram_ids'[id].active = FALSE
        /\ Recorded(gram_ids', gram_texts')
        /\ SignalsOf(gram_signals', gram_ids')
    BY <1>1, <2>2, <2>3, <2>4, InvIs, HandleGrammarDoes
  <2>6. Fits(info, gram_ids') /\ MadeAs(info)
    <3>1. info.enabled = FALSE
      BY <2>3, PageInfoIs
    <3>2. gram_ids'[id].active = info.enabled
      BY <2>5, <3>1
    <3> QED
      BY <2>2, <2>3, <2>5, <3>2 DEF Fits, MadeAs
  <2>7. gm' = [gm EXCEPT !.grammars = Append(gm.grammars, info)]
    BY <1>6, <2>1
  <2>8. PICK d, e : d = gm' /\ e = gram_ids'
    OBVIOUS
  <2>9. /\ Table(e) /\ Moved(gram_ids, e, None, info.gram) /\ Fits(info, e)
        /\ d = [gm EXCEPT !.grammars = Append(gm.grammars, info)]
    BY <2>3, <2>5, <2>6, <2>7, <2>8
  <2>10. d \in Managers /\ Tabled(d, callers, e) /\ Quiet(d)
    BY <1>2, <2>3, <2>6, <2>9, InvIs, PageGrows
  <2>11. Phase'
    BY <1>1, <1>2, <2>8, <2>10, PhaseIs DEF Phase
  <2> QED
    BY <1>1, <2>5, <2>8, <2>10, <2>11, InvIs, InvFromPrime
<1>7. ASSUME NEW id \in FreshIds, new.of = None, HandleGrammar(id, new.text),
             gm' = [gm EXCEPT !.universals =
                      Append(gm.universals, GrammarInfoUniv(new.text, id))]
      PROVE  IInv'
  <2>1. PICK info : info = GrammarInfoUniv(new.text, id)
    OBVIOUS
  <2>2. /\ new.text \in ToSet(Links) /\ new.text \in AllTexts
        /\ id \in Addresses \ DOMAIN gram_ids /\ id # None
    BY <1>4, <1>7, SourceIs, FreshIs DEF AllTexts
  <2>3. /\ info \in LinkInfos /\ info.gram = id /\ info.text = new.text
        /\ ~info.enabled
    BY <2>1, <2>2, GrammarInfoUnivIs
  <2>5. /\ Table(gram_ids') /\ Moved(gram_ids, gram_ids', None, id)
        /\ id \in DOMAIN gram_ids' /\ gram_ids'[id].text = info.text
        /\ gram_ids'[id].active = FALSE
        /\ Recorded(gram_ids', gram_texts')
        /\ SignalsOf(gram_signals', gram_ids')
    BY <1>1, <1>7, <2>2, <2>3, InvIs, HandleGrammarDoes
  <2>6. Fits(info, gram_ids')
    <3>1. info.enabled = FALSE
      BY <2>3 DEF LinkInfos
    <3>2. gram_ids'[id].active = info.enabled
      BY <2>5, <3>1
    <3> QED
      BY <2>2, <2>3, <2>5, <3>2 DEF Fits
  <2>7. gm' = [gm EXCEPT !.universals = Append(gm.universals, info)]
    BY <1>7, <2>1
  <2>8. PICK d, e : d = gm' /\ e = gram_ids'
    OBVIOUS
  <2>9. /\ Table(e) /\ Moved(gram_ids, e, None, info.gram) /\ Fits(info, e)
        /\ d = [gm EXCEPT !.universals = Append(gm.universals, info)]
    BY <2>3, <2>5, <2>6, <2>7, <2>8
  <2>10. d \in Managers /\ Tabled(d, callers, e) /\ Quiet(d)
    BY <1>2, <2>3, <2>9, InvIs, LinkGrows
  <2>11. Phase'
    BY <1>1, <1>2, <2>8, <2>10, PhaseIs DEF Phase
  <2> QED
    BY <1>1, <2>5, <2>8, <2>10, <2>11, InvIs, InvFromPrime
<1> QED
  BY <1>3, <1>5, <1>6, <1>7 DEF LoadGrammar

-----------------------------------------------------------------------------
(* Grammars are disabled and enabled.                                       *)

\* Indices of a list are positive numbers.
LEMMA IndexIs ==
  ASSUME NEW c \in Managers
  PROVE  /\ Len(c.grammars) \in Nat
         /\ \A n : n \in DOMAIN c.grammars
                     <=> n \in Nat /\ n # 0 /\ n <= Len(c.grammars)
<1>1. PICK s \in Seq(PageInfos) : s = c.grammars
  BY ManagerIs
<1>2. DOMAIN s = 1..Len(s) /\ Len(s) \in Nat
  OBVIOUS
<1> QED
  BY <1>1, <1>2

\* One more grammar of the page is disabled.
LEMMA DisabledBelow ==
  ASSUME NEW c \in Managers, NEW d, NEW n \in Nat, NEW new,
         PageBecomes(c, d, n, new), ~new.enabled,
         \A i \in DOMAIN c.grammars : i < n => ~c.grammars[i].enabled
  PROVE  \A i \in DOMAIN d.grammars : i < n + 1 => ~d.grammars[i].enabled
<1> SUFFICES ASSUME NEW i \in DOMAIN d.grammars, i < n + 1
             PROVE  ~d.grammars[i].enabled
  OBVIOUS
<1>1. i \in DOMAIN c.grammars /\ i \in Nat
  BY IndexIs DEF PageBecomes
<1>2. CASE i = n
  BY <1>2 DEF PageBecomes
<1>3. CASE i # n
  <2>1. i < n
    BY <1>1, <1>3
  <2>2. d.grammars[i] = c.grammars[i]
    BY <1>1, <1>3 DEF PageBecomes, SameAt
  <2> QED
    BY <1>1, <2>1, <2>2
<1> QED
  BY <1>2, <1>3

LEMMA DisabledIs ==
  ASSUME NEW info \in PageInfos
  PROVE  /\ Disabled(info) \in PageInfos /\ ~Disabled(info).enabled
         /\ Disabled(info).dynamic = info.dynamic /\ Disabled(info).text = info.text
         /\ Disabled(info).gram = IF info.dynamic THEN None ELSE info.gram
<1>1. PICK b \in BOOLEAN : b = FALSE
  OBVIOUS
<1>2. PICK gram : gram = IF info.dynamic THEN None ELSE info.gram
  OBVIOUS
<1>3. gram \in Addresses \cup {None}
  BY <1>2, PageInfoIs
<1>4. PICK new : new = Disabled(info)
  OBVIOUS
<1>5. new = [info EXCEPT !.enabled = b, !.gram = gram]
  BY <1>1, <1>2, <1>4 DEF Disabled
<1>6. new \in PageInfos /\ SameOf(info, new) /\ new.enabled = b /\ new.gram = gram
  BY <1>3, <1>5 DEF PageInfos, SameOf
<1>7. new.dynamic = info.dynamic /\ new.text = info.text /\ ~new.enabled
  BY <1>1, <1>6 DEF SameOf
<1> QED
  BY <1>2, <1>4, <1>6, <1>7

LEMMA DisableGrammarKeeps ==
  ASSUME IInv, DisableGrammar
  PROVE  IInv'
<1>1. PICK info : info = gm.grammars[at]
  OBVIOUS
<1>2. /\ pc = "disable" /\ at <= Len(gm.grammars) /\ at' = at + 1
      /\ callers' = callers /\ pc' = pc /\ item' = item /\ target' = target
      /\ IF ~info.enabled THEN UNCHANGED <<gm, main>>
         ELSE /\ gm' = [gm EXCEPT !.grammars[at] = Disabled(info)]
              /\ IF info.dynamic THEN HandleDeactivateAndFree(info.gram)
                 ELSE HandleGrammarStatus(info.gram, FALSE)
  BY <1>1 DEF DisableGrammar
<1>3. /\ at \in Nat /\ at # 0 /\ target \in Docs \cup {None}
      /\ \A i \in DOMAIN gm.grammars : i < at => ~gm.grammars[i].enabled
  BY <1>2, PhaseIs DEF Phase
<1>4. at \in DOMAIN gm.grammars
  BY <1>2, <1>3, InvIs, IndexIs
<1>5. Fits(info, gram_ids) /\ MadeAs(info) /\ info \in PageInfos
  BY <1>1, <1>4, InvIs, PageIsKnown
<1>6. CASE ~info.enabled
  <2>1. gm' = gm /\ UNCHANGED <<gm, callers, main>>
    BY <1>2, <1>6
  <2>2. \A i \in DOMAIN gm.grammars : i < at + 1 => ~gm.grammars[i].enabled
    <3>1. \A i \in DOMAIN gm.grammars : i \in Nat
      BY InvIs, IndexIs
    <3>2. \A i \in DOMAIN gm.grammars : i < at + 1 => i < at \/ i = at
      BY <1>3, <3>1
    <3> QED
      BY <1>1, <1>3, <1>6, <3>2
  <2>3. Phase'
    BY <1>2, <1>3, <2>1, <2>2 DEF Phase
  <2> QED
    BY <1>2, <2>1, <2>3, LoopKeeps
<1>7. CASE info.enabled
  <2>1. PICK new : new = Disabled(info)
    OBVIOUS
  <2>2. /\ new \in PageInfos /\ ~new.enabled
        /\ new.dynamic = info.dynamic /\ new.text = info.text
        /\ new.gram = IF info.dynamic THEN None ELSE info.gram
    BY <1>5, <2>1, DisabledIs
  <2>3. gm' = [gm EXCEPT !.grammars = [gm.grammars EXCEPT ![at] = new]]
    BY <1>2, <1>7, <2>1
  <2>4. PICK d : d = gm'
    OBVIOUS
  <2>5. PageBecomes(gm, d, at, new)
    BY <1>4, <2>2, <2>3, <2>4, InvIs, PageBecomesIs
  <2>6. info.gram # None /\ info.gram \in DOMAIN gram_ids
    BY <1>5, <1>7 DEF Fits
  <2>7. /\ Table(gram_ids') /\ Recorded(gram_ids', gram_texts')
        /\ Moved(gram_ids, gram_ids', info.gram, new.gram)
        /\ SignalsOf(gram_signals', gram_ids') /\ Fits(new, gram_ids')
    <3>1. CASE info.dynamic
      <4>1. HandleFreeGrammar(info.gram) /\ gram_signals' = None /\ new.gram = None
        BY <1>2, <1>7, <2>2, <3>1 DEF HandleDeactivateAndFree, ForgetSignals
      <4>2. /\ Table(gram_ids') /\ Recorded(gram_ids', gram_texts')
            /\ Moved(gram_ids, gram_ids', info.gram, None)
        BY <2>6, <4>1, InvIs, HandleFreeGrammarDoes
      <4> QED
        BY <2>2, <4>1, <4>2 DEF SignalsOf, Fits
    <3>2. CASE ~info.dynamic
      <4>1. PICK b \in BOOLEAN : b = FALSE
        OBVIOUS
      <4>2. HandleGrammarStatus(info.gram, b) /\ new.gram = info.gram
        BY <1>2, <1>7, <2>2, <3>2, <4>1
      <4>3. /\ Table(gram_ids') /\ Moved(gram_ids, gram_ids', info.gram, info.gram)
            /\ info.gram \in DOMAIN gram_ids'
            /\ gram_ids'[info.gram].text = gram_ids[info.gram].text
            /\ gram_ids'[info.gram].active = b
            /\ Recorded(gram_ids', gram_texts') /\ SignalsOf(gram_signals', gram_ids')
        BY <2>6, <4>2, InvIs, HandleGrammarStatusDoes
      <4>4. new.enabled = b
        BY <2>2, <4>1, PageInfoIs
      <4>5. gram_ids[info.gram].text = info.text
        BY <1>5, <2>6 DEF Fits
      <4>6. Fits(new, gram_ids')
        BY <2>2, <2>6, <4>2, <4>3, <4>4, <4>5 DEF Fits
      <4> QED
        BY <4>2, <4>3, <4>6
    <3> QED
      BY <3>1, <3>2
  <2>8. MadeAs(new)
    BY <1>5, <2>2, <2>6, PageInfoIs DEF MadeAs
  <2>9. PICK e : e = gram_ids'
    OBVIOUS
  <2>10. Table(e) /\ Moved(gram_ids, e, gm.grammars[at].gram, new.gram) /\ Fits(new, e)
    BY <1>1, <2>7, <2>9
  <2>11. Tabled(d, callers, e) /\ d \in Managers
    BY <2>2, <2>5, <2>8, <2>10, InvIs, PageBecomesKeeps DEF PageBecomes
  <2>12. \A i \in DOMAIN d.grammars : i < at + 1 => ~d.grammars[i].enabled
    BY <1>3, <2>2, <2>5, InvIs, DisabledBelow
  <2>13. Phase'
    BY <1>2, <1>3, <2>4, <2>12 DEF Phase
  <2> QED
    BY <1>2, <2>4, <2>7, <2>9, <2>11, <2>13, InvIs, InvFromPrime
<1> QED
  BY <1>6, <1>7

\* A link is enabled or disabled, and main with it.
LEMMA LinkToggles ==
  ASSUME IInv, NEW i \in DOMAIN gm.universals, NEW b \in BOOLEAN,
         gm' = [gm EXCEPT !.universals[i].enabled = b],
         HandleGrammarStatus(gm.universals[i].gram, b)
  PROVE  /\ Table(gram_ids') /\ Recorded(gram_ids', gram_texts')
         /\ SignalsOf(gram_signals', gram_ids')
         /\ gm' \in Managers /\ Tabled(gm', callers, gram_ids')
         /\ gm'.doc = gm.doc /\ gm'.grammars = gm.grammars
<1>1. PICK d : d = gm'
  OBVIOUS
<1>2. PICK info : info = gm.universals[i]
  OBVIOUS
<1>3. PICK new : new = [info EXCEPT !.enabled = b]
  OBVIOUS
<1>4. /\ new \in LinkInfos /\ new.text = info.text
      /\ new.gram = info.gram /\ new.enabled = b
  BY <1>2, <1>3, InvIs, ManagerIs DEF LinkInfos
<1>5. LinkBecomes(gm, d, i, new)
  <2>1. d = [gm EXCEPT !.universals = [gm.universals EXCEPT ![i] = new]]
    BY <1>1, <1>2, <1>3
  <2> QED
    BY <1>4, <2>1, InvIs, LinkBecomesIs
<1>6. Fits(info, gram_ids) /\ info.gram \in DOMAIN gram_ids
  BY <1>2, InvIs, LinkIsKnown
<1>7. /\ Table(gram_ids') /\ Moved(gram_ids, gram_ids', info.gram, info.gram)
      /\ info.gram \in DOMAIN gram_ids'
      /\ gram_ids'[info.gram].text = gram_ids[info.gram].text
      /\ gram_ids'[info.gram].active = b
      /\ Recorded(gram_ids', gram_texts') /\ SignalsOf(gram_signals', gram_ids')
  BY <1>2, <1>6, InvIs, HandleGrammarStatusDoes
<1>8. info.gram # None
  BY <1>6, InvIs, GrammarsAssumption DEF Table
<1>9. gram_ids[info.gram].text = info.text
  BY <1>6, <1>8 DEF Fits
<1>10. PICK e : e = gram_ids'
  OBVIOUS
<1>11. Fits(new, e)
  BY <1>4, <1>7, <1>8, <1>9, <1>10 DEF Fits
<1>12. Table(e) /\ Moved(gram_ids, e, gm.universals[i].gram, new.gram)
  BY <1>2, <1>4, <1>7, <1>10
<1>13. Tabled(d, callers, e)
  BY <1>4, <1>5, <1>11, <1>12, InvIs, LinkBecomesKeeps
<1>14. d \in Managers /\ d.doc = gm.doc /\ d.grammars = gm.grammars
  BY <1>5 DEF LinkBecomes
<1> QED
  BY <1>1, <1>7, <1>10, <1>13, <1>14

LEMMA DisableUniversalsKeeps ==
  ASSUME IInv, DisableUniversals
  PROVE  IInv'
<1>1. /\ pc = "disable" /\ at > Len(gm.grammars)
      /\ callers' = callers /\ item' = item /\ target' = target
  BY DEF DisableUniversals
<1>2. /\ at \in Nat /\ at # 0 /\ target \in Docs \cup {None}
      /\ \A i \in DOMAIN gm.grammars : i < at => ~gm.grammars[i].enabled
  BY <1>1, PhaseIs DEF Phase
<1>3. /\ Len(gm.grammars) \in Nat
      /\ \A i \in DOMAIN gm.grammars : i \in Nat /\ i <= Len(gm.grammars)
  BY InvIs, IndexIs
<1>4. ASSUME NEW i \in DOMAIN gm.universals, StillEnabled(gm.universals[i]),
             gm' = [gm EXCEPT !.universals[i].enabled = FALSE],
             HandleGrammarStatus(gm.universals[i].gram, FALSE),
             UNCHANGED <<pc, at>>
      PROVE  IInv'
  <2>1. PICK b \in BOOLEAN : b = FALSE
    OBVIOUS
  <2>2. /\ gm' = [gm EXCEPT !.universals[i].enabled = b]
        /\ HandleGrammarStatus(gm.universals[i].gram, b)
    BY <1>4, <2>1
  <2>3. /\ Table(gram_ids') /\ Recorded(gram_ids', gram_texts')
        /\ SignalsOf(gram_signals', gram_ids')
        /\ gm' \in Managers /\ Tabled(gm', callers, gram_ids')
        /\ gm'.grammars = gm.grammars
    BY <2>2, LinkToggles
  <2>4. Phase'
    BY <1>1, <1>2, <1>4, <2>3 DEF Phase
  <2> QED
    BY <1>1, <2>3, <2>4, InvIs, InvFromPrime
<1>5. ASSUME \A i \in DOMAIN gm.universals : ~StillEnabled(gm.universals[i]),
             pc' = IF item.kind \in {"field", "record", "transfer"} THEN "enable"
                   ELSE IF item.kind = "subdialog" THEN "call" ELSE "idle",
             at' = Len(gm.grammars), UNCHANGED <<gm, main>>
      PROVE  IInv'
  <2>1. \A i \in DOMAIN gm.universals : ~gm.universals[i].enabled
    BY <1>5 DEF StillEnabled
  <2>2. \A i \in DOMAIN gm.grammars : ~gm.grammars[i].enabled
    BY <1>1, <1>2, <1>3
  <2>3. Quiet(gm) /\ LinksEnabled(gm, item)
    BY <2>1, <2>2, QuietIs DEF LinksEnabled
  <2>4. EnabledFrom(gm, item, Len(gm.grammars))
    BY <1>3, <2>2 DEF EnabledFrom
  <2>5. gm' = gm /\ pc' \in {"enable", "call", "idle"}
    BY <1>5
  <2>6. Phase'
    BY <1>1, <1>2, <1>3, <1>5, <2>3, <2>4, <2>5 DEF Phase
  <2> QED
    BY <1>1, <1>5, <2>5, <2>6, LoopKeeps
<1> QED
  BY <1>4, <1>5 DEF DisableUniversals

LEMMA EnableUniversalKeeps ==
  ASSUME IInv, EnableUniversal
  PROVE  IInv'
<1>1. /\ pc = "enable" /\ at = 0 /\ item.universals
      /\ callers' = callers /\ pc' = pc /\ at' = at /\ item' = item
      /\ target' = target
  BY DEF EnableUniversal, loop
<1>2. PICK i \in DOMAIN gm.universals :
        /\ gm' = [gm EXCEPT !.universals[i].enabled = TRUE]
        /\ HandleGrammarStatus(gm.universals[i].gram, TRUE)
  BY DEF EnableUniversal
<1>3. PICK b \in BOOLEAN : b = TRUE
  OBVIOUS
<1>4. /\ gm' = [gm EXCEPT !.universals[i].enabled = b]
      /\ HandleGrammarStatus(gm.universals[i].gram, b)
  BY <1>2, <1>3
<1>5. /\ Table(gram_ids') /\ Recorded(gram_ids', gram_texts')
      /\ SignalsOf(gram_signals', gram_ids')
      /\ gm' \in Managers /\ Tabled(gm', callers, gram_ids')
      /\ gm'.doc = gm.doc /\ gm'.grammars = gm.grammars
  BY <1>4, LinkToggles
<1>6. /\ at \in Nat /\ target \in Docs \cup {None}
      /\ at <= Len(gm.grammars) /\ EnabledFrom(gm, item, at)
  BY <1>1, PhaseIs DEF Phase
<1>7. EnabledFrom(gm', item, at) /\ LinksEnabled(gm', item)
  BY <1>1, <1>5, <1>6 DEF EnabledFrom, LinksEnabled
<1>8. Phase'
  BY <1>1, <1>5, <1>6, <1>7 DEF Phase
<1> QED
  BY <1>1, <1>5, <1>8, InvIs, InvFromPrime

\* One more grammar of the page is as the item asks for it.
LEMMA EnabledBelow ==
  ASSUME NEW c \in Managers, NEW d, NEW it, NEW n \in DOMAIN c.grammars, NEW new,
         PageBecomes(c, d, n, new), EnabledFrom(c, it, n),
         new.enabled, Asks(c.doc, it, new)
  PROVE  EnabledFrom(d, it, n - 1)
<1> SUFFICES ASSUME NEW i \in DOMAIN d.grammars
             PROVE  IF i <= n - 1 THEN ~d.grammars[i].enabled
                    ELSE d.grammars[i].enabled <=> Asks(d.doc, it, d.grammars[i])
  BY DEF EnabledFrom
<1>1. i \in DOMAIN c.grammars /\ i \in Nat /\ n \in Nat
  BY IndexIs DEF PageBecomes
<1>2. CASE i = n
  BY <1>1, <1>2 DEF PageBecomes
<1>3. CASE i # n
  <2>1. i <= n - 1 <=> i <= n
    BY <1>1, <1>3
  <2>2. d.grammars[i] = c.grammars[i] /\ d.doc = c.doc
    BY <1>1, <1>3 DEF PageBecomes, SameAt
  <2> QED
    BY <1>1, <2>1, <2>2 DEF EnabledFrom
<1> QED
  BY <1>2, <1>3

LEMMA EnableGrammarKeeps ==
  ASSUME IInv, EnableGrammar
  PROVE  IInv'
<1>1. PICK info : info = gm.grammars[at]
  OBVIOUS
<1>2. /\ pc = "enable" /\ at > 0 /\ at' = at - 1
      /\ callers' = callers /\ pc' = pc /\ item' = item /\ target' = target
  BY DEF EnableGrammar
<1>3. /\ at \in Nat /\ at <= Len(gm.grammars) /\ target \in Docs \cup {None}
      /\ EnabledFrom(gm, item, at) /\ LinksEnabled(gm, item)
  BY <1>2, PhaseIs DEF Phase
<1>4. at \in DOMAIN gm.grammars /\ at - 1 \in Nat /\ at - 1 <= Len(gm.grammars)
  BY <1>2, <1>3, InvIs, IndexIs
<1>5. /\ Fits(info, gram_ids) /\ MadeAs(info) /\ info \in PageInfos
      /\ info.dynamic \in BOOLEAN
  BY <1>1, <1>4, InvIs, PageIsKnown, PageInfoIs
<1>6. ~info.enabled
  BY <1>1, <1>3, <1>4 DEF EnabledFrom
<1>7. CASE ~Enables(info) /\ UNCHANGED <<gm, main>>
  <2>1. ~Asks(gm.doc, item, info)
    BY <1>7, EnablesIs
  <2>2. EnabledFrom(gm, item, at - 1)
    <3> SUFFICES ASSUME NEW i \in DOMAIN gm.grammars
                 PROVE  IF i <= at - 1 THEN ~gm.grammars[i].enabled
                        ELSE gm.grammars[i].enabled
                               <=> Asks(gm.doc, item, gm.grammars[i])
      BY DEF EnabledFrom
    <3>1. i \in Nat
      BY InvIs, IndexIs
    <3>2. i = at \/ (i <= at - 1 <=> i <= at)
      BY <1>3, <3>1
    <3> QED
      BY <1>1, <1>3, <1>6, <2>1, <3>2 DEF EnabledFrom
  <2>3. gm' = gm /\ UNCHANGED <<gm, callers, main>>
    BY <1>2, <1>7
  <2>4. Phase'
    BY <1>2, <1>3, <1>4, <2>2, <2>3 DEF Phase
  <2> QED
    BY <1>2, <2>3, <2>4, LoopKeeps
<1>8. ASSUME Enables(info), NEW new \in PageInfos, SameOf(info, new), new.enabled,
             gm' = [gm EXCEPT !.grammars = [gm.grammars EXCEPT ![at] = new]],
             Table(gram_ids'), Moved(gram_ids, gram_ids', info.gram, new.gram),
             new.gram # None, Fits(new, gram_ids'),
             Recorded(gram_ids', gram_texts'), SignalsOf(gram_signals', gram_ids')
      PROVE  IInv'
  <2>1. PICK d, e : d = gm' /\ e = gram_ids'
    OBVIOUS
  <2>2. PageBecomes(gm, d, at, new)
    BY <1>4, <1>8, <2>1, InvIs, PageBecomesIs
  <2>3. /\ Table(e) /\ Moved(gram_ids, e, gm.grammars[at].gram, new.gram)
        /\ Fits(new, e)
    BY <1>1, <1>8, <2>1
  <2>4. MadeAs(new)
    BY <1>8 DEF MadeAs
  <2>5. Tabled(d, callers, e)
    BY <1>8, <2>2, <2>3, <2>4, InvIs, PageBecomesKeeps
  <2>6. Asks(gm.doc, item, new)
    BY <1>8, EnablesIs, AsksSame
  <2>7. EnabledFrom(d, item, at - 1)
    BY <1>3, <1>4, <1>8, <2>2, <2>6, InvIs, EnabledBelow
  <2>8. /\ d \in Managers /\ LinksEnabled(d, item) /\ at - 1 <= Len(d.grammars)
    BY <1>3, <1>4, <2>2 DEF PageBecomes, LinksEnabled
  <2>9. Phase'
    BY <1>2, <1>3, <1>4, <2>1, <2>7, <2>8 DEF Phase
  <2> QED
    BY <1>2, <1>8, <2>1, <2>5, <2>8, <2>9, InvIs, InvFromPrime
<1>9. PICK b \in BOOLEAN : b = TRUE
  OBVIOUS
<1>10. CASE /\ Enables(info) /\ ~info.dynamic
            /\ gm' = [gm EXCEPT !.grammars[at].enabled = TRUE]
            /\ HandleGrammarStatus(info.gram, TRUE)
  <2>1. info.gram # None /\ info.gram \in DOMAIN gram_ids
        /\ gram_ids[info.gram].text = info.text
    BY <1>5, <1>10 DEF MadeAs, Fits
  <2>2. PICK new : new = [info EXCEPT !.enabled = b]
    OBVIOUS
  <2>3. /\ new \in PageInfos /\ SameOf(info, new) /\ new.gram = info.gram
        /\ new.enabled = b /\ new.text = info.text
    BY <1>5, <2>2 DEF PageInfos, SameOf
  <2>4. gm' = [gm EXCEPT !.grammars = [gm.grammars EXCEPT ![at] = new]]
    BY <1>1, <1>9, <1>10, <2>2
  <2>5. HandleGrammarStatus(info.gram, b)
    BY <1>9, <1>10
  <2>6. /\ Table(gram_ids') /\ Moved(gram_ids, gram_ids', info.gram, info.gram)
        /\ info.gram \in DOMAIN gram_ids'
        /\ gram_ids'[info.gram].text = gram_ids[info.gram].text
        /\ gram_ids'[info.gram].active = b
        /\ Recorded(gram_ids', gram_texts') /\ SignalsOf(gram_signals', gram_ids')
    BY <2>1, <2>5, InvIs, HandleGrammarStatusDoes
  <2>7. Fits(new, gram_ids')
    BY <2>1, <2>3, <2>6 DEF Fits
  <2>8. new.enabled
    BY <1>9, <2>3
  <2>9. Moved(gram_ids, gram_ids', info.gram, new.gram) /\ new.gram # None
    BY <2>1, <2>3, <2>6
  <2> QED
    BY <1>8, <1>10, <2>3, <2>4, <2>6, <2>7, <2>8, <2>9
<1>11. ASSUME Enables(info), info.dynamic, NEW id \in FreshIds,
              gm' = [gm EXCEPT !.grammars[at].enabled = TRUE,
                               !.grammars[at].gram = id],
              HandleGrammarAndActivate(id, info.text)
       PROVE  IInv'
  <2>1. info.gram = None
    BY <1>5, <1>6, <1>11 DEF MadeAs
  <2>2. id \in Addresses \ DOMAIN gram_ids /\ id # None
    BY FreshIs
  <2>3. PICK new : new = [info EXCEPT !.enabled = b, !.gram = id]
    OBVIOUS
  <2>4. /\ new \in PageInfos /\ SameOf(info, new) /\ new.gram = id
        /\ new.enabled = b
    BY <1>5, <2>2, <2>3 DEF PageInfos, SameOf
  <2>5. gm' = [gm EXCEPT !.grammars = [gm.grammars EXCEPT ![at] = new]]
    BY <1>1, <1>4, <1>9, <1>11, <2>3, InvIs DEF Managers
  <2>6. info.text \in AllTexts
    BY <1>5, PageInfoIs
  <2>7. /\ Table(gram_ids') /\ Moved(gram_ids, gram_ids', None, id)
        /\ id \in DOMAIN gram_ids' /\ gram_ids'[id].text = info.text
        /\ gram_ids'[id].active = TRUE
        /\ Recorded(gram_ids', gram_texts') /\ SignalsOf(gram_signals', gram_ids')
    BY <1>11, <2>2, <2>6, InvIs, HandleGrammarAndActivateDoes
  <2>8. new.text = info.text
    BY <2>4 DEF SameOf
  <2>9. gram_ids'[id].active = b
    BY <1>9, <2>7
  <2>10. Fits(new, gram_ids')
    BY <2>2, <2>4, <2>7, <2>8, <2>9 DEF Fits
  <2>11. new.enabled
    BY <1>9, <2>4
  <2>12. Moved(gram_ids, gram_ids', info.gram, new.gram) /\ new.gram # None
    BY <2>1, <2>2, <2>4, <2>7
  <2> QED
    BY <1>8, <1>11, <2>4, <2>5, <2>7, <2>10, <2>11, <2>12
<1> QED
  BY <1>1, <1>7, <1>10, <1>11 DEF EnableGrammar

LEMMA StutterKeeps ==
  ASSUME IInv, UNCHANGED vars
  PROVE  IInv'
<1>1. /\ gm' = gm /\ callers' = callers /\ pc' = pc /\ at' = at /\ item' = item
      /\ target' = target /\ UNCHANGED <<gm, callers, main>>
  BY DEF vars, loop
<1>2. Phase'
  BY <1>1, PhaseIs DEF Phase
<1> QED
  BY <1>1, <1>2, LoopKeeps

LEMMA NextKeeps ==
  ASSUME IInv, [Next]_vars
  PROVE  IInv'
<1>1. CASE UNCHANGED vars
  BY <1>1, StutterKeeps
<1>2. CASE InstallDocument \/ PopExecutionContext
  BY <1>2, InstallDocumentKeeps, PopExecutionContextKeeps
<1>3. CASE ReleaseGrammar \/ ReleaseUniversal \/ Released
  BY <1>3, ReleaseGrammarKeeps, ReleaseUniversalKeeps, ReleasedKeeps
<1>4. CASE LoadGrammar \/ LoadFails \/ Loaded \/ Ending
  BY <1>4, LoadGrammarKeeps, LoadFailsKeeps, LoadedKeeps, EndingKeeps
<1>5. CASE Collect \/ DisableGrammar \/ DisableUniversals
  BY <1>5, CollectKeeps, DisableGrammarKeeps, DisableUniversalsKeeps
<1>6. CASE EnableGrammar \/ EnableFails \/ EnableUniversal \/ Enabled
  BY <1>6, EnableGrammarKeeps, EnableFailsKeeps, EnableUniversalKeeps, EnabledKeeps
<1>7. CASE Recognize \/ Subdialog \/ ActiveSignals
  BY <1>7, RecognizeKeeps, SubdialogKeeps, ActiveSignalsKeeps
<1> QED
  BY <1>1, <1>2, <1>3, <1>4, <1>5, <1>6, <1>7 DEF Next

-----------------------------------------------------------------------------
(* The theorems.                                                            *)

\* Through loading, enabling, disabling and releasing, the infos of the
\* contexts and the table of main tell the same of every grammar.
THEOREM Inductive == Spec => []IInv
<1>1. IInv /\ [Next]_vars => IInv'
  BY NextKeeps
<1> QED
  BY <1>1, InitKeeps, PTL DEF Spec

\* What is active is what the manager that runs has enabled.
LEMMA ActiveEnabled ==
  ASSUME NEW c \in Managers, NEW w, NEW ids, Tabled(c, w, ids), Table(ids), NEW id
  PROVE  id \in ActiveIn(ids)
           <=> \E k \in Kinds : \E i \in DOMAIN Row(c, k) :
                 Row(c, k)[i].gram = id /\ Row(c, k)[i].enabled
<1>1. ASSUME id \in ActiveIn(ids)
      PROVE  \E k \in Kinds : \E i \in DOMAIN Row(c, k) :
               Row(c, k)[i].gram = id /\ Row(c, k)[i].enabled
  <2>1. id \in DOMAIN ids /\ ids[id].active /\ id # None
    BY <1>1, GrammarsAssumption DEF ActiveIn, Table
  <2>2. ASSUME NEW m \in DOMAIN w
        PROVE  ~Names(w[m], id)
    <3>1. Agrees(w[m], ids) /\ Quiet(w[m])
      BY DEF Tabled
    <3> QED
      BY <2>1, <3>1 DEF Agrees, Quiet, Names, Fits
  <2>3. PICK k, i : k \in Kinds /\ i \in DOMAIN Row(c, k) /\ Row(c, k)[i].gram = id
    BY <2>1, <2>2 DEF Tabled, Owned, Names
  <2>4. Row(c, k)[i].enabled
    BY <2>1, <2>3 DEF Tabled, Agrees, Fits
  <2> QED
    BY <2>3, <2>4
<1>2. ASSUME NEW k \in Kinds, NEW i \in DOMAIN Row(c, k),
             Row(c, k)[i].gram = id, Row(c, k)[i].enabled
      PROVE  id \in ActiveIn(ids)
  <2>1. Fits(Row(c, k)[i], ids)
    BY DEF Tabled, Agrees
  <2> QED
    BY <1>2, <2>1 DEF Fits, ActiveIn
<1> QED
  BY <1>1, <1>2

LEMMA ActiveOf ==
  ASSUME IInv, NEW id
  PROVE  id \in Active
           <=> \/ \E i \in DOMAIN gm.grammars :
                    gm.grammars[i].gram = id /\ gm.grammars[i].enabled
               \/ \E i \in DOMAIN gm.universals :
                    gm.universals[i].gram = id /\ gm.universals[i].enabled
<1>1. id \in ActiveIn(gram_ids)
        <=> \E k \in Kinds : \E i \in DOMAIN Row(gm, k) :
              Row(gm, k)[i].gram = id /\ Row(gm, k)[i].enabled
  BY InvIs, ActiveEnabled
<1> QED
  BY <1>1, ActiveIs DEF Row, Kinds

\* A recognition listens to the grammars of its item, of its form, of the
\* document and of the root, as EnableGrammars chooses them, and to no other,
\* in the table that voiceglue keeps for the call.
THEOREM ListensOnly == Spec => []ListensForItem
<1>1. IInv => ListensForItem
  <2> SUFFICES ASSUME IInv, pc = "listen"
               PROVE  ListensForItem
    BY DEF ListensForItem
  <2> DEFINE mine == {info \in ToSet(gm.grammars) :
                        info.doc = gm.doc /\ info.dialog = item.dialog
                          /\ \/ item.field # "" /\ info.field = item.field
                             \/ ~item.modal /\ info.scope = "dialog"}
             wide == {info \in ToSet(gm.grammars) :
                        info.scope = "document" /\ ~item.modal}
             always == IF item.universals THEN ToSet(gm.universals) ELSE {}
  <2>1. /\ EnabledFrom(gm, item, 0) /\ LinksEnabled(gm, item)
        /\ \A i \in DOMAIN gm.universals :
             item.universals => gm.universals[i].enabled
    BY PhaseIs DEF Phase
  <2>2. \A i \in DOMAIN gm.grammars : ~(i <= 0)
    <3>1. \A i \in DOMAIN gm.grammars : i \in Nat /\ i # 0
      BY InvIs, IndexIs
    <3> QED
      BY <3>1
  <2>3. \A i \in DOMAIN gm.grammars :
          gm.grammars[i].enabled <=> Asks(gm.doc, item, gm.grammars[i])
    BY <2>1, <2>2 DEF EnabledFrom
  <2>4. \A i \in DOMAIN gm.grammars :
          gm.grammars[i].enabled <=> gm.grammars[i] \in mine \cup wide
    BY <2>3 DEF Asks, ToSet
  <2>5. \A i \in DOMAIN gm.universals :
          gm.universals[i].enabled <=> gm.universals[i] \in always
    BY <2>1 DEF LinksEnabled, ToSet
  <2>6. /\ mine \cup wide \subseteq {gm.grammars[i] : i \in DOMAIN gm.grammars}
        /\ always \subseteq {gm.universals[i] : i \in DOMAIN gm.universals}
    BY DEF ToSet
  <2> HIDE DEF mine, wide, always
  <2>7. ASSUME NEW id
        PROVE  id \in Active <=> \E info \in mine \cup wide \cup always : info.gram = id
    BY <2>4, <2>5, <2>6, ActiveOf
  <2>8. Active = {info.gram : info \in mine \cup wide \cup always}
    BY <2>7
  <2> QED
    BY <2>8 DEF ListensForItem, mine, wide, always
<1> QED
  BY <1>1, Inductive, PTL

\* The grammar that voiceglue names in the result is enabled in the context
\* that runs, so that FindMatchedElement finds it.
THEOREM MatchIsFound == Spec => []MatchFound
<1>1. IInv => MatchFound
  <2> SUFFICES ASSUME IInv, NEW id \in Active
               PROVE  /\ <<gram_ids[id].text, id>> \in gram_texts
                      /\ \E info \in Infos(gm) : info.gram = id /\ info.enabled
    BY DEF MatchFound
  <2>1. <<gram_ids[id].text, id>> \in gram_texts
    BY InvIs DEF Recorded, Active
  <2>2. \E info \in Infos(gm) : info.gram = id /\ info.enabled
    BY ActiveOf DEF Infos, ToSet
  <2> QED
    BY <2>1, <2>2
<1> QED
  BY <1>1, Inductive, PTL

\* What a manager holds is what it names.
LEMMA HeldIs ==
  ASSUME NEW c \in Managers, NEW id
  PROVE  id \in Held(c) <=> Names(c, id) /\ id # None
<1>1. Names(c, id) <=> \E info \in Infos(c) : info.gram = id
  BY DEF Names, Infos, ToSet, Row, Kinds
<1> QED
  BY <1>1 DEF Held

\* Whatever is loaded, failed or freed, voiceglue keeps a grammar for one info
\* of one context, and each info names a grammar that is kept.
THEOREM OneOwnerKept == Spec => []OneOwner
<1>1. IInv => OneOwner
  <2> SUFFICES ASSUME IInv
               PROVE  OneOwner
    OBVIOUS
  <2>1. /\ gm \in Managers /\ callers \in Seq(Managers) /\ Table(gram_ids)
        /\ Tabled(gm, callers, gram_ids)
    BY InvIs
  <2>2. \A m \in DOMAIN callers : callers[m] \in Managers
    BY <2>1
  <2>3. Contexts = {gm} \cup {callers[m] : m \in DOMAIN callers}
    BY DEF Contexts, ToSet
  <2>4. \A id \in DOMAIN gram_ids : id \in Addresses /\ id # None
    BY <2>1, GrammarsAssumption DEF Table
  <2>5. ASSUME NEW c, Agrees(c, gram_ids), NEW id, Names(c, id), id # None
        PROVE  id \in DOMAIN gram_ids
    BY <2>5 DEF Agrees, Names, Fits
  <2>6. ASSUME NEW id
        PROVE  (\E c \in Contexts : id \in Held(c)) <=> id \in DOMAIN gram_ids
    <3>1. ASSUME NEW c \in Contexts, id \in Held(c)
          PROVE  id \in DOMAIN gram_ids
      <4>1. c \in Managers /\ Agrees(c, gram_ids)
        BY <2>1, <2>2, <2>3 DEF Tabled
      <4> QED
        BY <2>5, <3>1, <4>1, HeldIs
    <3>2. ASSUME id \in DOMAIN gram_ids
          PROVE  \E c \in Contexts : id \in Held(c)
      <4>1. Names(gm, id) \/ \E m \in DOMAIN callers : Names(callers[m], id)
        BY <2>1, <3>2 DEF Tabled, Owned
      <4> QED
        BY <2>1, <2>2, <2>3, <2>4, <3>2, <4>1, HeldIs
    <3> QED
      BY <3>1, <3>2
  <2>7. UNION {Held(c) : c \in Contexts} = DOMAIN gram_ids
    BY <2>6
  <2>8. ASSUME NEW m \in DOMAIN callers
        PROVE  Held(gm) \cap Held(callers[m]) = {}
    <3> SUFFICES ASSUME NEW id \in Held(gm), id \in Held(callers[m])
                 PROVE  FALSE
      OBVIOUS
    <3>1. Names(gm, id) /\ Names(callers[m], id) /\ id # None
      BY <2>1, <2>2, HeldIs
    <3>2. id \in DOMAIN gram_ids
      BY <2>1, <2>5, <3>1 DEF Tabled
    <3> QED
      BY <2>1, <2>4, <3>1, <3>2 DEF Tabled, Owned
  <2>9. ASSUME NEW info \in Infos(gm), NEW other \in Infos(gm),
               info.gram = other.gram, info.gram # None
        PROVE  info = other
    <3>1. PICK k, i : k \in Kinds /\ i \in DOMAIN Row(gm, k) /\ info = Row(gm, k)[i]
      BY DEF Infos, ToSet, Row, Kinds
    <3>2. PICK l, j : l \in Kinds /\ j \in DOMAIN Row(gm, l) /\ other = Row(gm, l)[j]
      BY DEF Infos, ToSet, Row, Kinds
    <3>3. Once(gm)
      BY <2>1 DEF Tabled, Owned
    <3>4. k = l /\ i = j
      BY <2>9, <3>1, <3>2, <3>3 DEF Once
    <3> QED
      BY <3>1, <3>2, <3>4
  <2> QED
    BY <2>7, <2>8, <2>9 DEF OneOwner
<1> QED
  BY <1>1, Inductive, PTL

-----------------------------------------------------------------------------
(* What main caches, also while grammars are freed.                         *)

\* A request that is about another grammar than the active ones, or that
\* forgets what is cached.
LEMMA SameCovered ==
  ASSUME Covered, gram_signals' = gram_signals,
         TextsOf(gram_ids') = TextsOf(gram_ids)
  PROVE  Covered'
BY DEF Covered, CoveredBy

LEMMA NoneCovered ==
  ASSUME gram_signals' = None
  PROVE  Covered'
BY DEF Covered, CoveredBy

LEMMA LoadCovered ==
  ASSUME Covered, NEW id \in FreshIds, NEW text, HandleGrammar(id, text)
  PROVE  Covered'
<1>1. PICK e, ids : e = gram_ids' /\ ids = gram_ids
  OBVIOUS
<1>2. id \notin DOMAIN ids
  BY <1>1, FreshIs
<1>0. PICK b \in BOOLEAN : b = FALSE
  OBVIOUS
<1>3. /\ DOMAIN e = DOMAIN ids \cup {id}
      /\ e[id] = [text |-> text, active |-> b]
      /\ \A g \in DOMAIN ids : e[g] = ids[g]
  BY <1>0, <1>1, <1>2 DEF HandleGrammar
<1>4. ~e[id].active
  BY <1>0, <1>3
<1>5. ASSUME NEW x
      PROVE  /\ (x \in DOMAIN e /\ e[x].active) <=> (x \in DOMAIN ids /\ ids[x].active)
             /\ x \in DOMAIN ids /\ ids[x].active => e[x].text = ids[x].text
  BY <1>2, <1>3, <1>4
<1>6. TextsOf(e) = TextsOf(ids)
  BY <1>5, SameTexts
<1>7. gram_signals' = gram_signals
  BY DEF HandleGrammar
<1> QED
  BY <1>1, <1>6, <1>7, SameCovered

\* What is left when a grammar is freed.
LEMMA FreeIs ==
  ASSUME NEW id \in DOMAIN gram_ids, HandleFreeGrammar(id)
  PROVE  /\ DOMAIN gram_ids' = DOMAIN gram_ids \ {id}
         /\ \A g \in DOMAIN gram_ids : g # id => gram_ids'[g] = gram_ids[g]
BY DEF HandleFreeGrammar

\* It was not active, or its text is that of a universal.
LEMMA FreeCovered ==
  ASSUME Covered, NEW id \in DOMAIN gram_ids, HandleFreeGrammar(id),
         gram_signals' = gram_signals,
         ~gram_ids[id].active \/ gram_ids[id].text \in ToSet(Links)
  PROVE  Covered'
<1>1. PICK e, ids, s : e = gram_ids' /\ ids = gram_ids /\ s = gram_signals
  OBVIOUS
<1>2. /\ DOMAIN e = DOMAIN ids \ {id}
      /\ \A g \in DOMAIN ids : g # id => e[g] = ids[g]
  BY <1>1, FreeIs
<1>3. ASSUME NEW x
      PROVE  /\ x \in ActiveIn(e) => x \in ActiveIn(ids) /\ e[x].text = ids[x].text
             /\ x \in ActiveIn(ids) /\ x # id =>
                  x \in ActiveIn(e) /\ e[x].text = ids[x].text
  BY <1>2 DEF ActiveIn
<1>4. TextsOf(e) \subseteq TextsOf(ids)
  BY <1>3 DEF TextsOf
<1>5. TextsOf(ids) \subseteq TextsOf(e) \cup ToSet(Links)
  <2>1. id \in ActiveIn(ids) => ids[id].text \in ToSet(Links)
    BY <1>1 DEF ActiveIn
  <2> SUFFICES ASSUME NEW x \in ActiveIn(ids)
               PROVE  ids[x].text \in TextsOf(e) \cup ToSet(Links)
    BY DEF TextsOf
  <2> QED
    BY <1>3, <2>1 DEF TextsOf
<1>6. CoveredBy(s, ids)
  BY <1>1 DEF Covered
<1>7. CoveredBy(s, e)
  BY <1>4, <1>5, <1>6 DEF CoveredBy
<1> QED
  BY <1>1, <1>7 DEF Covered

LEMMA ReleaseGrammarCovered ==
  ASSUME IInv, Covered, ReleaseGrammar
  PROVE  Covered'
<1>1. PICK info : info = Last(gm.grammars)
  OBVIOUS
<1>2. PICK n : n = Len(gm.grammars)
  OBVIOUS
<1>3. n \in DOMAIN gm.grammars /\ info = gm.grammars[n]
  BY <1>1, <1>2, InvIs, ManagerIs, FrontAt DEF ReleaseGrammar
<1>4. Fits(info, gram_ids)
  BY <1>3, InvIs, PageIsKnown
<1>5. CASE info.gram = None
  <2>1. UNCHANGED main
    BY <1>1, <1>5 DEF ReleaseGrammar
  <2> QED
    BY <2>1, SameCovered DEF main
<1>6. CASE info.gram # None /\ info.enabled
  <2>1. gram_signals' = None
    BY <1>1, <1>6 DEF ReleaseGrammar, ForgetSignals
  <2> QED
    BY <2>1, NoneCovered
<1>7. CASE info.gram # None /\ ~info.enabled
  <2>1. HandleFreeGrammar(info.gram) /\ gram_signals' = gram_signals
    BY <1>1, <1>7 DEF ReleaseGrammar
  <2>2. info.gram \in DOMAIN gram_ids /\ ~gram_ids[info.gram].active
    BY <1>4, <1>7 DEF Fits
  <2> QED
    BY <2>1, <2>2, FreeCovered
<1> QED
  BY <1>5, <1>6, <1>7

LEMMA ReleaseUniversalCovered ==
  ASSUME IInv, Covered, ReleaseUniversal
  PROVE  Covered'
<1>1. PICK info : info = Last(gm.universals)
  OBVIOUS
<1>2. PICK n : n = Len(gm.universals)
  OBVIOUS
<1>3. n \in DOMAIN gm.universals /\ info = gm.universals[n]
  BY <1>1, <1>2, InvIs, ManagerIs, FrontAt DEF ReleaseUniversal
<1>4. /\ Fits(info, gram_ids) /\ info.gram \in DOMAIN gram_ids
      /\ info \in LinkInfos
  BY <1>3, InvIs, LinkIsKnown
<1>5. gram_ids[info.gram].text \in ToSet(Links)
  BY <1>4, GrammarsAssumption DEF Fits, LinkInfos
<1>6. HandleFreeGrammar(info.gram) /\ gram_signals' = gram_signals
  BY <1>1 DEF ReleaseUniversal
<1> QED
  BY <1>4, <1>5, <1>6, FreeCovered

LEMMA LoadGrammarCovered ==
  ASSUME Covered, LoadGrammar
  PROVE  Covered'
<1>1. CASE UNCHANGED main
  BY <1>1, SameCovered DEF main
<1>2. CASE \E id \in FreshIds : \E text : HandleGrammar(id, text)
  BY <1>2, LoadCovered
<1> QED
  BY <1>1, <1>2 DEF LoadGrammar

\* The other requests activate or deactivate, which forgets what is cached.
LEMMA ForgottenOrSame ==
  ASSUME DisableGrammar \/ DisableUniversals \/ EnableGrammar \/ EnableUniversal
  PROVE  gram_signals' = None \/ UNCHANGED main
<1>1. CASE DisableGrammar
  BY <1>1 DEF DisableGrammar, HandleDeactivateAndFree, HandleGrammarStatus,
              ForgetSignals
<1>2. CASE DisableUniversals
  BY <1>2 DEF DisableUniversals, HandleGrammarStatus, ForgetSignals
<1>3. CASE EnableGrammar
  BY <1>3 DEF EnableGrammar, HandleGrammarStatus, HandleGrammarAndActivate,
              ForgetSignals
<1>4. CASE EnableUniversal
  BY <1>4 DEF EnableUniversal, HandleGrammarStatus, ForgetSignals
<1> QED
  BY <1>1, <1>2, <1>3, <1>4

LEMMA NextCovered ==
  ASSUME IInv, Covered, [Next]_vars
  PROVE  Covered'
<1>0. CASE UNCHANGED main
  BY <1>0, SameCovered DEF main
<1>1. CASE UNCHANGED vars
  BY <1>0, <1>1 DEF vars
<1>2. CASE InstallDocument \/ PopExecutionContext \/ Released
  BY <1>0, <1>2 DEF InstallDocument, PopExecutionContext, Released
<1>3. CASE ReleaseGrammar \/ ReleaseUniversal \/ LoadGrammar
  BY <1>3, ReleaseGrammarCovered, ReleaseUniversalCovered, LoadGrammarCovered
<1>4. CASE LoadFails \/ Loaded \/ Collect
  BY <1>0, <1>4 DEF LoadFails, Loaded, Collect
<1>5. CASE Ending
  BY <1>5, NoneCovered DEF Ending
<1>6. CASE DisableGrammar \/ DisableUniversals \/ EnableGrammar \/ EnableUniversal
  BY <1>0, <1>6, ForgottenOrSame, NoneCovered
<1>7. CASE EnableFails \/ Enabled \/ Recognize \/ Subdialog
  BY <1>0, <1>7 DEF EnableFails, Enabled, Recognize, Subdialog
<1>8. CASE ActiveSignals
  <2>1. gram_signals' = TextsOf(gram_ids) /\ gram_ids' = gram_ids
    BY <1>8, ActiveIs DEF ActiveSignals
  <2> QED
    BY <2>1 DEF Covered, CoveredBy
<1> QED
  BY <1>1, <1>2, <1>3, <1>4, <1>5, <1>6, <1>7, <1>8 DEF Next

\* Whenever voiceglue starts a command, the signals that active_signals has
\* cached lack none of a grammar that is active, and only universals that were
\* freed can be among them besides; a recognition has exactly its own.
THEOREM SignalsAreFresh == Spec => []SignalsFresh
<1>1. Init => Covered
  BY DEF Init, Covered, CoveredBy
<1>2. IInv /\ Covered /\ [Next]_vars => Covered'
  BY NextCovered
<1>3. IInv /\ Covered => SignalsFresh
  <2> SUFFICES ASSUME IInv, Covered, gram_signals # None
               PROVE  /\ Texts(Active) \subseteq gram_signals
                      /\ gram_signals \subseteq Texts(Active) \cup ToSet(Links)
                      /\ pc = "listen" => gram_signals = Texts(Active)
    BY DEF SignalsFresh
  <2>1. /\ Texts(Active) \subseteq gram_signals
        /\ gram_signals \subseteq Texts(Active) \cup ToSet(Links)
    BY ActiveIs DEF Covered, CoveredBy
  <2>2. ASSUME pc = "listen"
        PROVE  gram_signals = Texts(Active)
    <3>1. SomeEnabled(gm)
      BY <2>2, PhaseIs DEF Phase
    <3>2. Active # {}
      BY <3>1, ActiveOf, SomeEnabledIs
    <3> QED
      BY <2>2, <3>2 DEF IInv, Signalled
  <2> QED
    BY <2>1, <2>2
<1> QED
  BY <1>1, <1>2, <1>3, Inductive, PTL DEF Spec
=============================================================================
