------------------------- MODULE HttpCacheProofs -------------------------
(***************************************************************************)
(* What holds of the http cache for any number of requests, pages and      *)
(* results, and any intervals in which a fetch ends before an entry is     *)
(* purged: a request is in one place, a tree is freed once, an item is     *)
(* fetched once at a time, and the contract with main is kept.             *)
(***************************************************************************)
EXTENDS HttpCache, FiniteSetTheorems, SequenceTheorems, TLAPS

-----------------------------------------------------------------------------
(* Types.                                                                   *)

ToMain    == {m \in Messages : \/ m.type = "done" /\ m.id \in Ids
                               \/ m.type = "free" /\ m.tree \in Ids}
ToProcess == {m \in Messages : /\ m.type \in {"req", "parsed"} /\ m.id \in Ids
                               /\ m.type = "req" => m = Req(m.id)}
Jobs      == [pid : Nat, item : Items, known : BOOLEAN]
EntryTables == UNION {[D -> Entries] : D \in SUBSET Items}
SpecTables  == UNION {[D -> Seq(Items) \ {<<>>}] : D \in SUBSET Ids}
Processes == [entry : EntryTables, spec : SpecTables, jobs : SUBSET Jobs,
              out : Seq(ToMain)]
ThreadStates == {"idle", "asking", "parsing", "loading", "unmade", "ended", "gone"}

-----------------------------------------------------------------------------
(* Where requests and trees are: c is the process, q what it has to read.   *)

In(s, M)  == \E i \in 1..Len(s) : s[i] \in M
One(s, M) == \A i, j \in 1..Len(s) : s[i] \in M /\ s[j] \in M => i = j

DoneFor(id)  == {m \in ToMain : m.type = "done" /\ m.id = id}
HandTo(id)   == {m \in DoneFor(id) : m.status = 0}
FreeOf(tree) == {m \in ToMain : m.type = "free" /\ m.tree = tree}
ReqFrom(id)  == {m \in ToProcess : m.type = "req" /\ m.id = id}
ParsedBy(id) == {m \in ToProcess : m.type = "parsed" /\ m.id = id}
TreeIn(tree) == {m \in ToProcess : m.type = "parsed" /\ m.tree = tree}

Held(c, id) == \E item \in DOMAIN c.entry : id \in c.entry[item].ids
Kept(c, t)  == \E item \in DOMAIN c.entry : c.entry[item].tree = t
Parser(c, q, id) == \/ In(c.out, HandTo(id)) \/ thread[id] = "parsing"
                    \/ In(q, ParsedBy(id))

-----------------------------------------------------------------------------
(* The inductive invariant.                                                 *)

\* The requests that wait for an item are at it, and wait until it is there; it
\* is fetched before it can be purged.
EntriesCoherent(c) ==
  \A item \in DOMAIN c.entry :
    LET e == c.entry[item]
    IN  /\ e.status # 0 => e.ids = {}
        /\ e.status = 0 => now <= e.lastUsed + FetchTime
        /\ IsFiniteSet(e.ids)
        /\ \A id \in e.ids : id \in DOMAIN c.spec /\ Head(c.spec[id]) = item

\* A child fetches an item that is not there.
FetchesCoherent(c) ==
  /\ IsFiniteSet(DOMAIN c.entry) /\ IsFiniteSet(c.jobs)
  /\ \A job \in c.jobs : /\ job.item \in DOMAIN c.entry
                         /\ c.entry[job.item].status = 0
  /\ \A j, k \in c.jobs : j.item = k.item => j = k

\* A fallback is known only when its request has come to it.
Untried(c, id) == \A item \in DOMAIN c.entry :
                    item.use = "fallback" => item.by # id
SpecsCoherent(c, q) ==
  /\ \A id \in DOMAIN c.spec :
       \/ c.spec[id] = RequestSpec(id) /\ Untried(c, id)
       \/ c.spec[id] = <<FallbackOf(id)>> /\ want[id].fallback
  /\ \A id \in Ids : thread[id] = "idle" \/ In(q, ReqFrom(id)) =>
                       id \notin DOMAIN c.spec /\ Untried(c, id)

\* A request that main waits for is in one place; F are those at hand.
Placed(c, q, F, id) ==
  /\ One(c.out, DoneFor(id)) /\ One(q, ReqFrom(id)) /\ One(q, ParsedBy(id))
  /\ id \in asked <=> \/ Held(c, id) \/ In(c.out, DoneFor(id))
                      \/ In(q, ReqFrom(id)) \/ id \in F
  /\ Held(c, id) => /\ ~In(c.out, DoneFor(id)) /\ ~In(q, ReqFrom(id))
                    /\ id \notin F
  /\ In(c.out, DoneFor(id)) => ~In(q, ReqFrom(id)) /\ id \notin F
  /\ In(q, ReqFrom(id)) => id \notin F
  /\ id \in asked => thread[id] \in {"asking", "gone"}
  /\ In(q, ParsedBy(id)) => id \notin asked /\ thread[id] # "parsing"

\* The item that a thread was given to parse is fetched, and waits for it only.
ParserWaits(c, q, id) ==
  Parser(c, q, id) =>
    /\ id \in DOMAIN c.spec /\ Head(c.spec[id]) \in DOMAIN c.entry
    /\ LET item == Head(c.spec[id])
       IN  /\ c.entry[item].status = 0 /\ c.entry[item].tree = NoTree
           /\ \A job \in c.jobs : job.item # item
OneParser(c, q) ==
  \A a, b \in Ids : Parser(c, q, a) /\ Parser(c, q, b)
                      /\ Head(c.spec[a]) = Head(c.spec[b]) => a = b

\* A tree is reported by the thread that made it, is the cache's, is on its way
\* to be freed, or is freed.
TreePlaced(c, q, t) ==
  /\ One(q, TreeIn(t)) /\ One(c.out, FreeOf(t))
  /\ \A i, j \in DOMAIN c.entry :
       c.entry[i].tree = t /\ c.entry[j].tree = t => i = j
  /\ Kept(c, t) => ~In(q, TreeIn(t)) /\ ~In(c.out, FreeOf(t)) /\ t \notin freed
  /\ In(q, TreeIn(t)) => ~In(c.out, FreeOf(t)) /\ t \notin freed
  /\ In(c.out, FreeOf(t)) => t \notin freed
  /\ Kept(c, t) \/ In(q, TreeIn(t)) \/ In(c.out, FreeOf(t)) \/ t \in freed =>
       thread[t] = "ended"

Sound(c, q, F) ==
  /\ c \in Processes
  /\ EntriesCoherent(c) /\ FetchesCoherent(c) /\ SpecsCoherent(c, q)
  /\ \A id \in Ids : Placed(c, q, F, id) /\ ParserWaits(c, q, id)
  /\ OneParser(c, q)
  /\ \A t \in Ids : TreePlaced(c, q, t)

WorldTyped ==
  /\ now \in 0..MaxNow /\ nextPurge \in Nat
  /\ toCache \in Seq(ToProcess) /\ asked \subseteq Ids
  /\ want \in [Ids -> Wants] /\ thread \in [Ids -> ThreadStates]
  /\ given \in [Ids -> Trees] /\ freed \subseteq Ids

IInv == WorldTyped /\ Sound(cache, toCache, {})

-----------------------------------------------------------------------------
(* Lists of messages.                                                       *)

LEMMA InAppended ==
  ASSUME NEW S, NEW s \in Seq(S), NEW e \in S, NEW M
  PROVE  /\ In(Append(s, e), M) <=> (In(s, M) \/ e \in M)
         /\ One(s, M) /\ (e \in M => ~In(s, M)) => One(Append(s, e), M)
<1> DEFINE t == Append(s, e)
<1>1. /\ Len(t) = Len(s) + 1 /\ t[Len(s) + 1] = e
      /\ \A i \in 1..Len(s) : t[i] = s[i]
  BY AppendProperties
<1>2. Len(s) \in Nat
  OBVIOUS
<1> HIDE DEF t
<1>3. \A i \in 1..Len(t) : i \in 1..Len(s) \/ i = Len(s) + 1
  BY <1>1, <1>2
<1>4. \A i \in 1..Len(s) : i \in 1..Len(t)
  BY <1>1, <1>2
<1>5. Len(s) + 1 \in 1..Len(t)
  BY <1>1, <1>2
<1>6. In(t, M) <=> (In(s, M) \/ e \in M)
  BY <1>1, <1>3, <1>4, <1>5 DEF In
<1>7. ASSUME One(s, M), e \in M => ~In(s, M)
      PROVE  One(t, M)
  <2> SUFFICES ASSUME NEW i \in 1..Len(t), NEW j \in 1..Len(t),
                      t[i] \in M, t[j] \in M
               PROVE  i = j
    BY DEF One
  <2>1. CASE e \in M
    <3>1. \A k \in 1..Len(s) : s[k] \notin M
      BY <1>7, <2>1 DEF In
    <3>2. i = Len(s) + 1 /\ j = Len(s) + 1
      BY <1>1, <1>3, <3>1
    <3> QED
      BY <3>2
  <2>2. CASE e \notin M
    <3>1. i \in 1..Len(s) /\ j \in 1..Len(s)
      BY <1>1, <1>3, <2>2
    <3> QED
      BY <1>1, <1>7, <3>1 DEF One
  <2> QED
    BY <2>1, <2>2
<1> QED
  BY <1>6, <1>7 DEF t

LEMMA InTail ==
  ASSUME NEW S, NEW s \in Seq(S), s # <<>>, NEW M, One(s, M)
  PROVE  /\ Head(s) \in S /\ Tail(s) \in Seq(S)
         /\ In(Tail(s), M) <=> (In(s, M) /\ Head(s) \notin M)
         /\ Head(s) \in M => In(s, M)
         /\ One(Tail(s), M)
<1> DEFINE t == Tail(s)
<1>1. Len(s) \in Nat /\ Len(s) # 0
  BY EmptySeq
<1>2. /\ Head(s) \in S /\ t \in Seq(S) /\ Len(t) = Len(s) - 1
      /\ \A i \in 1..Len(t) : t[i] = s[i + 1]
  BY HeadTailProperties
<1>3. Head(s) = s[1] /\ 1 \in 1..Len(s)
  BY <1>1
<1> HIDE DEF t
<1>4. \A i \in 1..Len(t) : i + 1 \in 1..Len(s) /\ i + 1 # 1
  BY <1>1, <1>2
<1>5. \A i \in 1..Len(s) : i # 1 => i - 1 \in 1..Len(t) /\ (i - 1) + 1 = i
  BY <1>1, <1>2
<1>6. Head(s) \in M => In(s, M)
  BY <1>3 DEF In
<1>7. ASSUME In(t, M)
      PROVE  In(s, M) /\ Head(s) \notin M
  <2>1. PICK i \in 1..Len(t) : t[i] \in M
    BY <1>7 DEF In
  <2>2. i + 1 \in 1..Len(s) /\ s[i + 1] \in M /\ i + 1 # 1
    BY <1>2, <1>4, <2>1
  <2>3. s[1] \notin M
    BY <1>3, <2>2 DEF One
  <2> QED
    BY <1>3, <2>2, <2>3 DEF In
<1>8. ASSUME In(s, M), Head(s) \notin M
      PROVE  In(t, M)
  <2>1. PICK i \in 1..Len(s) : s[i] \in M
    BY <1>8 DEF In
  <2>2. i # 1
    BY <1>3, <1>8, <2>1
  <2>3. i - 1 \in 1..Len(t) /\ t[i - 1] = s[i]
    BY <1>2, <1>5, <2>2
  <2> QED
    BY <2>1, <2>3 DEF In
<1>9. One(t, M)
  <2> SUFFICES ASSUME NEW i \in 1..Len(t), NEW j \in 1..Len(t),
                      t[i] \in M, t[j] \in M
               PROVE  i = j
    BY DEF One
  <2>1. i + 1 = j + 1
    BY <1>2, <1>4 DEF One
  <2> QED
    BY <2>1
<1> QED
  BY <1>2, <1>6, <1>7, <1>8, <1>9 DEF t

\* What holds at 0 and from each number to the next holds up to n.
LEMMA UpTo ==
  ASSUME NEW n \in Nat, NEW T, 0 \in T,
         \A i \in 1..n : i - 1 \in T => i \in T
  PROVE  \A i \in 0..n : i \in T
<1> DEFINE bad == {i \in 0..n : i \notin T}
<1> SUFFICES bad = {}
  OBVIOUS
<1>1. bad \in SUBSET Nat
  OBVIOUS
<1>2. \A i \in bad : i \in 1..n /\ i \notin T /\ (i - 1 \in T \/ i - 1 \in bad)
  OBVIOUS
<1>2a. \A i \in bad : i \in Nat
  OBVIOUS
<1> HIDE DEF bad
<1>3. \A k, m \in Nat : <<k, m>> \in OpToRel(<, Nat) <=> k < m
  BY DEF OpToRel
<1>4. ASSUME bad # {}
      PROVE  FALSE
  <2>1. PICK i \in bad : \A j \in bad : <<j, i>> \notin OpToRel(<, Nat)
    BY <1>1, <1>4, NatLessThanWellFounded, WFMin
  <2>2. i - 1 \in bad
    BY <1>2, <2>1
  <2>3. i \in Nat /\ i - 1 \in Nat
    BY <1>2a, <2>1, <2>2
  <2>4. i - 1 < i
    BY <2>3
  <2> QED
    BY <1>3, <2>1, <2>2, <2>3, <2>4
<1> QED
  BY <1>4

\* An order of a finite set is of all its elements.
LEMMA OrderOf ==
  ASSUME NEW S, IsFiniteSet(S), NEW order \in SetToSeqs(S)
  PROVE  /\ order \in Seq(S)
         /\ \A x \in S : \E i \in 1..Len(order) : order[i] = x
         /\ \A i, j \in 1..Len(order) : order[i] = order[j] => i = j
<1> DEFINE n == Cardinality(S)
<1>1. n \in Nat
  BY FS_CardinalityType
<1>2. order \in [1..n -> S] /\ \A i, j \in 1..n : i # j => order[i] # order[j]
  BY DEF SetToSeqs
<1>3. order \in Seq(S) /\ Len(order) = n
  BY <1>1, <1>2
<1>4. order \in Injection(1..n, S)
  BY <1>2 DEF Injection, IsInjective
<1>5. IsFiniteSet(1..n) /\ Cardinality(1..n) = n
  BY <1>1, FS_Interval
<1>6. order \in Surjection(1..n, S)
  BY <1>4, <1>5, FS_Injection
<1> QED
  BY <1>2, <1>3, <1>6 DEF Surjection

-----------------------------------------------------------------------------
(* The parts of the process, and what each primitive operation changes.     *)

LEMMA Parts ==
  ASSUME NEW c \in Processes
  PROVE  /\ c.entry \in [DOMAIN c.entry -> Entries] /\ DOMAIN c.entry \subseteq Items
         /\ c.spec \in [DOMAIN c.spec -> Seq(Items) \ {<<>>}]
         /\ DOMAIN c.spec \subseteq Ids
         /\ c.jobs \subseteq Jobs /\ c.out \in Seq(ToMain)
<1>1. c.entry \in EntryTables /\ c.spec \in SpecTables
      /\ c.jobs \subseteq Jobs /\ c.out \in Seq(ToMain)
  BY DEF Processes
<1>2. PICK D \in SUBSET Items : c.entry \in [D -> Entries]
  BY <1>1 DEF EntryTables
<1>3. PICK E \in SUBSET Ids : c.spec \in [E -> Seq(Items) \ {<<>>}]
  BY <1>1 DEF SpecTables
<1> QED
  BY <1>1, <1>2, <1>3

LEMMA Tables ==
  /\ \A D \in SUBSET Items : [D -> Entries] \subseteq EntryTables
  /\ \A D \in SUBSET Ids : [D -> Seq(Items) \ {<<>>}] \subseteq SpecTables
BY DEF EntryTables, SpecTables

\* d is c with e for item,
Puts(c, d, item, e) ==
  /\ DOMAIN d.entry = DOMAIN c.entry \cup {item} /\ d.entry[item] = e
  /\ \A x \in DOMAIN c.entry : x # item => d.entry[x] = c.entry[x]

\* with s as the items of a request,
Notes(c, d, id, s) ==
  /\ DOMAIN d.spec = DOMAIN c.spec \cup {id} /\ d.spec[id] = s
  /\ \A x \in DOMAIN c.spec : x # id => d.spec[x] = c.spec[x]

\* without an item,
Drops(c, d, item) ==
  /\ DOMAIN d.entry = DOMAIN c.entry \ {item}
  /\ \A x \in DOMAIN d.entry : d.entry[x] = c.entry[x]

\* or without the items of a request.
Forgets(c, d, id) ==
  /\ DOMAIN d.spec = DOMAIN c.spec \ {id}
  /\ \A x \in DOMAIN d.spec : d.spec[x] = c.spec[x]

LEMMA TellIs ==
  ASSUME NEW c \in Processes, NEW m \in ToMain
  PROVE  LET d == Tell(c, m)
         IN  /\ d \in Processes /\ d.entry = c.entry /\ d.spec = c.spec
             /\ d.jobs = c.jobs /\ d.out = Append(c.out, m)
<1> DEFINE t == Append(c.out, m)
<1>1. t \in Seq(ToMain)
  BY Parts, AppendProperties
<1> HIDE DEF t
<1>2. LET d == [c EXCEPT !.out = t]
      IN  /\ d \in Processes /\ d.entry = c.entry /\ d.spec = c.spec
          /\ d.jobs = c.jobs /\ d.out = t
  BY <1>1 DEF Processes
<1> QED
  BY <1>2 DEF t, Tell

LEMMA PutIs ==
  ASSUME NEW c \in Processes, NEW item \in Items, NEW e \in Entries
  PROVE  LET d == [c EXCEPT !.entry = With(@, item, e)]
         IN  /\ d \in Processes /\ Puts(c, d, item, e) /\ d.spec = c.spec
             /\ d.jobs = c.jobs /\ d.out = c.out
<1> DEFINE t == With(c.entry, item, e)
           d == [c EXCEPT !.entry = t]
<1>1. /\ t \in [DOMAIN c.entry \cup {item} -> Entries]
      /\ DOMAIN t = DOMAIN c.entry \cup {item} /\ t[item] = e
      /\ \A x \in DOMAIN c.entry : x # item => t[x] = c.entry[x]
  BY Parts DEF With
<1>2. t \in EntryTables
  BY <1>1, Parts, Tables
<1> HIDE DEF t
<1>3. /\ d \in Processes /\ d.entry = t /\ d.spec = c.spec
      /\ d.jobs = c.jobs /\ d.out = c.out
  BY <1>2 DEF Processes
<1> HIDE DEF d
<1>4. Puts(c, d, item, e)
  BY <1>1, <1>3 DEF Puts
<1> QED
  BY <1>3, <1>4 DEF d, t

LEMMA EditIs ==
  ASSUME NEW c \in Processes, NEW item \in DOMAIN c.entry, NEW e \in Entries
  PROVE  LET d == [c EXCEPT !.entry[item] = e]
         IN  /\ d \in Processes /\ Puts(c, d, item, e) /\ d.spec = c.spec
             /\ d.jobs = c.jobs /\ d.out = c.out
             /\ DOMAIN d.entry = DOMAIN c.entry
<1> DEFINE t == [c.entry EXCEPT ![item] = e]
           d == [c EXCEPT !.entry = t]
<1>1. /\ t \in [DOMAIN c.entry -> Entries]
      /\ DOMAIN t = DOMAIN c.entry /\ t[item] = e
      /\ \A x \in DOMAIN c.entry : x # item => t[x] = c.entry[x]
  BY Parts
<1>2. t \in EntryTables
  BY <1>1, Parts, Tables
<1> HIDE DEF t
<1>3. /\ d \in Processes /\ d.entry = t /\ d.spec = c.spec
      /\ d.jobs = c.jobs /\ d.out = c.out
  BY <1>2 DEF Processes
<1> HIDE DEF d
<1>4. Puts(c, d, item, e)
  BY <1>1, <1>3 DEF Puts
<1> QED
  BY <1>1, <1>3, <1>4 DEF d, t

LEMMA DropIs ==
  ASSUME NEW c \in Processes, NEW item
  PROVE  LET d == DropEntry(c, item)
         IN  /\ d \in Processes /\ Drops(c, d, item) /\ d.spec = c.spec
             /\ d.jobs = c.jobs /\ d.out = c.out
<1> DEFINE t == Without(c.entry, {item})
           d == [c EXCEPT !.entry = t]
<1>1. /\ t \in [DOMAIN c.entry \ {item} -> Entries]
      /\ DOMAIN t = DOMAIN c.entry \ {item}
      /\ \A x \in DOMAIN t : t[x] = c.entry[x]
  BY Parts DEF Without
<1>2. t \in EntryTables
  BY <1>1, Parts, Tables
<1> HIDE DEF t
<1>3. /\ d \in Processes /\ d.entry = t /\ d.spec = c.spec
      /\ d.jobs = c.jobs /\ d.out = c.out
  BY <1>2 DEF Processes
<1> HIDE DEF d
<1>4. Drops(c, d, item)
  BY <1>1, <1>3 DEF Drops
<1> QED
  BY <1>3, <1>4 DEF d, t, DropEntry

LEMMA ForgetIs ==
  ASSUME NEW c \in Processes, NEW id
  PROVE  LET d == Forget(c, id)
         IN  /\ d \in Processes /\ Forgets(c, d, id) /\ d.entry = c.entry
             /\ d.jobs = c.jobs /\ d.out = c.out
<1> DEFINE t == Without(c.spec, {id})
           d == [c EXCEPT !.spec = t]
<1>1. /\ t \in [DOMAIN c.spec \ {id} -> Seq(Items) \ {<<>>}]
      /\ DOMAIN t = DOMAIN c.spec \ {id}
      /\ \A x \in DOMAIN t : t[x] = c.spec[x]
  BY Parts DEF Without
<1>2. t \in SpecTables
  BY <1>1, Parts, Tables
<1> HIDE DEF t
<1>3. /\ d \in Processes /\ d.spec = t /\ d.entry = c.entry
      /\ d.jobs = c.jobs /\ d.out = c.out
  BY <1>2 DEF Processes
<1> HIDE DEF d
<1>4. Forgets(c, d, id)
  BY <1>1, <1>3 DEF Forgets
<1> QED
  BY <1>3, <1>4 DEF d, t, Forget

LEMMA SpecIs ==
  ASSUME NEW c \in Processes, NEW id \in Ids, NEW s \in Seq(Items) \ {<<>>}
  PROVE  LET d == [c EXCEPT !.spec = With(@, id, s)]
         IN  /\ d \in Processes /\ Notes(c, d, id, s)
             /\ d.entry = c.entry /\ d.jobs = c.jobs /\ d.out = c.out
<1> DEFINE t == With(c.spec, id, s)
<1>1. /\ t \in [DOMAIN c.spec \cup {id} -> Seq(Items) \ {<<>>}]
      /\ DOMAIN t = DOMAIN c.spec \cup {id} /\ t[id] = s
      /\ \A x \in DOMAIN c.spec : x # id => t[x] = c.spec[x]
  BY Parts DEF With
<1>2. t \in SpecTables
  BY <1>1, Parts, Tables
<1> HIDE DEF t
<1>3. LET d == [c EXCEPT !.spec = t]
      IN  /\ d \in Processes /\ d.spec = t
          /\ d.entry = c.entry /\ d.jobs = c.jobs /\ d.out = c.out
  BY <1>2 DEF Processes
<1> QED
  BY <1>1, <1>3 DEF t, Notes

LEMMA NextIs ==
  ASSUME NEW c \in Processes, NEW id \in DOMAIN c.spec,
         NEW s \in Seq(Items) \ {<<>>}
  PROVE  LET d == [c EXCEPT !.spec[id] = s]
         IN  /\ d \in Processes /\ DOMAIN d.spec = DOMAIN c.spec
             /\ d.spec[id] = s
             /\ \A x \in DOMAIN c.spec : x # id => d.spec[x] = c.spec[x]
             /\ d.entry = c.entry /\ d.jobs = c.jobs /\ d.out = c.out
<1> DEFINE t == [c.spec EXCEPT ![id] = s]
<1>1. /\ t \in [DOMAIN c.spec -> Seq(Items) \ {<<>>}]
      /\ DOMAIN t = DOMAIN c.spec /\ t[id] = s
      /\ \A x \in DOMAIN c.spec : x # id => t[x] = c.spec[x]
  BY Parts
<1>2. t \in SpecTables
  BY <1>1, Parts, Tables
<1> HIDE DEF t
<1>3. LET d == [c EXCEPT !.spec = t]
      IN  /\ d \in Processes /\ d.spec = t
          /\ d.entry = c.entry /\ d.jobs = c.jobs /\ d.out = c.out
  BY <1>2 DEF Processes
<1> QED
  BY <1>1, <1>3 DEF t

LEMMA JobsIs ==
  ASSUME NEW c \in Processes, NEW jobs \in SUBSET Jobs
  PROVE  LET d == [c EXCEPT !.jobs = jobs]
         IN  /\ d \in Processes /\ d.entry = c.entry /\ d.spec = c.spec
             /\ d.jobs = jobs /\ d.out = c.out
BY DEF Processes

-----------------------------------------------------------------------------
(* Messages.                                                                *)

LEMMA DoneIs ==
  ASSUME NEW id \in Ids, NEW status \in {-1, 0, 1}, NEW tree \in Trees
  PROVE  LET m == Done(id, status, tree)
         IN  /\ m \in ToMain
             /\ \A k \in Ids : /\ m \in DoneFor(k) <=> k = id
                               /\ m \in HandTo(k) <=> (k = id /\ status = 0)
                               /\ m \notin FreeOf(k)
BY HttpCacheAssumption DEF Done, Message, ToMain, DoneFor, HandTo, FreeOf, Messages

LEMMA FreeIs ==
  ASSUME NEW tree \in Ids
  PROVE  LET m == Free(tree)
         IN  /\ m \in ToMain
             /\ \A k \in Ids : /\ m \notin DoneFor(k) /\ m \notin HandTo(k)
                               /\ m \in FreeOf(k) <=> k = tree
BY HttpCacheAssumption DEF Free, Message, ToMain, DoneFor, HandTo, FreeOf, Messages, Trees

LEMMA ReqIs ==
  ASSUME NEW id \in Ids
  PROVE  LET m == Req(id)
         IN  /\ m \in ToProcess
             /\ \A k \in Ids : /\ m \in ReqFrom(k) <=> k = id
                               /\ m \notin ParsedBy(k) /\ m \notin TreeIn(k)
BY HttpCacheAssumption
   DEF Req, Message, ToProcess, ReqFrom, ParsedBy, TreeIn, Messages, Trees, NoTree

LEMMA ParsedIs ==
  ASSUME NEW id \in Ids, NEW tree \in Trees
  PROVE  LET m == Parsed(id, tree)
         IN  /\ m \in ToProcess
             /\ \A k \in Ids : /\ m \notin ReqFrom(k)
                               /\ m \in ParsedBy(k) <=> k = id
                               /\ m \in TreeIn(k) <=> k = tree
BY HttpCacheAssumption
   DEF Parsed, Message, ToProcess, ReqFrom, ParsedBy, TreeIn, Messages

-----------------------------------------------------------------------------
(* What keeps the parts of Sound.                                           *)

LEMMA ItemsOf ==
  ASSUME WorldTyped, NEW id \in Ids
  PROVE  /\ ItemOf(id) \in Items /\ FallbackOf(id) \in Items
         /\ ItemOf(id).use # "fallback"
         /\ FallbackOf(id).use = "fallback" /\ FallbackOf(id).by = id
         /\ RequestSpec(id) \in Seq(Items) \ {<<>>}
         /\ Head(RequestSpec(id)) = ItemOf(id)
         /\ Tail(RequestSpec(id)) =
              IF want[id].fallback THEN <<FallbackOf(id)>> ELSE <<>>
<1>1. want[id] \in AllWants
  BY HttpCacheAssumption DEF WorldTyped
<1>2. want[id].page \in Pages
  BY <1>1 DEF AllWants
<1>3. ItemOf(id) \in Items /\ ItemOf(id).use # "fallback"
  BY <1>2 DEF ItemOf, Items
<1>4. FallbackOf(id) \in Items /\ FallbackOf(id).use = "fallback" /\ FallbackOf(id).by = id
  BY <1>2 DEF FallbackOf, Items
<1> QED
  BY <1>3, <1>4 DEF RequestSpec

\* A request that waits, is at hand or on its way has no parser.
LEMMA NotParser ==
  ASSUME NEW c, NEW q, NEW F, NEW id \in Ids, Placed(c, q, F, id),
         Held(c, id) \/ In(q, ReqFrom(id)) \/ id \in F
  PROVE  ~Parser(c, q, id)
<1>1. In(c.out, HandTo(id)) => In(c.out, DoneFor(id))
  BY DEF In, HandTo
<1>2. ~In(c.out, DoneFor(id)) /\ id \in asked
  BY DEF Placed
<1>3. thread[id] # "parsing" /\ ~In(q, ParsedBy(id))
  BY <1>2 DEF Placed
<1> QED
  BY <1>1, <1>2, <1>3 DEF Parser

\* The trees stay where they are, or are forgotten.
LEMMA TreesStay ==
  ASSUME NEW c, NEW d, NEW q, NEW t, TreePlaced(c, q, t),
         \A x \in DOMAIN d.entry : d.entry[x].tree = t =>
           x \in DOMAIN c.entry /\ c.entry[x].tree = t,
         In(d.out, FreeOf(t)) <=> In(c.out, FreeOf(t)), One(d.out, FreeOf(t))
  PROVE  TreePlaced(d, q, t)
<1>1. Kept(d, t) => Kept(c, t)
  BY DEF Kept
<1> QED
  BY <1>1 DEF TreePlaced

\* The parsers stay, and what they wait for does.
LEMMA ParsersStay ==
  ASSUME NEW c, NEW d, NEW q,
         \A k \in Ids : ParserWaits(c, q, k), OneParser(c, q),
         \A k \in Ids : Parser(d, q, k) => Parser(c, q, k),
         \A k \in DOMAIN c.spec : Parser(c, q, k) =>
           k \in DOMAIN d.spec /\ d.spec[k] = c.spec[k],
         \A x \in DOMAIN c.entry : c.entry[x].status = 0 /\ c.entry[x].tree = NoTree =>
           \/ /\ x \in DOMAIN d.entry /\ d.entry[x].status = 0
              /\ d.entry[x].tree = NoTree
           \/ \A k \in Ids : Parser(c, q, k) => Head(c.spec[k]) # x,
         \A job \in d.jobs : \/ job \in c.jobs
                             \/ \A k \in Ids : Parser(c, q, k) => Head(c.spec[k]) # job.item
  PROVE  (\A k \in Ids : ParserWaits(d, q, k)) /\ OneParser(d, q)
<1>1. ASSUME NEW k \in Ids, Parser(d, q, k)
      PROVE  /\ k \in DOMAIN d.spec /\ d.spec[k] = c.spec[k] /\ Parser(c, q, k)
             /\ Head(c.spec[k]) \in DOMAIN d.entry
             /\ d.entry[Head(c.spec[k])].status = 0
             /\ d.entry[Head(c.spec[k])].tree = NoTree
             /\ \A job \in d.jobs : job.item # Head(c.spec[k])
  <2>1. Parser(c, q, k) /\ ParserWaits(c, q, k)
    BY <1>1
  <2>2. PICK x : x = Head(c.spec[k])
    OBVIOUS
  <2>3. /\ k \in DOMAIN c.spec /\ x \in DOMAIN c.entry
        /\ c.entry[x].status = 0 /\ c.entry[x].tree = NoTree
        /\ \A job \in c.jobs : job.item # x
    BY <2>1, <2>2 DEF ParserWaits
  <2>4. k \in DOMAIN d.spec /\ d.spec[k] = c.spec[k]
    BY <2>1, <2>3
  <2>5. x \in DOMAIN d.entry /\ d.entry[x].status = 0 /\ d.entry[x].tree = NoTree
    BY <2>1, <2>2, <2>3
  <2>6. \A job \in d.jobs : job.item # x
    BY <2>1, <2>2, <2>3
  <2> QED
    BY <2>1, <2>2, <2>4, <2>5, <2>6
<1>2. \A k \in Ids : ParserWaits(d, q, k)
  BY <1>1 DEF ParserWaits
<1>3. OneParser(d, q)
  BY <1>1 DEF OneParser
<1> QED
  BY <1>2, <1>3

\* Nothing is said.
LEMMA QuietParser ==
  ASSUME NEW c, NEW d, NEW q, d.out = c.out
  PROVE  /\ \A k \in Ids : Parser(d, q, k) <=> Parser(c, q, k)
         /\ \A M : (In(d.out, M) <=> In(c.out, M)) /\ (One(d.out, M) <=> One(c.out, M))
BY DEF Parser

\* One more message is: to a request that is not handed its page,
LEMMA SaidDone ==
  ASSUME NEW c \in Processes, NEW d, NEW id \in Ids,
         NEW m \in DoneFor(id), m.status # 0, d.out = Append(c.out, m)
  PROVE  /\ \A q : \A k \in Ids : Parser(d, q, k) <=> Parser(c, q, k)
         /\ \A k \in Ids : /\ In(d.out, DoneFor(k)) <=> (In(c.out, DoneFor(k)) \/ k = id)
                           /\ One(c.out, DoneFor(k)) /\ (k = id => ~In(c.out, DoneFor(k)))
                                => One(d.out, DoneFor(k))
                           /\ In(d.out, FreeOf(k)) <=> In(c.out, FreeOf(k))
                           /\ One(c.out, FreeOf(k)) => One(d.out, FreeOf(k))
<1>1. /\ m \in ToMain
      /\ \A k \in Ids : /\ m \in DoneFor(k) <=> k = id
                        /\ m \notin HandTo(k)
                        /\ m \notin FreeOf(k)
  BY DEF DoneFor, HandTo, FreeOf
<1>2. \A M : /\ In(d.out, M) <=> (In(c.out, M) \/ m \in M)
             /\ One(c.out, M) /\ (m \in M => ~In(c.out, M)) => One(d.out, M)
  BY <1>1, Parts, InAppended
<1>3. \A q : \A k \in Ids : Parser(d, q, k) <=> Parser(c, q, k)
  BY <1>1, <1>2 DEF Parser
<1>4. ASSUME NEW k \in Ids
      PROVE  /\ In(d.out, DoneFor(k)) <=> (In(c.out, DoneFor(k)) \/ k = id)
             /\ One(c.out, DoneFor(k)) /\ (k = id => ~In(c.out, DoneFor(k)))
                  => One(d.out, DoneFor(k))
             /\ In(d.out, FreeOf(k)) <=> In(c.out, FreeOf(k))
             /\ One(c.out, FreeOf(k)) => One(d.out, FreeOf(k))
  BY <1>1, <1>2
<1> QED
  BY <1>3, <1>4

\* or that a tree is to be freed.
LEMMA SaidFree ==
  ASSUME NEW c \in Processes, NEW d, NEW tree \in Ids,
         d.out = Append(c.out, Free(tree))
  PROVE  /\ \A q : \A k \in Ids : Parser(d, q, k) <=> Parser(c, q, k)
         /\ \A k \in Ids : /\ In(d.out, DoneFor(k)) <=> In(c.out, DoneFor(k))
                           /\ One(c.out, DoneFor(k)) => One(d.out, DoneFor(k))
                           /\ In(d.out, FreeOf(k)) <=> (In(c.out, FreeOf(k)) \/ k = tree)
                           /\ One(c.out, FreeOf(k)) /\ (k = tree => ~In(c.out, FreeOf(k)))
                                => One(d.out, FreeOf(k))
<1> DEFINE m == Free(tree)
<1>1. /\ m \in ToMain
      /\ \A k \in Ids : /\ m \notin DoneFor(k) /\ m \notin HandTo(k)
                        /\ m \in FreeOf(k) <=> k = tree
  BY FreeIs
<1> HIDE DEF m
<1>2. \A M : /\ In(d.out, M) <=> (In(c.out, M) \/ m \in M)
             /\ One(c.out, M) /\ (m \in M => ~In(c.out, M)) => One(d.out, M)
  BY <1>1, Parts, InAppended DEF m
<1>3. \A q : \A k \in Ids : Parser(d, q, k) <=> Parser(c, q, k)
  BY <1>1, <1>2 DEF Parser
<1>4. ASSUME NEW k \in Ids
      PROVE  /\ In(d.out, DoneFor(k)) <=> In(c.out, DoneFor(k))
             /\ One(c.out, DoneFor(k)) => One(d.out, DoneFor(k))
             /\ In(d.out, FreeOf(k)) <=> (In(c.out, FreeOf(k)) \/ k = tree)
             /\ One(c.out, FreeOf(k)) /\ (k = tree => ~In(c.out, FreeOf(k)))
                  => One(d.out, FreeOf(k))
  BY <1>1, <1>2
<1> QED
  BY <1>3, <1>4

-----------------------------------------------------------------------------
(* What the cache does with a request at hand, and with its entries.        *)

\* It is answered, its items are forgotten or not;
LEMMA ReplySound ==
  ASSUME WorldTyped, NEW c, NEW q, NEW F, Sound(c, q, F), NEW id \in Ids, id \in F,
         NEW d \in Processes, NEW m \in DoneFor(id), m.status # 0,
         d.entry = c.entry, d.jobs = c.jobs, d.spec = c.spec \/ Forgets(c, d, id),
         d.out = Append(c.out, m)
  PROVE  Sound(d, q, F \ {id})
<1>1. c \in Processes
  BY DEF Sound
<1>2. /\ \A k \in Ids : Parser(d, q, k) <=> Parser(c, q, k)
      /\ \A k \in Ids : /\ In(d.out, DoneFor(k)) <=> (In(c.out, DoneFor(k)) \/ k = id)
                        /\ One(c.out, DoneFor(k)) /\ (k = id => ~In(c.out, DoneFor(k)))
                             => One(d.out, DoneFor(k))
                        /\ In(d.out, FreeOf(k)) <=> In(c.out, FreeOf(k))
                        /\ One(c.out, FreeOf(k)) => One(d.out, FreeOf(k))
  BY <1>1, SaidDone
<1>3. /\ \A k \in DOMAIN d.spec : k \in DOMAIN c.spec /\ d.spec[k] = c.spec[k]
      /\ \A k \in DOMAIN c.spec : k # id => k \in DOMAIN d.spec /\ d.spec[k] = c.spec[k]
  BY DEF Forgets
<1>4. \A k \in Ids : Placed(c, q, F, k) /\ ParserWaits(c, q, k)
  BY DEF Sound
<1>5. \A k : Held(d, k) <=> Held(c, k)
  BY DEF Held
<1>6. ~Held(c, id)
  BY <1>4 DEF Placed
<1>7. EntriesCoherent(d)
  <2>1. \A x \in DOMAIN c.entry : \A k \in c.entry[x].ids : k # id
    BY <1>6 DEF Held
  <2> QED
    BY <1>3, <2>1 DEF Sound, EntriesCoherent
<1>8. FetchesCoherent(d)
  BY DEF Sound, FetchesCoherent
<1>9. SpecsCoherent(d, q)
  <2>1. \A k : Untried(d, k) <=> Untried(c, k)
    BY DEF Untried
  <2> QED
    BY <1>3, <2>1 DEF Sound, SpecsCoherent
<1>10. ASSUME NEW k \in Ids
       PROVE  Placed(d, q, F \ {id}, k)
  <2>1. CASE k = id
    BY <1>2, <1>4, <1>5, <2>1 DEF Placed
  <2>2. CASE k # id
    BY <1>2, <1>4, <1>5, <2>2 DEF Placed
  <2> QED
    BY <2>1, <2>2
<1>11. (\A k \in Ids : ParserWaits(d, q, k)) /\ OneParser(d, q)
  <2>1. ~Parser(c, q, id)
    BY <1>4, NotParser
  <2>2. \A k \in DOMAIN c.spec : Parser(c, q, k) =>
          k \in DOMAIN d.spec /\ d.spec[k] = c.spec[k]
    BY <1>3, <2>1
  <2>3. OneParser(c, q)
    BY DEF Sound
  <2> QED
    BY <1>2, <1>4, <2>2, <2>3, ParsersStay
<1>12. ASSUME NEW t \in Ids
       PROVE  TreePlaced(d, q, t)
  <2>1. TreePlaced(c, q, t)
    BY DEF Sound
  <2>2. One(d.out, FreeOf(t))
    BY <1>2, <2>1 DEF TreePlaced
  <2> QED
    BY <1>2, <2>1, <2>2, TreesStay
<1> QED
  BY <1>7, <1>8, <1>9, <1>10, <1>11, <1>12 DEF Sound

\* it waits for a fetch that is begun for it;
LEMMA FetchSound ==
  ASSUME WorldTyped, NEW c, NEW q, NEW F, Sound(c, q, F), NEW id \in Ids, id \in F,
         id \in DOMAIN c.spec, NEW item \in Items, Head(c.spec[id]) = item,
         item \in DOMAIN c.entry => c.entry[item].status # 0,
         NEW e \in Entries, e.status = 0, e.ids = {id}, e.lastUsed = now,
         e.tree # NoTree => item \in DOMAIN c.entry /\ e.tree = c.entry[item].tree,
         NEW d \in Processes, Puts(c, d, item, e), d.spec = c.spec, d.out = c.out,
         NEW job, job.item = item, d.jobs = c.jobs \cup {job}
  PROVE  Sound(d, q, F \ {id})
<1>1. c \in Processes /\ OneParser(c, q)
      /\ \A k \in Ids : Placed(c, q, F, k) /\ ParserWaits(c, q, k)
  BY DEF Sound
<1>2. /\ DOMAIN d.entry = DOMAIN c.entry \cup {item} /\ d.entry[item] = e
      /\ \A x \in DOMAIN c.entry : x # item => d.entry[x] = c.entry[x]
  BY DEF Puts
<1>3. /\ \A k \in Ids : Parser(d, q, k) <=> Parser(c, q, k)
      /\ \A M : (In(d.out, M) <=> In(c.out, M)) /\ (One(d.out, M) <=> One(c.out, M))
  BY QuietParser
<1>4. item \in DOMAIN c.entry => c.entry[item].ids = {}
  BY DEF Sound, EntriesCoherent
<1>5. \A k : Held(d, k) <=> (Held(c, k) \/ k = id)
  BY <1>2, <1>4 DEF Held
<1>6. EntriesCoherent(d)
  <2>1. ASSUME NEW x \in DOMAIN d.entry, x # item
        PROVE  /\ d.entry[x].status # 0 => d.entry[x].ids = {}
               /\ d.entry[x].status = 0 => now <= d.entry[x].lastUsed + FetchTime
               /\ IsFiniteSet(d.entry[x].ids)
               /\ \A k \in d.entry[x].ids : k \in DOMAIN d.spec /\ Head(d.spec[k]) = x
    BY <1>2, <2>1 DEF Sound, EntriesCoherent
  <2>2. IsFiniteSet({id}) /\ now <= now + FetchTime
    <3>1. FetchTime \in Nat /\ now \in Nat
      BY HttpCacheAssumption DEF WorldTyped
    <3>2. now <= now + FetchTime
      BY <3>1
    <3> QED
      BY <3>2, FS_Singleton
  <2> QED
    BY <1>2, <2>1, <2>2 DEF EntriesCoherent
<1>7. FetchesCoherent(d)
  <2>1. IsFiniteSet(d.jobs) /\ IsFiniteSet(DOMAIN d.entry)
    <3>1. IsFiniteSet(c.jobs) /\ IsFiniteSet(DOMAIN c.entry)
      BY DEF Sound, FetchesCoherent
    <3>2. IsFiniteSet(c.jobs \cup {job}) /\ IsFiniteSet(DOMAIN c.entry \cup {item})
      BY <3>1, FS_AddElement
    <3> QED
      BY <1>2, <3>2
  <2>2. \A j \in c.jobs : j.item \in DOMAIN c.entry /\ c.entry[j.item].status = 0
    BY DEF Sound, FetchesCoherent
  <2>3. \A j \in c.jobs : j.item # item /\ j.item \in DOMAIN d.entry
                          /\ d.entry[j.item].status = 0
    BY <1>2, <2>2
  <2>4. \A j, k \in d.jobs : j.item = k.item => j = k
    BY <2>3 DEF Sound, FetchesCoherent
  <2>5. \A j \in d.jobs : j.item \in DOMAIN d.entry /\ d.entry[j.item].status = 0
    BY <1>2, <2>3
  <2> QED
    BY <2>1, <2>4, <2>5 DEF FetchesCoherent
<1>8. SpecsCoherent(d, q)
  <2>1. \/ c.spec[id] = RequestSpec(id) /\ Untried(c, id)
        \/ c.spec[id] = <<FallbackOf(id)>> /\ want[id].fallback
    BY DEF Sound, SpecsCoherent
  <2>2. item = ItemOf(id) \/ (item = FallbackOf(id) /\ c.spec[id] = <<FallbackOf(id)>>
                                                /\ want[id].fallback)
    BY <2>1, ItemsOf
  <2>3. \A k \in Ids : k # id => (Untried(d, k) <=> Untried(c, k))
    BY <1>2, <2>2, ItemsOf DEF Untried
  <2>4. \/ d.spec[id] = RequestSpec(id) /\ Untried(d, id)
        \/ d.spec[id] = <<FallbackOf(id)>> /\ want[id].fallback
    <3>1. CASE item = ItemOf(id)
      <4>1. Untried(c, id) => Untried(d, id)
        BY <1>2, <3>1, ItemsOf DEF Untried
      <4> QED
        BY <2>1, <4>1
    <3> QED
      BY <2>2, <3>1
  <2>5. \A k \in DOMAIN c.spec : k \in Ids
    BY <1>1, Parts
  <2>6. ASSUME NEW k \in DOMAIN d.spec
        PROVE  \/ d.spec[k] = RequestSpec(k) /\ Untried(d, k)
               \/ d.spec[k] = <<FallbackOf(k)>> /\ want[k].fallback
    <3>1. CASE k = id
      BY <2>4, <3>1
    <3>2. CASE k # id
      BY <2>3, <2>5, <3>2 DEF Sound, SpecsCoherent
    <3> QED
      BY <3>1, <3>2
  <2>7. ASSUME NEW k \in Ids, thread[k] = "idle" \/ In(q, ReqFrom(k))
        PROVE  k \notin DOMAIN d.spec /\ Untried(d, k)
    BY <2>3, <2>7 DEF Sound, SpecsCoherent
  <2> QED
    BY <2>6, <2>7 DEF SpecsCoherent
<1>9. ASSUME NEW k \in Ids
      PROVE  Placed(d, q, F \ {id}, k)
  <2>1. CASE k = id
    BY <1>1, <1>3, <1>5, <2>1 DEF Placed
  <2>2. CASE k # id
    BY <1>1, <1>3, <1>5, <2>2 DEF Placed
  <2> QED
    BY <2>1, <2>2
<1>10. (\A k \in Ids : ParserWaits(d, q, k)) /\ OneParser(d, q)
  <2>1. \A x \in DOMAIN c.entry : c.entry[x].status = 0 /\ c.entry[x].tree = NoTree =>
           x \in DOMAIN d.entry /\ d.entry[x].status = 0 /\ d.entry[x].tree = NoTree
    BY <1>2
  <2>2. \A k \in Ids : Parser(c, q, k) => Head(c.spec[k]) # item
    BY <1>1 DEF ParserWaits
  <2>3. \A j \in d.jobs : \/ j \in c.jobs
                          \/ \A k \in Ids : Parser(c, q, k) => Head(c.spec[k]) # j.item
    BY <2>2
  <2> QED
    BY <1>1, <1>3, <2>1, <2>3, ParsersStay
<1>11. ASSUME NEW t \in Ids
       PROVE  TreePlaced(d, q, t)
  <2>1. TreePlaced(c, q, t)
    BY DEF Sound
  <2>2. One(d.out, FreeOf(t))
    BY <1>3, <2>1 DEF TreePlaced
  <2>3. NoTree # t
    BY HttpCacheAssumption DEF NoTree
  <2>4. \A x \in DOMAIN d.entry : d.entry[x].tree = t =>
           x \in DOMAIN c.entry /\ c.entry[x].tree = t
    BY <1>2, <2>3
  <2> QED
    BY <1>3, <2>1, <2>2, <2>4, TreesStay
<1> QED
  BY <1>6, <1>7, <1>8, <1>9, <1>10, <1>11 DEF Sound

\* or it waits for one that runs, or for a parse.
LEMMA JoinSound ==
  ASSUME WorldTyped, NEW c, NEW q, NEW F, Sound(c, q, F), NEW id \in Ids, id \in F,
         id \in DOMAIN c.spec, NEW item \in DOMAIN c.entry, Head(c.spec[id]) = item,
         c.entry[item].status = 0,
         NEW e \in Entries, e.status = 0, e.ids = c.entry[item].ids \cup {id},
         e.lastUsed = c.entry[item].lastUsed, e.tree = c.entry[item].tree,
         NEW d \in Processes, Puts(c, d, item, e), d.spec = c.spec, d.out = c.out,
         d.jobs = c.jobs
  PROVE  Sound(d, q, F \ {id})
<1>1. c \in Processes /\ OneParser(c, q)
      /\ \A k \in Ids : Placed(c, q, F, k) /\ ParserWaits(c, q, k)
  BY DEF Sound
<1>2. /\ DOMAIN d.entry = DOMAIN c.entry /\ d.entry[item] = e
      /\ \A x \in DOMAIN c.entry : x # item => d.entry[x] = c.entry[x]
  BY DEF Puts
<1>3. /\ \A k \in Ids : Parser(d, q, k) <=> Parser(c, q, k)
      /\ \A M : (In(d.out, M) <=> In(c.out, M)) /\ (One(d.out, M) <=> One(c.out, M))
  BY QuietParser
<1>5. \A k : Held(d, k) <=> (Held(c, k) \/ k = id)
  BY <1>2 DEF Held
<1>6. EntriesCoherent(d)
  <2>1. ASSUME NEW x \in DOMAIN d.entry, x # item
        PROVE  /\ d.entry[x].status # 0 => d.entry[x].ids = {}
               /\ d.entry[x].status = 0 => now <= d.entry[x].lastUsed + FetchTime
               /\ IsFiniteSet(d.entry[x].ids)
               /\ \A k \in d.entry[x].ids : k \in DOMAIN d.spec /\ Head(d.spec[k]) = x
    BY <1>2, <2>1 DEF Sound, EntriesCoherent
  <2>2. /\ now <= e.lastUsed + FetchTime /\ IsFiniteSet(c.entry[item].ids)
        /\ \A k \in c.entry[item].ids : k \in DOMAIN d.spec /\ Head(d.spec[k]) = item
    BY DEF Sound, EntriesCoherent
  <2>3. IsFiniteSet(e.ids)
    BY <2>2, FS_AddElement
  <2> QED
    BY <1>2, <2>1, <2>2, <2>3 DEF EntriesCoherent
<1>7. FetchesCoherent(d)
  BY <1>2 DEF Sound, FetchesCoherent
<1>8. SpecsCoherent(d, q)
  <2>1. \A k : Untried(d, k) <=> Untried(c, k)
    BY <1>2 DEF Untried
  <2> QED
    BY <2>1 DEF Sound, SpecsCoherent
<1>9. ASSUME NEW k \in Ids
      PROVE  Placed(d, q, F \ {id}, k)
  <2>1. CASE k = id
    BY <1>1, <1>3, <1>5, <2>1 DEF Placed
  <2>2. CASE k # id
    BY <1>1, <1>3, <1>5, <2>2 DEF Placed
  <2> QED
    BY <2>1, <2>2
<1>10. (\A k \in Ids : ParserWaits(d, q, k)) /\ OneParser(d, q)
  <2>1. \A x \in DOMAIN c.entry : c.entry[x].status = 0 /\ c.entry[x].tree = NoTree =>
           x \in DOMAIN d.entry /\ d.entry[x].status = 0 /\ d.entry[x].tree = NoTree
    BY <1>2
  <2> QED
    BY <1>1, <1>3, <2>1, ParsersStay
<1>11. ASSUME NEW t \in Ids
       PROVE  TreePlaced(d, q, t)
  <2>1. TreePlaced(c, q, t)
    BY DEF Sound
  <2>2. One(d.out, FreeOf(t))
    BY <1>3, <2>1 DEF TreePlaced
  <2>4. \A x \in DOMAIN d.entry : d.entry[x].tree = t =>
           x \in DOMAIN c.entry /\ c.entry[x].tree = t
    BY <1>2
  <2> QED
    BY <1>3, <2>1, <2>2, <2>4, TreesStay
<1> QED
  BY <1>6, <1>7, <1>8, <1>9, <1>10, <1>11 DEF Sound

\* An entry that is there, or failed, is dropped, and its tree forgotten,
LEMMA DropSound ==
  ASSUME WorldTyped, NEW c, NEW q, NEW F, Sound(c, q, F),
         NEW item \in DOMAIN c.entry, c.entry[item].status # 0,
         NEW d \in Processes, Drops(c, d, item), d.spec = c.spec, d.jobs = c.jobs,
         \/ d.out = c.out
         \/ c.entry[item].tree \in Ids /\ d.out = Append(c.out, Free(c.entry[item].tree))
  PROVE  Sound(d, q, F)
<1>1. c \in Processes /\ OneParser(c, q)
      /\ \A k \in Ids : Placed(c, q, F, k) /\ ParserWaits(c, q, k)
  BY DEF Sound
<1>2. /\ DOMAIN d.entry = DOMAIN c.entry \ {item}
      /\ \A x \in DOMAIN d.entry : d.entry[x] = c.entry[x]
  BY DEF Drops
<1>3. c.entry[item].ids = {}
  BY DEF Sound, EntriesCoherent
<1>4. \A k : Held(d, k) <=> Held(c, k)
  BY <1>2, <1>3 DEF Held
<1>5. /\ \A k \in Ids : Parser(d, q, k) <=> Parser(c, q, k)
      /\ \A k \in Ids : /\ In(d.out, DoneFor(k)) <=> In(c.out, DoneFor(k))
                        /\ One(c.out, DoneFor(k)) => One(d.out, DoneFor(k))
  <2>1. CASE d.out = c.out
    BY <2>1, QuietParser
  <2>2. CASE c.entry[item].tree \in Ids /\ d.out = Append(c.out, Free(c.entry[item].tree))
    BY ZenonT(60), <1>1, <2>2, SaidFree
  <2> QED
    BY <2>1, <2>2
<1>6. EntriesCoherent(d)
  BY <1>2 DEF Sound, EntriesCoherent
<1>7. FetchesCoherent(d)
  <2>1. IsFiniteSet(DOMAIN c.entry)
    BY DEF Sound, FetchesCoherent
  <2>2. IsFiniteSet(DOMAIN d.entry)
    BY <1>2, <2>1, FS_RemoveElement
  <2> QED
    BY <1>2, <2>2 DEF Sound, FetchesCoherent
<1>8. SpecsCoherent(d, q)
  <2>1. \A k : Untried(c, k) => Untried(d, k)
    BY <1>2 DEF Untried
  <2> QED
    BY <2>1 DEF Sound, SpecsCoherent
<1>9. \A k \in Ids : Placed(d, q, F, k)
  BY <1>1, <1>4, <1>5 DEF Placed
<1>10. (\A k \in Ids : ParserWaits(d, q, k)) /\ OneParser(d, q)
  <2>1. \A x \in DOMAIN c.entry : c.entry[x].status = 0 /\ c.entry[x].tree = NoTree =>
           x \in DOMAIN d.entry /\ d.entry[x].status = 0 /\ d.entry[x].tree = NoTree
    BY <1>2
  <2> QED
    BY <1>1, <1>5, <2>1, ParsersStay
<1>11. ASSUME NEW t \in Ids
       PROVE  TreePlaced(d, q, t)
  <2>1. TreePlaced(c, q, t)
    BY DEF Sound
  <2>2. \A x \in DOMAIN d.entry : d.entry[x].tree = t =>
           x \in DOMAIN c.entry /\ c.entry[x].tree = t /\ x # item
    BY <1>2
  <2>3. CASE d.out = c.out
    BY <2>1, <2>2, <2>3, QuietParser, TreesStay DEF TreePlaced
  <2>4. CASE c.entry[item].tree \in Ids /\ d.out = Append(c.out, Free(c.entry[item].tree))
    <3>1. /\ In(d.out, FreeOf(t)) <=> (In(c.out, FreeOf(t)) \/ t = c.entry[item].tree)
          /\ One(c.out, FreeOf(t)) /\ (t = c.entry[item].tree => ~In(c.out, FreeOf(t)))
               => One(d.out, FreeOf(t))
      BY ZenonT(60), <1>1, <2>4, SaidFree
    <3>2. CASE t = c.entry[item].tree
      <4>1. Kept(c, t)
        BY <3>2 DEF Kept
      <4>2. /\ ~In(q, TreeIn(t)) /\ ~In(c.out, FreeOf(t)) /\ t \notin freed
            /\ thread[t] = "ended"
        BY <2>1, <4>1 DEF TreePlaced
      <4>3. \A x \in DOMAIN d.entry : d.entry[x].tree # t
        BY <2>1, <2>2, <3>2 DEF TreePlaced
      <4>4. ~Kept(d, t)
        BY <4>3 DEF Kept
      <4> QED
        BY <2>1, <3>1, <4>2, <4>3, <4>4 DEF TreePlaced
    <3>3. CASE t # c.entry[item].tree
      <4>1. One(d.out, FreeOf(t)) /\ (In(d.out, FreeOf(t)) <=> In(c.out, FreeOf(t)))
        BY <2>1, <3>1, <3>3 DEF TreePlaced
      <4> QED
        BY <2>1, <2>2, <4>1, TreesStay
    <3> QED
      BY <3>2, <3>3
  <2> QED
    BY <2>3, <2>4
<1> QED
  BY <1>6, <1>7, <1>8, <1>9, <1>10, <1>11 DEF Sound

LEMMA RemoveSound ==
  ASSUME WorldTyped, NEW c, NEW q, NEW F, Sound(c, q, F),
         NEW item \in DOMAIN c.entry, c.entry[item].status # 0
  PROVE  LET d == RemoveEntry(c, item)
         IN  /\ Sound(d, q, F) /\ Drops(c, d, item)
             /\ d.spec = c.spec /\ d.jobs = c.jobs
<1>1. c \in Processes
  BY DEF Sound
<1> DEFINE tree == c.entry[item].tree
           told == Tell(c, Free(tree))
<1>2. tree \in Trees
  BY <1>1, Parts DEF Entries
<1>3. CASE tree = NoTree
  <2>1. PICK d : d = DropEntry(c, item)
    OBVIOUS
  <2>2. /\ d \in Processes /\ Drops(c, d, item) /\ d.spec = c.spec
        /\ d.jobs = c.jobs /\ d.out = c.out
    BY <1>1, <2>1, DropIs
  <2>3. Sound(d, q, F)
    BY <2>2, DropSound
  <2> QED
    BY <1>3, <2>1, <2>2, <2>3 DEF RemoveEntry
<1>4. CASE tree # NoTree
  <2>1. PICK d : d = DropEntry(told, item)
    OBVIOUS
  <2>2. tree \in Ids /\ Free(tree) \in ToMain
    BY <1>2, <1>4, FreeIs DEF Trees
  <2>3. /\ told \in Processes /\ told.entry = c.entry /\ told.spec = c.spec
        /\ told.jobs = c.jobs /\ told.out = Append(c.out, Free(tree))
    BY <1>1, <2>2, TellIs
  <2> HIDE DEF told
  <2>4. /\ d \in Processes /\ Drops(told, d, item) /\ d.spec = told.spec
        /\ d.jobs = told.jobs /\ d.out = told.out
    BY <2>1, <2>3, DropIs
  <2>5. Drops(c, d, item)
    BY <2>3, <2>4 DEF Drops
  <2>6. Sound(d, q, F)
    BY <2>2, <2>3, <2>4, <2>5, DropSound
  <2>7. RemoveEntry(c, item) = d
    BY <1>4, <2>1 DEF RemoveEntry, told
  <2> QED
    BY <2>3, <2>4, <2>5, <2>6, <2>7
<1> QED
  BY <1>3, <1>4

\* or noted: it is still there.
LEMMA EditSound ==
  ASSUME WorldTyped, NEW c, NEW q, NEW F, Sound(c, q, F),
         NEW item \in DOMAIN c.entry, c.entry[item].status # 0,
         NEW e \in Entries, e.status # 0, e.ids = {}, e.tree = c.entry[item].tree,
         NEW d \in Processes, Puts(c, d, item, e), d.spec = c.spec, d.out = c.out,
         d.jobs = c.jobs
  PROVE  Sound(d, q, F)
<1>1. c \in Processes /\ OneParser(c, q)
      /\ \A k \in Ids : Placed(c, q, F, k) /\ ParserWaits(c, q, k)
  BY DEF Sound
<1>2. /\ DOMAIN d.entry = DOMAIN c.entry /\ d.entry[item] = e
      /\ \A x \in DOMAIN c.entry : x # item => d.entry[x] = c.entry[x]
  BY DEF Puts
<1>3. /\ \A k \in Ids : Parser(d, q, k) <=> Parser(c, q, k)
      /\ \A M : (In(d.out, M) <=> In(c.out, M)) /\ (One(d.out, M) <=> One(c.out, M))
  BY QuietParser
<1>4. c.entry[item].ids = {}
  BY DEF Sound, EntriesCoherent
<1>5. \A k : Held(d, k) <=> Held(c, k)
  BY <1>2, <1>4 DEF Held
<1>6. EntriesCoherent(d)
  <2>1. ASSUME NEW x \in DOMAIN d.entry, x # item
        PROVE  /\ d.entry[x].status # 0 => d.entry[x].ids = {}
               /\ d.entry[x].status = 0 => now <= d.entry[x].lastUsed + FetchTime
               /\ IsFiniteSet(d.entry[x].ids)
               /\ \A k \in d.entry[x].ids : k \in DOMAIN d.spec /\ Head(d.spec[k]) = x
    BY <1>2, <2>1 DEF Sound, EntriesCoherent
  <2>2. IsFiniteSet(e.ids)
    BY FS_EmptySet
  <2> QED
    BY <1>2, <2>1, <2>2 DEF EntriesCoherent
<1>7. FetchesCoherent(d)
  BY <1>2 DEF Sound, FetchesCoherent
<1>8. SpecsCoherent(d, q)
  <2>1. \A k : Untried(d, k) <=> Untried(c, k)
    BY <1>2 DEF Untried
  <2> QED
    BY <2>1 DEF Sound, SpecsCoherent
<1>9. \A k \in Ids : Placed(d, q, F, k)
  BY <1>1, <1>3, <1>5 DEF Placed
<1>10. (\A k \in Ids : ParserWaits(d, q, k)) /\ OneParser(d, q)
  <2>1. \A x \in DOMAIN c.entry : c.entry[x].status = 0 /\ c.entry[x].tree = NoTree =>
           x \in DOMAIN d.entry /\ d.entry[x].status = 0 /\ d.entry[x].tree = NoTree
    BY <1>2
  <2> QED
    BY <1>1, <1>3, <2>1, ParsersStay
<1>11. ASSUME NEW t \in Ids
       PROVE  TreePlaced(d, q, t)
  <2>1. TreePlaced(c, q, t)
    BY DEF Sound
  <2>2. One(d.out, FreeOf(t))
    BY <1>3, <2>1 DEF TreePlaced
  <2>4. \A x \in DOMAIN d.entry : d.entry[x].tree = t =>
           x \in DOMAIN c.entry /\ c.entry[x].tree = t
    BY <1>2
  <2> QED
    BY <1>3, <2>1, <2>2, <2>4, TreesStay
<1> QED
  BY <1>6, <1>7, <1>8, <1>9, <1>10, <1>11 DEF Sound

\* A request at hand is given other items: all of them, or its fallback.
LEMMA SpecSound ==
  ASSUME WorldTyped, NEW c, NEW q, NEW F, Sound(c, q, F), NEW id \in Ids, id \in F,
         NEW d \in Processes, DOMAIN d.spec = DOMAIN c.spec \cup {id},
         \A x \in DOMAIN c.spec : x # id => d.spec[x] = c.spec[x],
         d.entry = c.entry, d.jobs = c.jobs, d.out = c.out,
         thread[id] # "idle",
         \/ d.spec[id] = RequestSpec(id) /\ Untried(c, id)
         \/ d.spec[id] = <<FallbackOf(id)>> /\ want[id].fallback
  PROVE  Sound(d, q, F)
<1>1. c \in Processes /\ OneParser(c, q)
      /\ \A k \in Ids : Placed(c, q, F, k) /\ ParserWaits(c, q, k)
  BY DEF Sound
<1>2. ~Held(c, id) /\ ~In(q, ReqFrom(id)) /\ ~Parser(c, q, id)
  BY <1>1, NotParser DEF Placed
<1>3. /\ \A k \in Ids : Parser(d, q, k) <=> Parser(c, q, k)
      /\ \A M : (In(d.out, M) <=> In(c.out, M)) /\ (One(d.out, M) <=> One(c.out, M))
  BY QuietParser
<1>4. \A k : Held(d, k) <=> Held(c, k)
  BY DEF Held
<1>5. \A k : Untried(d, k) <=> Untried(c, k)
  BY DEF Untried
<1>6. EntriesCoherent(d)
  <2>1. \A x \in DOMAIN c.entry : \A k \in c.entry[x].ids : k # id
    BY <1>2 DEF Held
  <2> QED
    BY <2>1 DEF Sound, EntriesCoherent
<1>7. FetchesCoherent(d)
  BY DEF Sound, FetchesCoherent
<1>8. SpecsCoherent(d, q)
  <2>1. ASSUME NEW k \in DOMAIN d.spec
        PROVE  \/ d.spec[k] = RequestSpec(k) /\ Untried(d, k)
               \/ d.spec[k] = <<FallbackOf(k)>> /\ want[k].fallback
    <3>1. CASE k = id
      BY <1>5, <3>1
    <3>2. CASE k # id
      BY <1>5, <3>2 DEF Sound, SpecsCoherent
    <3> QED
      BY <3>1, <3>2
  <2>2. ASSUME NEW k \in Ids, thread[k] = "idle" \/ In(q, ReqFrom(k))
        PROVE  k \notin DOMAIN d.spec /\ Untried(d, k)
    BY <1>2, <1>5, <2>2 DEF Sound, SpecsCoherent
  <2> QED
    BY <2>1, <2>2 DEF SpecsCoherent
<1>9. \A k \in Ids : Placed(d, q, F, k)
  BY <1>1, <1>3, <1>4 DEF Placed
<1>10. (\A k \in Ids : ParserWaits(d, q, k)) /\ OneParser(d, q)
  <2>1. \A k \in DOMAIN c.spec : Parser(c, q, k) =>
          k \in DOMAIN d.spec /\ d.spec[k] = c.spec[k]
    BY <1>2
  <2> QED
    BY <1>1, <1>3, <2>1, ParsersStay
<1>11. ASSUME NEW t \in Ids
       PROVE  TreePlaced(d, q, t)
  <2>1. TreePlaced(c, q, t)
    BY DEF Sound
  <2>2. One(d.out, FreeOf(t))
    BY <1>3, <2>1 DEF TreePlaced
  <2> QED
    BY <1>3, <2>1, <2>2, TreesStay
<1> QED
  BY <1>6, <1>7, <1>8, <1>9, <1>10, <1>11 DEF Sound

-----------------------------------------------------------------------------
(* The operations of the process.                                           *)

\* The items of other requests are kept.
Spares(c, d, id) == \A k \in DOMAIN c.spec : k # id => k \in DOMAIN d.spec

LEMMA FreePidIs ==
  ASSUME NEW c \in Processes, IsFiniteSet(c.jobs)
  PROVE  FreePid(c) \in Nat
<1> DEFINE n == Cardinality(c.jobs)
           pids == {job.pid : job \in c.jobs}
           f == [pid \in 1..n + 1 |-> CHOOSE job \in c.jobs : job.pid = pid]
<1>1. n \in Nat
  BY FS_CardinalityType
<1>2. IsFiniteSet(1..n + 1) /\ Cardinality(1..n + 1) = n + 1 /\ n < n + 1
  BY <1>1, FS_Interval
<1>3. ASSUME \A pid \in 1..n + 1 : pid \in pids
      PROVE  FALSE
  <2>1. \A pid \in 1..n + 1 : f[pid] \in c.jobs /\ f[pid].pid = pid
    BY <1>3
  <2>2. f \in [1..n + 1 -> c.jobs]
    BY <2>1
  <2> HIDE DEF f
  <2>3. \E x, y \in 1..n + 1 : x # y /\ f[x] = f[y]
    BY <1>2, <2>2, FS_PigeonHole
  <2> QED
    BY <2>1, <2>3
<1>4. \E pid \in 1..n + 1 : pid \notin pids
  BY <1>3
<1>5. FreePid(c) \in 1..n + 1
  BY <1>4 DEF FreePid
<1> QED
  BY <1>1, <1>5

LEMMA NewEntryIs ==
  ASSUME WorldTyped, NEW c \in Processes, NEW id \in Ids, NEW item \in Items
  PROVE  LET e == Started(c, id, item)
         IN  /\ e \in Entries /\ e.status = 0 /\ e.ids = {id} /\ e.lastUsed = now
             /\ e.tree # NoTree => item \in DOMAIN c.entry /\ e.tree = c.entry[item].tree
<1> DEFINE new == NewEntry(id)
<1>1. (want[id].usage = "v") \in BOOLEAN /\ now \in 0..MaxNow /\ NoTree \in Trees
  BY DEF WorldTyped, Trees
<1>2. /\ new \in Entries /\ new.status = 0 /\ new.ids = {id}
      /\ new.lastUsed = now /\ new.tree = NoTree
  BY <1>1 DEF NewEntry, Entries
<1> HIDE DEF new
<1>3. CASE item \in DOMAIN c.entry
  <2>1. c.entry[item] \in Entries
    BY <1>3, Parts
  <2>2. c.entry[item].parse \in BOOLEAN /\ c.entry[item].tree \in Trees
    BY <2>1 DEF Entries
  <2>3. PICK p, t : p = c.entry[item].parse /\ t = c.entry[item].tree
    OBVIOUS
  <2>4. PICK e : e = [new EXCEPT !.parse = p, !.tree = t]
    OBVIOUS
  <2>5. /\ e \in Entries /\ e.status = 0 /\ e.ids = {id}
        /\ e.lastUsed = now /\ e.tree = t
    BY <1>2, <2>2, <2>3, <2>4 DEF Entries
  <2>6. Started(c, id, item) = e
    BY <1>3, <2>3, <2>4 DEF Started, new
  <2> QED
    BY <1>3, <2>3, <2>5, <2>6
<1>4. CASE item \notin DOMAIN c.entry
  <2>1. Started(c, id, item) = new
    BY <1>4 DEF Started, new
  <2> QED
    BY <1>2, <2>1
<1> QED
  BY <1>3, <1>4

LEMMA ReplyIs ==
  ASSUME WorldTyped, NEW c, NEW q, NEW F, Sound(c, q, F), NEW id \in Ids, id \in F,
         NEW status \in {-1, 1}
  PROVE  /\ Sound(Reply(c, id, status), q, F \ {id})
         /\ Spares(c, Reply(c, id, status), id)
         /\ Sound(Tell(c, Done(id, status, NoTree)), q, F \ {id})
         /\ Spares(c, Tell(c, Done(id, status, NoTree)), id)
<1>1. c \in Processes
  BY DEF Sound
<1>2. PICK m : m = Done(id, status, NoTree)
  OBVIOUS
<1>3. m \in ToMain /\ m \in DoneFor(id) /\ m.status # 0
  <2>1. NoTree \in Trees /\ status \in {-1, 0, 1} /\ status # 0
    BY DEF Trees
  <2>2. m \in ToMain /\ m \in DoneFor(id)
    BY <1>2, <2>1, DoneIs
  <2>3. m.status = status
    BY <1>2 DEF Done, Message
  <2> QED
    BY <2>1, <2>2, <2>3
<1>4. PICK f : f = Forget(c, id)
  OBVIOUS
<1>5. /\ f \in Processes /\ Forgets(c, f, id) /\ f.entry = c.entry
      /\ f.jobs = c.jobs /\ f.out = c.out
  BY <1>1, <1>4, ForgetIs
<1>6. PICK d : d = Tell(f, m)
  OBVIOUS
<1>7. /\ d \in Processes /\ d.entry = f.entry /\ d.spec = f.spec
      /\ d.jobs = f.jobs /\ d.out = Append(f.out, m)
  BY <1>3, <1>5, <1>6, TellIs
<1>8. Forgets(c, d, id) /\ Spares(c, d, id)
  BY <1>5, <1>7 DEF Forgets, Spares
<1>9. Sound(d, q, F \ {id})
  BY <1>3, <1>5, <1>7, <1>8, ReplySound
<1>10. PICK g : g = Tell(c, m)
  OBVIOUS
<1>11. /\ g \in Processes /\ g.entry = c.entry /\ g.spec = c.spec
       /\ g.jobs = c.jobs /\ g.out = Append(c.out, m)
  BY <1>1, <1>3, <1>10, TellIs
<1>12. Sound(g, q, F \ {id}) /\ Spares(c, g, id)
  BY <1>3, <1>11, ReplySound DEF Spares
<1> QED
  BY <1>2, <1>4, <1>6, <1>8, <1>9, <1>10, <1>12 DEF Reply

LEMMA StartJobSound ==
  ASSUME WorldTyped, NEW c, NEW q, NEW F, Sound(c, q, F), NEW id \in Ids, id \in F,
         id \in DOMAIN c.spec, NEW item \in Items, Head(c.spec[id]) = item,
         item \in DOMAIN c.entry => c.entry[item].status # 0,
         NEW fault \in Faults
  PROVE  /\ Sound(StartJob(c, id, item, fault), q, F \ {id})
         /\ Spares(c, StartJob(c, id, item, fault), id)
<1>1. c \in Processes
  BY DEF Sound
<1>2. CASE fault = "mkpath"
  BY <1>2, ReplyIs DEF StartJob
<1>3. CASE fault = "fork"
  BY <1>3, ReplyIs DEF StartJob
<1>4. CASE fault = "none"
  <2>1. PICK e : e = Started(c, id, item)
    OBVIOUS
  <2>2. /\ e \in Entries /\ e.status = 0 /\ e.ids = {id} /\ e.lastUsed = now
        /\ e.tree # NoTree => item \in DOMAIN c.entry /\ e.tree = c.entry[item].tree
    BY <1>1, <2>1, NewEntryIs
  <2>3. PICK b : b = [c EXCEPT !.entry = With(@, item, e)]
    OBVIOUS
  <2>4. /\ b \in Processes /\ Puts(c, b, item, e) /\ b.spec = c.spec
        /\ b.jobs = c.jobs /\ b.out = c.out
    BY <1>1, <2>2, <2>3, PutIs
  <2>5. PICK job : job = [pid |-> FreePid(c), item |-> item,
                          known |-> item \in DOMAIN c.entry]
    OBVIOUS
  <2>6. job \in Jobs /\ job.item = item
    <3>1. FreePid(c) \in Nat
      BY <1>1, FreePidIs DEF Sound, FetchesCoherent
    <3>2. (item \in DOMAIN c.entry) \in BOOLEAN
      OBVIOUS
    <3> QED
      BY <2>5, <3>1, <3>2 DEF Jobs
  <2>7. PICK d : d = [b EXCEPT !.jobs = c.jobs \cup {job}]
    OBVIOUS
  <2>8. c.jobs \cup {job} \in SUBSET Jobs
    BY <1>1, <2>6, Parts
  <2>9. /\ d \in Processes /\ d.entry = b.entry /\ d.spec = b.spec
        /\ d.jobs = c.jobs \cup {job} /\ d.out = b.out
    BY <2>4, <2>7, <2>8, JobsIs
  <2>10. Puts(c, d, item, e)
    BY <2>4, <2>9 DEF Puts
  <2>11. Sound(d, q, F \ {id})
    BY <2>2, <2>4, <2>6, <2>9, <2>10, FetchSound
  <2>12. StartJob(c, id, item, fault) = d
    <3>1. StartJob(c, id, item, fault) =
            [c EXCEPT !.entry = With(@, item, e), !.jobs = @ \cup {job}]
      BY <1>4, <2>1, <2>5 DEF StartJob
    <3>2. [c EXCEPT !.entry = With(@, item, e), !.jobs = @ \cup {job}] = d
      BY <1>1, <2>3, <2>7 DEF Processes
    <3> QED
      BY <3>1, <3>2
  <2> QED
    BY <2>4, <2>9, <2>11, <2>12 DEF Spares
<1> QED
  BY <1>2, <1>3, <1>4, HttpCacheAssumption

LEMMA NextItemSound ==
  ASSUME WorldTyped, NEW c, NEW q, NEW F, Sound(c, q, F), NEW id \in Ids, id \in F,
         id \in DOMAIN c.spec, NEW fault \in Faults
  PROVE  /\ Sound(NextItem(c, id, fault), q, F \ {id})
         /\ Spares(c, NextItem(c, id, fault), id)
<1>1. c \in Processes /\ Placed(c, q, F, id)
  BY DEF Sound
<1>2. PICK rest : rest = Tail(c.spec[id])
  OBVIOUS
<1>3. CASE rest = <<>>
  BY <1>2, <1>3, ReplyIs DEF NextItem
<1>4. CASE rest # <<>>
  <2>1. \/ c.spec[id] = RequestSpec(id) /\ Untried(c, id)
        \/ c.spec[id] = <<FallbackOf(id)>>
    BY DEF Sound, SpecsCoherent
  <2>2. Tail(<<FallbackOf(id)>>) = <<>>
    OBVIOUS
  <2>3. /\ Untried(c, id) /\ rest = <<FallbackOf(id)>> /\ want[id].fallback
    BY <1>2, <1>4, <2>1, <2>2, ItemsOf
  <2>4. thread[id] # "idle"
    BY <1>1 DEF Placed
  <2>5. FallbackOf(id) \in Items /\ rest \in Seq(Items) \ {<<>>}
        /\ Head(rest) = FallbackOf(id)
    BY <2>3, ItemsOf
  <2>6. PICK b : b = [c EXCEPT !.spec[id] = rest]
    OBVIOUS
  <2>7. /\ b \in Processes /\ DOMAIN b.spec = DOMAIN c.spec
        /\ b.spec[id] = rest
        /\ \A x \in DOMAIN c.spec : x # id => b.spec[x] = c.spec[x]
        /\ b.entry = c.entry /\ b.jobs = c.jobs /\ b.out = c.out
    BY <1>1, <2>5, <2>6, NextIs
  <2>8. Sound(b, q, F)
    <3>1. DOMAIN b.spec = DOMAIN c.spec \cup {id}
      BY <2>7
    <3>2. b.spec[id] = <<FallbackOf(id)>> /\ want[id].fallback
      BY <2>3, <2>7
    <3> QED
      BY <2>4, <2>7, <3>1, <3>2, SpecSound
  <2>9. FallbackOf(id) \notin DOMAIN b.entry
    BY <2>3, <2>7, ItemsOf DEF Untried
  <2>10. /\ Sound(StartJob(b, id, FallbackOf(id), fault), q, F \ {id})
         /\ Spares(b, StartJob(b, id, FallbackOf(id), fault), id)
    BY <2>5, <2>7, <2>8, <2>9, StartJobSound
  <2>11. NextItem(c, id, fault) = StartJob(b, id, FallbackOf(id), fault)
    BY <1>2, <1>4, <2>5, <2>6 DEF NextItem
  <2> QED
    BY <2>7, <2>10, <2>11 DEF Spares
<1> QED
  BY <1>3, <1>4

\* A request is dealt with when it comes.
LEMMA RequestSound ==
  ASSUME WorldTyped, NEW c, NEW q, NEW F, Sound(c, q, F), NEW id \in Ids, id \in F,
         id \in DOMAIN c.spec, NEW fault \in Faults
  PROVE  Sound(ProcessNextRequestItem(c, id, fault), q, F \ {id})
<1> DEFINE d == ProcessNextRequestItem(c, id, fault)
<1>1. c \in Processes
  BY DEF Sound
<1>2. PICK item : item = Head(c.spec[id])
  OBVIOUS
<1>3. item \in Items
  BY <1>1, <1>2, Parts
<1>4. CASE item \notin DOMAIN c.entry
  <2>1. d = StartJob(c, id, item, fault)
    BY <1>2, <1>4 DEF ProcessNextRequestItem
  <2> QED
    BY <1>2, <1>3, <1>4, <2>1, StartJobSound
<1>5. CASE item \in DOMAIN c.entry
  <2>1. PICK e : e = c.entry[item]
    OBVIOUS
  <2>2. e \in Entries /\ e.status \in {-1, 0, 1}
    BY <1>1, <1>5, <2>1, Parts DEF Entries
  <2>3. CASE RetryDue(e)
    <3>1. d = StartJob(DropEntry(c, item), id, item, fault)
      <4>1. e.status = -1
        BY <2>3 DEF RetryDue
      <4>2. e.status # 0 /\ e.status # 1
        BY <4>1
      <4> QED
        BY <1>2, <1>5, <2>1, <2>3, <4>2 DEF ProcessNextRequestItem
    <3>2. PICK b : b = DropEntry(c, item)
      OBVIOUS
    <3>3. /\ b \in Processes /\ Drops(c, b, item) /\ b.spec = c.spec
          /\ b.jobs = c.jobs /\ b.out = c.out
      BY <1>1, <3>2, DropIs
    <3>4. e.status # 0
      BY <2>3 DEF RetryDue
    <3>5. Sound(b, q, F)
      BY <1>5, <2>1, <3>3, <3>4, DropSound
    <3>6. item \notin DOMAIN b.entry /\ id \in DOMAIN b.spec /\ Head(b.spec[id]) = item
      BY <1>2, <3>3 DEF Drops
    <3>7. Sound(StartJob(b, id, item, fault), q, F \ {id})
      BY <1>3, <3>5, <3>6, StartJobSound
    <3> QED
      BY <3>1, <3>2, <3>7
  <2>4. CASE e.status = 0
    <3>1. ~RetryDue(e)
      BY <2>4 DEF RetryDue
    <3>2. PICK e2 : e2 = Join(e, id)
      OBVIOUS
    <3>3. /\ e2 \in Entries /\ e2.status = 0 /\ e2.ids = e.ids \cup {id}
          /\ e2.lastUsed = e.lastUsed /\ e2.tree = e.tree
      BY <2>2, <2>4, <3>2 DEF Join, Entries
    <3>4. PICK b : b = [c EXCEPT !.entry[item] = e2]
      OBVIOUS
    <3>5. /\ b \in Processes /\ Puts(c, b, item, e2) /\ b.spec = c.spec
          /\ b.jobs = c.jobs /\ b.out = c.out
      BY <1>1, <1>5, <3>3, <3>4, EditIs
    <3>6. Sound(b, q, F \ {id})
      BY <1>2, <1>5, <2>1, <2>4, <3>3, <3>5, JoinSound
    <3>7. d = [c EXCEPT !.entry[item] = Join(@, id)]
      BY <1>2, <1>5, <2>1, <2>4, <3>1 DEF ProcessNextRequestItem
    <3>8. d = b
      BY <1>1, <2>1, <3>2, <3>4, <3>7
    <3> QED
      BY <3>6, <3>8
  <2>5. CASE e.status = -1 /\ ~RetryDue(e)
    <3>1. d = NextItem(c, id, fault)
      BY <1>2, <1>5, <2>1, <2>5 DEF ProcessNextRequestItem
    <3> QED
      BY <3>1, NextItemSound
  <2>6. CASE e.status = 1 /\ Expired(e, id)
    <3>1. d = StartJob(c, id, item, fault)
      BY <1>2, <1>5, <2>1, <2>6 DEF ProcessNextRequestItem, RetryDue
    <3>2. c.entry[item].status # 0 /\ Head(c.spec[id]) = item
      BY <1>2, <2>1, <2>6
    <3>3. Sound(StartJob(c, id, item, fault), q, F \ {id})
      BY <1>3, <3>2, StartJobSound
    <3> QED
      BY <3>1, <3>3
  <2>7. CASE e.status = 1 /\ ~Expired(e, id) /\ ~e.cacheable
    <3>1. d = StartJob(RemoveEntry(c, item), id, item, fault)
      BY <1>2, <1>5, <2>1, <2>7 DEF ProcessNextRequestItem, RetryDue
    <3>2. PICK b : b = RemoveEntry(c, item)
      OBVIOUS
    <3>3. c.entry[item].status # 0
      BY <2>1, <2>7
    <3>4. Sound(b, q, F) /\ Drops(c, b, item) /\ b.spec = c.spec
      BY <1>5, <3>2, <3>3, RemoveSound
    <3>5. item \notin DOMAIN b.entry /\ id \in DOMAIN b.spec /\ Head(b.spec[id]) = item
      BY <1>2, <3>4 DEF Drops
    <3>6. Sound(StartJob(b, id, item, fault), q, F \ {id})
      BY <1>3, <3>4, <3>5, StartJobSound
    <3> QED
      BY <3>1, <3>2, <3>6
  <2>8. CASE e.status = 1 /\ ~Expired(e, id) /\ e.cacheable
    <3>1. d = Answer(c, id, item)
      BY <1>2, <1>5, <2>1, <2>8 DEF ProcessNextRequestItem, RetryDue
    <3>2. PICK e2 : e2 = [e EXCEPT !.lastUsed = now]
      OBVIOUS
    <3>3. e2 \in Entries /\ e2.status = 1 /\ e2.ids = e.ids /\ e2.tree = e.tree
      BY <2>2, <2>8, <3>2 DEF Entries, WorldTyped
    <3>4. e.ids = {}
      BY <1>5, <2>1, <2>8 DEF Sound, EntriesCoherent
    <3>5. PICK b : b = [c EXCEPT !.entry[item] = e2]
      OBVIOUS
    <3>6. /\ b \in Processes /\ Puts(c, b, item, e2) /\ b.spec = c.spec
          /\ b.jobs = c.jobs /\ b.out = c.out
      BY <1>1, <1>5, <3>3, <3>5, EditIs
    <3>7. Sound(b, q, F)
      BY <1>5, <2>1, <2>8, <3>3, <3>4, <3>6, EditSound
    <3>8. PICK f : f = Forget(b, id)
      OBVIOUS
    <3>9. /\ f \in Processes /\ Forgets(b, f, id) /\ f.entry = b.entry
          /\ f.jobs = b.jobs /\ f.out = b.out
      BY <3>6, <3>8, ForgetIs
    <3>10. PICK m : m = Done(id, 1, e.tree)
      OBVIOUS
    <3>11. m \in ToMain /\ m \in DoneFor(id) /\ m.status # 0
      <4>1. e.tree \in Trees
        BY <2>2 DEF Entries
      <4>2. m \in ToMain /\ m \in DoneFor(id)
        BY <3>10, <4>1, DoneIs
      <4> QED
        BY <3>10, <4>2 DEF Done, Message
    <3>12. PICK g : g = Tell(f, m)
      OBVIOUS
    <3>13. /\ g \in Processes /\ g.entry = f.entry /\ g.spec = f.spec
           /\ g.jobs = f.jobs /\ g.out = Append(f.out, m)
      BY <3>9, <3>11, <3>12, TellIs
    <3>14. Forgets(b, g, id)
      BY <3>9, <3>13 DEF Forgets
    <3>15. Sound(g, q, F \ {id})
      BY <3>7, <3>9, <3>11, <3>13, <3>14, ReplySound
    <3>16. [Forget(c, id) EXCEPT !.entry[item].lastUsed = now] = f
      BY <1>1, <2>1, <3>2, <3>5, <3>8 DEF Forget, Processes
    <3>17. d = g
      BY <2>1, <3>1, <3>10, <3>12, <3>16 DEF Answer
    <3> QED
      BY <3>15, <3>17
  <2> QED
    BY <2>2, <2>3, <2>4, <2>5, <2>6, <2>7, <2>8
<1> QED
  BY <1>4, <1>5

-----------------------------------------------------------------------------
(* Many, one after the other.                                               *)

AnswerStep(d, id, status, fault) ==
  IF status = 1 THEN Reply(d, id, 1) ELSE NextItem(d, id, fault)

Answered(f, c, item, order, fault) ==
  /\ f[0] = [c EXCEPT !.entry[item].ids = {}]
  /\ \A i \in 1..Len(order) :
       f[i] = AnswerStep(f[i - 1], order[i], c.entry[item].status, fault)
  /\ AnswerAll(c, item, order, fault) = f[Len(order)]

LEMMA AnsweredInTurn ==
  ASSUME NEW c, NEW item, NEW order, Len(order) \in Nat, NEW fault
  PROVE  \E f : Answered(f, c, item, order, fault)
<1> DEFINE n == Len(order)
           b == [c EXCEPT !.entry[item].ids = {}]
           Step(d, i) == AnswerStep(d, order[i], c.entry[item].status, fault)
           Upto(m, g) == g = [i \in 0..m |-> IF i = 0 THEN b ELSE Step(g[i - 1], i)]
           T == {m \in 0..n : \E g : Upto(m, g)}
           F == CHOOSE g : Upto(n, g)
<1>1. AnswerAll(c, item, order, fault) = F[n]
  BY DEF AnswerAll, AnswerStep
<1> HIDE DEF b, Step
<1>2. 0 \in T
  <2> DEFINE g == [i \in 0..0 |-> b]
  <2>1. Upto(0, g)
    OBVIOUS
  <2> HIDE DEF Upto, g
  <2>2. 0 \in 0..n
    OBVIOUS
  <2> QED
    BY <2>1, <2>2
<1>3. ASSUME NEW m \in 1..n, m - 1 \in T
      PROVE  m \in T
  <2>1. PICK g : Upto(m - 1, g)
    BY <1>3
  <2>2. PICK last : last = Step(g[m - 1], m)
    OBVIOUS
  <2> DEFINE h == [i \in 0..m |-> IF i = m THEN last ELSE g[i]]
  <2>3. \A i \in 0..m - 1 : g[i] = IF i = 0 THEN b ELSE Step(g[i - 1], i)
    BY <2>1
  <2>4. \A i \in 0..m : h[i] = IF i = m THEN last ELSE g[i]
    OBVIOUS
  <2>5. h = [i \in 0..m |-> h[i]]
    OBVIOUS
  <2> HIDE DEF h
  <2>6. \A i \in 0..m : i = m \/ i \in 0..m - 1
    OBVIOUS
  <2>7. \A i \in 0..m : i # 0 => i - 1 \in 0..m /\ i - 1 # m
    OBVIOUS
  <2>8. \A i \in 0..m : h[i] = IF i = 0 THEN b ELSE Step(h[i - 1], i)
    <3> SUFFICES ASSUME NEW i \in 0..m
                 PROVE  h[i] = IF i = 0 THEN b ELSE Step(h[i - 1], i)
      OBVIOUS
    <3>1. CASE i = m
      <4>1. i # 0
        BY <3>1
      <4>2. h[i - 1] = g[i - 1]
        BY <2>4, <2>7, <4>1
      <4> QED
        BY <2>2, <2>4, <3>1, <4>1, <4>2
    <3>2. CASE i # m
      <4>1. i \in 0..m - 1 /\ h[i] = g[i]
        BY <2>4, <2>6, <3>2
      <4>2. CASE i = 0
        BY <2>3, <4>1, <4>2
      <4>3. CASE i # 0
        <5>1. h[i - 1] = g[i - 1]
          BY <2>4, <2>7, <4>3
        <5> QED
          BY <2>3, <4>1, <4>3, <5>1
      <4> QED
        BY <4>2, <4>3
    <3> QED
      BY <3>1, <3>2
  <2>9. Upto(m, h)
    BY <2>5, <2>8
  <2> QED
    BY <2>9
<1>4. \E g : Upto(n, g)
  <2> HIDE DEF Upto
  <2>1. \A i \in 1..n : i - 1 \in T => i \in T
    BY <1>3
  <2> HIDE DEF T
  <2>2. \A i \in 0..n : i \in T
    BY <1>2, <2>1, UpTo
  <2>3. n \in T
    BY <2>2
  <2> QED
    BY <2>3 DEF T
<1>5. Upto(n, F)
  BY <1>4
<1> HIDE DEF F
<1>6. F[0] = b
  BY <1>5
<1>7. \A i \in 1..n : F[i] = Step(F[i - 1], i)
  BY <1>5
<1> QED
  BY <1>1, <1>6, <1>7 DEF b, Step, Answered

LEMMA RemovedInTurn ==
  ASSUME NEW c, NEW order, Len(order) \in Nat
  PROVE  \E f : /\ f[0] = c
                /\ \A i \in 1..Len(order) : f[i] = RemoveEntry(f[i - 1], order[i])
                /\ RemoveEntries(c, order) = f[Len(order)]
<1> DEFINE n == Len(order)
           b == c
           Step(d, i) == RemoveEntry(d, order[i])
           Upto(m, g) == g = [i \in 0..m |-> IF i = 0 THEN b ELSE Step(g[i - 1], i)]
           T == {m \in 0..n : \E g : Upto(m, g)}
           F == CHOOSE g : Upto(n, g)
<1>1. RemoveEntries(c, order) = F[n]
  BY DEF RemoveEntries
<1> HIDE DEF b, Step
<1>2. 0 \in T
  <2> DEFINE g == [i \in 0..0 |-> b]
  <2>1. Upto(0, g)
    OBVIOUS
  <2> HIDE DEF Upto, g
  <2>2. 0 \in 0..n
    OBVIOUS
  <2> QED
    BY <2>1, <2>2
<1>3. ASSUME NEW m \in 1..n, m - 1 \in T
      PROVE  m \in T
  <2>1. PICK g : Upto(m - 1, g)
    BY <1>3
  <2>2. PICK last : last = Step(g[m - 1], m)
    OBVIOUS
  <2> DEFINE h == [i \in 0..m |-> IF i = m THEN last ELSE g[i]]
  <2>3. \A i \in 0..m - 1 : g[i] = IF i = 0 THEN b ELSE Step(g[i - 1], i)
    BY <2>1
  <2>4. \A i \in 0..m : h[i] = IF i = m THEN last ELSE g[i]
    OBVIOUS
  <2>5. h = [i \in 0..m |-> h[i]]
    OBVIOUS
  <2> HIDE DEF h
  <2>6. \A i \in 0..m : i = m \/ i \in 0..m - 1
    OBVIOUS
  <2>7. \A i \in 0..m : i # 0 => i - 1 \in 0..m /\ i - 1 # m
    OBVIOUS
  <2>8. \A i \in 0..m : h[i] = IF i = 0 THEN b ELSE Step(h[i - 1], i)
    <3> SUFFICES ASSUME NEW i \in 0..m
                 PROVE  h[i] = IF i = 0 THEN b ELSE Step(h[i - 1], i)
      OBVIOUS
    <3>1. CASE i = m
      <4>1. i # 0
        BY <3>1
      <4>2. h[i - 1] = g[i - 1]
        BY <2>4, <2>7, <4>1
      <4> QED
        BY <2>2, <2>4, <3>1, <4>1, <4>2
    <3>2. CASE i # m
      <4>1. i \in 0..m - 1 /\ h[i] = g[i]
        BY <2>4, <2>6, <3>2
      <4>2. CASE i = 0
        BY <2>3, <4>1, <4>2
      <4>3. CASE i # 0
        <5>1. h[i - 1] = g[i - 1]
          BY <2>4, <2>7, <4>3
        <5> QED
          BY <2>3, <4>1, <4>3, <5>1
      <4> QED
        BY <4>2, <4>3
    <3> QED
      BY <3>1, <3>2
  <2>9. Upto(m, h)
    BY <2>5, <2>8
  <2> QED
    BY <2>9
<1>4. \E g : Upto(n, g)
  <2> HIDE DEF Upto
  <2>1. \A i \in 1..n : i - 1 \in T => i \in T
    BY <1>3
  <2> HIDE DEF T
  <2>2. \A i \in 0..n : i \in T
    BY <1>2, <2>1, UpTo
  <2>3. n \in T
    BY <2>2
  <2> QED
    BY <2>3 DEF T
<1>5. Upto(n, F)
  BY <1>4
<1> HIDE DEF F
<1>6. F[0] = b
  BY <1>5
<1>7. \A i \in 1..n : F[i] = Step(F[i - 1], i)
  BY <1>5
<1> QED
  BY <1>1, <1>6, <1>7 DEF b, Step

\* Those that waited for an item that is there now, or failed, are answered.
LEMMA AnswerAllSound ==
  ASSUME WorldTyped, NEW c, NEW item, NEW q, NEW ids \in SUBSET Ids,
         ids = c.entry[item].ids, IsFiniteSet(ids), NEW order \in SetToSeqs(ids),
         Sound([c EXCEPT !.entry[item].ids = {}], q, ids),
         \A id \in ids : id \in DOMAIN [c EXCEPT !.entry[item].ids = {}].spec,
         NEW fault \in Faults
  PROVE  Sound(AnswerAll(c, item, order, fault), q, {})
<1> DEFINE n == Len(order)
           status == c.entry[item].status
           Left(i) == {order[j] : j \in i + 1..n}
<1>1. /\ order \in Seq(ids) /\ n \in Nat
      /\ \A x \in ids : \E i \in 1..n : order[i] = x
      /\ \A i, j \in 1..n : order[i] = order[j] => i = j
  BY OrderOf
<1>2. PICK f : /\ f[0] = [c EXCEPT !.entry[item].ids = {}]
               /\ \A i \in 1..n : f[i] = AnswerStep(f[i - 1], order[i], status, fault)
               /\ AnswerAll(c, item, order, fault) = f[n]
  <2>1. Len(order) \in Nat
    BY <1>1
  <2>2. PICK f : Answered(f, c, item, order, fault)
    BY <2>1, AnsweredInTurn
  <2> QED
    BY <2>2 DEF Answered
<1>3. /\ Left(0) = ids /\ Left(n) = {}
      /\ \A i \in 1..n : /\ order[i] \in Left(i - 1)
                         /\ Left(i) = Left(i - 1) \ {order[i]}
  <2>1. Left(0) = ids
    <3>1. (\A j \in 1..n : order[j] \in ids) /\ 0 + 1 = 1
      BY <1>1
    <3>2. Left(0) \subseteq ids
      BY <3>1
    <3>3. ids \subseteq Left(0)
      BY <1>1, <3>1
    <3> QED
      BY <3>2, <3>3
  <2>2. Left(n) = {}
    BY <1>1
  <2>3. ASSUME NEW i \in 1..n
        PROVE  order[i] \in Left(i - 1) /\ Left(i) = Left(i - 1) \ {order[i]}
    <3>1. i - 1 + 1 = i /\ i \in i..n
      BY <1>1
    <3>2. \A j \in i..n : j = i \/ j \in i + 1..n
      BY <1>1
    <3>3. \A j \in i + 1..n : j \in i..n /\ j # i /\ j \in 1..n
      BY <1>1
    <3>4. \A j \in i + 1..n : order[j] # order[i]
      BY <1>1, <3>3
    <3> QED
      BY <3>1, <3>2, <3>3, <3>4
  <2> QED
    BY <2>1, <2>2, <2>3
<1> HIDE DEF Left
<1> DEFINE T == {i \in 0..n : /\ Sound(f[i], q, Left(i))
                              /\ \A k \in Left(i) : k \in DOMAIN f[i].spec}
<1>4. 0 \in T
  <2>1. 0 \in 0..n
    BY <1>1
  <2>2. Sound(f[0], q, Left(0))
    BY <1>2, <1>3
  <2>3. \A k \in Left(0) : k \in DOMAIN f[0].spec
    BY <1>2, <1>3
  <2> QED
    BY <2>1, <2>2, <2>3
<1>5. ASSUME NEW i \in 1..n, i - 1 \in T
      PROVE  i \in T
  <2>1. PICK d, id : d = f[i - 1] /\ id = order[i]
    OBVIOUS
  <2>2. Sound(d, q, Left(i - 1)) /\ \A k \in Left(i - 1) : k \in DOMAIN d.spec
    BY <1>5, <2>1
  <2>3. id \in Left(i - 1) /\ Left(i) = Left(i - 1) \ {id} /\ id \in Ids
    BY <1>1, <1>3, <2>1
  <2>4. f[i] = AnswerStep(d, id, status, fault)
    BY <1>2, <2>1
  <2>5. Sound(f[i], q, Left(i)) /\ Spares(d, f[i], id)
    <3>1. CASE status = 1
      BY <2>2, <2>3, <2>4, <3>1, ReplyIs DEF AnswerStep
    <3>2. CASE status # 1
      BY <2>2, <2>3, <2>4, <3>2, NextItemSound DEF AnswerStep
    <3> QED
      BY <3>1, <3>2
  <2>6. \A k \in Left(i) : k \in DOMAIN f[i].spec
    BY <2>2, <2>3, <2>5 DEF Spares
  <2>7. i \in 0..n
    BY <1>1
  <2> QED
    BY <2>5, <2>6, <2>7
<1>6. n \in T
  <2>1. \A i \in 1..n : i - 1 \in T => i \in T
    BY <1>5
  <2> HIDE DEF T
  <2>2. \A i \in 0..n : i \in T
    BY <1>1, <1>4, <2>1, UpTo
  <2> QED
    BY <1>1, <2>2
<1>7. Sound(f[n], q, {})
  BY <1>3, <1>6
<1> QED
  BY <1>2, <1>7

\* Entries that are there, or failed, are removed.
LEMMA RemoveEntriesSound ==
  ASSUME WorldTyped, NEW c, NEW q, NEW F, Sound(c, q, F),
         NEW S \in SUBSET DOMAIN c.entry, NEW order \in SetToSeqs(S),
         \A item \in S : c.entry[item].status # 0
  PROVE  Sound(RemoveEntries(c, order), q, F)
<1> DEFINE n == Cardinality(S)
<1>1. order \in [1..n -> S] /\ \A i, j \in 1..n : i # j => order[i] # order[j]
  BY DEF SetToSeqs
<1>2. n \in Nat
  BY FS_Subset, FS_CardinalityType DEF Sound, FetchesCoherent
<1>3. Len(order) = n
  BY <1>1, <1>2
<1>4. PICK f : /\ f[0] = c
               /\ \A i \in 1..n : f[i] = RemoveEntry(f[i - 1], order[i])
               /\ RemoveEntries(c, order) = f[n]
  BY <1>2, <1>3, RemovedInTurn
<1> DEFINE Here(d, x) == x \in DOMAIN d.entry /\ d.entry[x] = c.entry[x]
           T == {i \in 0..n : /\ Sound(f[i], q, F)
                              /\ \A j \in i + 1..n : Here(f[i], order[j])}
<1>5. 0 \in T
  BY <1>1, <1>2, <1>4
<1>6. ASSUME NEW i \in 1..n, i - 1 \in T
      PROVE  i \in T
  <2>1. PICK d, x : d = f[i - 1] /\ x = order[i]
    OBVIOUS
  <2>2. i - 1 + 1 = i /\ i \in i..n /\ i \in 0..n
    BY <1>2
  <2>3. Sound(d, q, F) /\ \A j \in i..n : Here(d, order[j])
    BY <1>6, <2>1, <2>2
  <2>4. x \in S /\ Here(d, x)
    BY <1>1, <2>1, <2>2, <2>3
  <2>5. d.entry[x].status # 0
    BY <2>4
  <2>6. f[i] = RemoveEntry(d, x)
    BY <1>4, <2>1
  <2>7. Sound(f[i], q, F) /\ Drops(d, f[i], x)
    BY <2>3, <2>4, <2>5, <2>6, RemoveSound
  <2>8. ASSUME NEW j \in i + 1..n
        PROVE  Here(f[i], order[j])
    <3>1. j \in i..n /\ j # i /\ j \in 1..n
      BY <1>2
    <3>2. order[j] # x
      BY <1>1, <2>1, <3>1
    <3>3. Here(d, order[j])
      BY <2>3, <3>1
    <3> QED
      BY <2>7, <3>2, <3>3 DEF Drops
  <2> HIDE DEF Here
  <2> QED
    BY <2>2, <2>7, <2>8
<1> HIDE DEF Here
<1>7. n \in T
  <2>1. \A i \in 1..n : i - 1 \in T => i \in T
    BY <1>6
  <2> HIDE DEF T
  <2>2. \A i \in 0..n : i \in T
    BY <1>2, <1>5, <2>1, UpTo
  <2> QED
    BY <1>2, <2>2
<1> QED
  BY <1>4, <1>7

-----------------------------------------------------------------------------
(* A fetch or a parse ends.                                                 *)

\* An item is settled, and those that wait are at hand, or it is to be parsed.
LEMMA SettleSound ==
  ASSUME WorldTyped, NEW c, NEW q, Sound(c, q, {}),
         NEW item \in DOMAIN c.entry, c.entry[item].status = 0,
         NEW F, NEW e \in Entries,
         \/ e.status # 0 /\ e.ids = {} /\ F = c.entry[item].ids
         \/ /\ e.status = 0 /\ e.ids = c.entry[item].ids /\ F = {}
            /\ e.lastUsed = c.entry[item].lastUsed,
         NEW d \in Processes, Puts(c, d, item, e), d.spec = c.spec,
         d.jobs \subseteq c.jobs, \A job \in d.jobs : job.item # item,
         \A k \in Ids : In(d.out, DoneFor(k)) <=> In(c.out, DoneFor(k)),
         \A k \in Ids : One(c.out, DoneFor(k)) => One(d.out, DoneFor(k)),
         NEW r,
         \A k \in Ids : In(r, ReqFrom(k)) <=> In(q, ReqFrom(k)),
         \A k \in Ids : One(q, ReqFrom(k)) => One(r, ReqFrom(k)),
         \A k \in Ids : In(r, ParsedBy(k)) => In(q, ParsedBy(k)),
         \A k \in Ids : One(q, ParsedBy(k)) => One(r, ParsedBy(k)),
         \A k \in Ids : Parser(d, r, k) => Parser(c, q, k) /\ Head(c.spec[k]) # item,
         \A t \in Ids : TreePlaced(d, r, t)
  PROVE  Sound(d, r, F)
<1>1. c \in Processes /\ OneParser(c, q)
      /\ \A k \in Ids : Placed(c, q, {}, k) /\ ParserWaits(c, q, k)
  BY DEF Sound
<1>2. /\ DOMAIN d.entry = DOMAIN c.entry /\ d.entry[item] = e
      /\ \A x \in DOMAIN c.entry : x # item => d.entry[x] = c.entry[x]
  BY DEF Puts
<1>3. /\ now <= c.entry[item].lastUsed + FetchTime /\ IsFiniteSet(c.entry[item].ids)
      /\ \A k \in c.entry[item].ids : k \in DOMAIN c.spec /\ Head(c.spec[k]) = item
  BY DEF Sound, EntriesCoherent
<1>4. EntriesCoherent(d)
  <2>1. ASSUME NEW x \in DOMAIN d.entry, x # item
        PROVE  /\ d.entry[x].status # 0 => d.entry[x].ids = {}
               /\ d.entry[x].status = 0 => now <= d.entry[x].lastUsed + FetchTime
               /\ IsFiniteSet(d.entry[x].ids)
               /\ \A k \in d.entry[x].ids : k \in DOMAIN d.spec /\ Head(d.spec[k]) = x
    BY <1>2, <2>1 DEF Sound, EntriesCoherent
  <2>2. /\ e.status # 0 => e.ids = {}
        /\ e.status = 0 => now <= e.lastUsed + FetchTime
        /\ IsFiniteSet(e.ids)
        /\ \A k \in e.ids : k \in DOMAIN d.spec /\ Head(d.spec[k]) = item
    BY <1>3, FS_EmptySet
  <2> QED
    BY <1>2, <2>1, <2>2 DEF EntriesCoherent
<1>5. FetchesCoherent(d)
  <2>1. /\ IsFiniteSet(DOMAIN c.entry) /\ IsFiniteSet(c.jobs)
        /\ \A job \in c.jobs : /\ job.item \in DOMAIN c.entry
                               /\ c.entry[job.item].status = 0
        /\ \A j, k \in c.jobs : j.item = k.item => j = k
    BY DEF Sound, FetchesCoherent
  <2>2. IsFiniteSet(d.jobs) /\ IsFiniteSet(DOMAIN d.entry)
    BY <1>2, <2>1, FS_Subset
  <2>3. \A job \in d.jobs : /\ job.item \in DOMAIN d.entry
                            /\ d.entry[job.item].status = 0
    BY <1>2, <2>1
  <2> QED
    BY <2>1, <2>2, <2>3 DEF FetchesCoherent
<1>6. SpecsCoherent(d, r)
  <2>1. \A k : Untried(d, k) <=> Untried(c, k)
    BY <1>2 DEF Untried
  <2> QED
    BY <2>1 DEF Sound, SpecsCoherent
<1>7. ASSUME NEW k \in Ids
      PROVE  Placed(d, r, F, k)
  <2>1. /\ Held(c, k) <=> Held(d, k) \/ k \in F
        /\ Held(d, k) => k \notin F
    <3>1. \A x \in DOMAIN c.entry : k \in c.entry[x].ids => Head(c.spec[k]) = x
      BY DEF Sound, EntriesCoherent
    <3>2. CASE e.status # 0 /\ e.ids = {} /\ F = c.entry[item].ids
      <4>1. Held(c, k) => Held(d, k) \/ k \in F
        BY <1>2, <3>2 DEF Held
      <4>2. k \in F => Held(c, k)
        BY <3>2 DEF Held
      <4>3. ASSUME Held(d, k)
            PROVE  Held(c, k) /\ k \notin F
        <5>1. PICK x \in DOMAIN d.entry : k \in d.entry[x].ids
          BY <4>3 DEF Held
        <5>2. x # item
          BY <1>2, <3>2, <5>1
        <5>3. x \in DOMAIN c.entry /\ k \in c.entry[x].ids
          BY <1>2, <5>1, <5>2
        <5>4. k \notin c.entry[item].ids
          BY <3>1, <5>2, <5>3
        <5> QED
          BY <3>2, <5>3, <5>4 DEF Held
      <4> QED
        BY <4>1, <4>2, <4>3
    <3>3. CASE e.status = 0 /\ e.ids = c.entry[item].ids /\ F = {}
      <4>1. Held(c, k) <=> Held(d, k)
        BY <1>2, <3>3 DEF Held
      <4> QED
        BY <3>3, <4>1
    <3> QED
      BY <3>2, <3>3
  <2>2. Placed(c, q, {}, k)
    BY <1>1
  <2> HIDE DEF Held
  <2>3. One(d.out, DoneFor(k)) /\ One(r, ReqFrom(k)) /\ One(r, ParsedBy(k))
    BY <2>2 DEF Placed
  <2>4. k \in asked <=> \/ Held(d, k) \/ In(d.out, DoneFor(k))
                        \/ In(r, ReqFrom(k)) \/ k \in F
    BY <2>1, <2>2 DEF Placed
  <2>5. Held(d, k) \/ k \in F => ~In(d.out, DoneFor(k)) /\ ~In(r, ReqFrom(k))
    BY <2>1, <2>2 DEF Placed
  <2> QED
    BY <2>1, <2>2, <2>3, <2>4, <2>5 DEF Placed
<1>8. ASSUME NEW k \in Ids
      PROVE  ParserWaits(d, r, k)
  <2> SUFFICES ASSUME Parser(d, r, k)
               PROVE  ParserWaits(d, r, k)
    BY DEF ParserWaits
  <2>1. Parser(c, q, k) /\ Head(c.spec[k]) # item /\ ParserWaits(c, q, k)
    BY <1>1
  <2> QED
    BY <1>2, <2>1 DEF ParserWaits
<1>9. OneParser(d, r)
  BY <1>1 DEF OneParser
<1> QED
  BY <1>4, <1>5, <1>6, <1>7, <1>8, <1>9 DEF Sound

\* The tree of a page that is fetched again stays the cache's, or is freed.
LEMMA TreeReleased ==
  ASSUME NEW c \in Processes, NEW q, \A t \in Ids : TreePlaced(c, q, t),
         NEW item \in DOMAIN c.entry, NEW d, DOMAIN d.entry = DOMAIN c.entry,
         \A x \in DOMAIN c.entry : x # item => d.entry[x] = c.entry[x],
         \/ d.out = c.out /\ d.entry[item].tree = c.entry[item].tree
         \/ /\ c.entry[item].tree \in Ids /\ d.entry[item].tree = NoTree
            /\ d.out = Append(c.out, Free(c.entry[item].tree))
  PROVE  \A t \in Ids : TreePlaced(d, q, t)
<1> SUFFICES ASSUME NEW t \in Ids
             PROVE  TreePlaced(d, q, t)
  OBVIOUS
<1>1. TreePlaced(c, q, t)
  OBVIOUS
<1>2. NoTree # t
  BY HttpCacheAssumption DEF NoTree
<1>3. \A x \in DOMAIN d.entry : d.entry[x].tree = t =>
         x \in DOMAIN c.entry /\ c.entry[x].tree = t
  BY <1>2
<1>4. CASE d.out = c.out /\ d.entry[item].tree = c.entry[item].tree
  BY <1>1, <1>3, <1>4, QuietParser, TreesStay DEF TreePlaced
<1>5. CASE /\ c.entry[item].tree \in Ids /\ d.entry[item].tree = NoTree
           /\ d.out = Append(c.out, Free(c.entry[item].tree))
  <2>1. /\ In(d.out, FreeOf(t)) <=> (In(c.out, FreeOf(t)) \/ t = c.entry[item].tree)
        /\ One(c.out, FreeOf(t)) /\ (t = c.entry[item].tree => ~In(c.out, FreeOf(t)))
             => One(d.out, FreeOf(t))
    <3>1. PICK tree \in Ids : tree = c.entry[item].tree /\ d.out = Append(c.out, Free(tree))
      BY <1>5
    <3>2. d.out = Append(c.out, Free(tree))
      BY <3>1
    <3>3. \A k \in Ids : /\ In(d.out, FreeOf(k)) <=> (In(c.out, FreeOf(k)) \/ k = tree)
                         /\ One(c.out, FreeOf(k)) /\ (k = tree => ~In(c.out, FreeOf(k)))
                              => One(d.out, FreeOf(k))
      BY <3>2, SaidFree
    <3> QED
      BY <3>1, <3>3
  <2>2. CASE t = c.entry[item].tree
    <3>1. Kept(c, t)
      BY <2>2 DEF Kept
    <3>2. /\ ~In(q, TreeIn(t)) /\ ~In(c.out, FreeOf(t)) /\ t \notin freed
          /\ thread[t] = "ended"
      BY <1>1, <3>1 DEF TreePlaced
    <3>3. \A x \in DOMAIN d.entry : d.entry[x].tree # t
      <4>1. \A x \in DOMAIN c.entry : c.entry[x].tree = t => x = item
        BY <1>1, <2>2 DEF TreePlaced
      <4> QED
        BY <1>2, <1>3, <1>5, <4>1
    <3>4. ~Kept(d, t)
      BY <3>3 DEF Kept
    <3> QED
      BY <1>1, <2>1, <3>2, <3>3, <3>4 DEF TreePlaced
  <2>3. CASE t # c.entry[item].tree
    <3>1. One(d.out, FreeOf(t)) /\ (In(d.out, FreeOf(t)) <=> In(c.out, FreeOf(t)))
      BY <1>1, <2>1, <2>3 DEF TreePlaced
    <3> QED
      BY <1>1, <1>3, <3>1, TreesStay
  <2> QED
    BY <2>2, <2>3
<1> QED
  BY <1>4, <1>5

\* One of those that wait is handed the page to be parsed.
LEMMA HandOverSound ==
  ASSUME WorldTyped, NEW c, NEW q, Sound(c, q, {}),
         NEW item \in DOMAIN c.entry, c.entry[item].status = 0,
         c.entry[item].tree = NoTree, \A job \in c.jobs : job.item # item,
         \A k \in Ids : Parser(c, q, k) => Head(c.spec[k]) # item,
         NEW id \in Ids, id \in c.entry[item].ids,
         NEW e \in Entries, e.status = 0, e.ids = c.entry[item].ids \ {id},
         e.tree = NoTree, e.lastUsed = c.entry[item].lastUsed,
         NEW d \in Processes, Puts(c, d, item, e), d.spec = c.spec, d.jobs = c.jobs,
         NEW m \in HandTo(id), d.out = Append(c.out, m)
  PROVE  Sound(d, q, {})
<1>1. c \in Processes /\ OneParser(c, q)
      /\ \A k \in Ids : Placed(c, q, {}, k) /\ ParserWaits(c, q, k)
  BY DEF Sound
<1>2. /\ DOMAIN d.entry = DOMAIN c.entry /\ d.entry[item] = e
      /\ \A x \in DOMAIN c.entry : x # item => d.entry[x] = c.entry[x]
  BY DEF Puts
<1>3. /\ now <= c.entry[item].lastUsed + FetchTime /\ IsFiniteSet(c.entry[item].ids)
      /\ \A k \in c.entry[item].ids : k \in DOMAIN c.spec /\ Head(c.spec[k]) = item
  BY DEF Sound, EntriesCoherent
<1>4. /\ m \in ToMain
      /\ \A k \in Ids : /\ m \in DoneFor(k) <=> k = id
                        /\ m \in HandTo(k) <=> k = id
                        /\ m \notin FreeOf(k)
  BY DEF DoneFor, HandTo, FreeOf
<1>5. \A M : /\ In(d.out, M) <=> (In(c.out, M) \/ m \in M)
             /\ One(c.out, M) /\ (m \in M => ~In(c.out, M)) => One(d.out, M)
  BY <1>1, <1>4, Parts, InAppended
<1>6. \A k \in Ids : Parser(d, q, k) <=> (Parser(c, q, k) \/ k = id)
  BY <1>4, <1>5 DEF Parser
<1>7. EntriesCoherent(d)
  <2>1. ASSUME NEW x \in DOMAIN d.entry, x # item
        PROVE  /\ d.entry[x].status # 0 => d.entry[x].ids = {}
               /\ d.entry[x].status = 0 => now <= d.entry[x].lastUsed + FetchTime
               /\ IsFiniteSet(d.entry[x].ids)
               /\ \A k \in d.entry[x].ids : k \in DOMAIN d.spec /\ Head(d.spec[k]) = x
    BY <1>2, <2>1 DEF Sound, EntriesCoherent
  <2>2. IsFiniteSet(e.ids)
    BY <1>3, FS_RemoveElement
  <2> QED
    BY <1>2, <1>3, <2>1, <2>2 DEF EntriesCoherent
<1>8. FetchesCoherent(d)
  BY <1>2 DEF Sound, FetchesCoherent
<1>9. SpecsCoherent(d, q)
  <2>1. \A k : Untried(d, k) <=> Untried(c, k)
    BY <1>2 DEF Untried
  <2> QED
    BY <2>1 DEF Sound, SpecsCoherent
<1>10. ASSUME NEW k \in Ids
       PROVE  Placed(d, q, {}, k)
  <2>1. /\ Placed(c, q, {}, k)
        /\ In(d.out, DoneFor(k)) <=> (In(c.out, DoneFor(k)) \/ k = id)
        /\ One(c.out, DoneFor(k)) /\ (k = id => ~In(c.out, DoneFor(k)))
             => One(d.out, DoneFor(k))
    BY <1>1, <1>4, <1>5
  <2>2. CASE k = id
    <3>1. Held(c, id)
      BY DEF Held
    <3>2. ~Held(d, id)
      <4>1. \A x \in DOMAIN c.entry : id \in c.entry[x].ids => x = item
        BY <1>3 DEF Sound, EntriesCoherent
      <4> QED
        BY <1>2, <4>1 DEF Held
    <3> QED
      BY <2>1, <2>2, <3>1, <3>2 DEF Placed
  <2>3. CASE k # id
    <3>1. Held(c, k) <=> Held(d, k)
      BY <1>2, <2>3 DEF Held
    <3> QED
      BY <2>1, <2>3, <3>1 DEF Placed
  <2> QED
    BY <2>2, <2>3
<1>11. ASSUME NEW k \in Ids
       PROVE  ParserWaits(d, q, k)
  <2> SUFFICES ASSUME Parser(d, q, k)
               PROVE  ParserWaits(d, q, k)
    BY DEF ParserWaits
  <2>1. CASE k = id
    BY <1>2, <1>3, <2>1 DEF ParserWaits
  <2>2. CASE k # id
    <3>1. Parser(c, q, k) /\ ParserWaits(c, q, k) /\ Head(c.spec[k]) # item
      BY <1>1, <1>6, <2>2
    <3> QED
      BY <1>2, <3>1 DEF ParserWaits
  <2> QED
    BY <2>1, <2>2
<1>12. OneParser(d, q)
  <2> SUFFICES ASSUME NEW a \in Ids, NEW b \in Ids, Parser(d, q, a), Parser(d, q, b),
                      Head(c.spec[a]) = Head(c.spec[b])
               PROVE  a = b
    BY DEF OneParser
  <2>1. Head(c.spec[id]) = item
    BY <1>3
  <2>2. a # id => Parser(c, q, a) /\ Head(c.spec[a]) # item
    BY <1>6
  <2>3. b # id => Parser(c, q, b) /\ Head(c.spec[b]) # item
    BY <1>6
  <2> QED
    BY <1>1, <2>1, <2>2, <2>3 DEF OneParser
<1>13. ASSUME NEW t \in Ids
       PROVE  TreePlaced(d, q, t)
  <2>1. TreePlaced(c, q, t) /\ NoTree # t
    BY HttpCacheAssumption DEF Sound, NoTree
  <2>2. (In(d.out, FreeOf(t)) <=> In(c.out, FreeOf(t))) /\ One(d.out, FreeOf(t))
    BY <1>4, <1>5, <2>1 DEF TreePlaced
  <2>3. \A x \in DOMAIN d.entry : d.entry[x].tree = t =>
           x \in DOMAIN c.entry /\ c.entry[x].tree = t
    BY <1>2, <2>1
  <2> QED
    BY <2>1, <2>2, <2>3, TreesStay
<1> QED
  BY <1>7, <1>8, <1>9, <1>10, <1>11, <1>12, <1>13 DEF Sound

LEMMA ResultSound ==
  ASSUME WorldTyped, NEW c \in Processes, NEW q, NEW item \in DOMAIN c.entry,
         NEW ids \in SUBSET Ids, ids = c.entry[item].ids, IsFiniteSet(ids),
         \A id \in ids : id \in DOMAIN c.spec,
         MustParse(c.entry[item]) =>
           /\ Sound(c, q, {}) /\ \A job \in c.jobs : job.item # item
           /\ \A k \in Ids : Parser(c, q, k) => Head(c.spec[k]) # item,
         ~MustParse(c.entry[item]) =>
           Sound([c EXCEPT !.entry[item].ids = {}], q, ids),
         NEW fault \in Faults, NEW d \in ProcessCacheChildResult(c, item, fault)
  PROVE  Sound(d, q, {})
<1>1. CASE MustParse(c.entry[item])
  <2>1. Sound(c, q, {}) /\ c.entry[item].status = 0 /\ c.entry[item].tree = NoTree
    BY <1>1 DEF MustParse
  <2>2. CASE ids = {}
    BY <1>1, <2>1, <2>2 DEF ProcessCacheChildResult
  <2>3. CASE ids # {}
    <3>1. PICK id \in ids : d = HandOver(c, item, id)
      BY <1>1, <2>3 DEF ProcessCacheChildResult
    <3>2. PICK e0 : e0 = c.entry[item]
      OBVIOUS
    <3>3. e0 \in Entries
      BY <3>2, Parts
    <3>4. PICK e : e = [e0 EXCEPT !.ids = @ \ {id}]
      OBVIOUS
    <3>5. /\ e \in Entries /\ e.status = 0 /\ e.ids = ids \ {id} /\ e.tree = NoTree
          /\ e.lastUsed = e0.lastUsed
      BY <2>1, <3>2, <3>3, <3>4 DEF Entries
    <3>6. PICK b : b = [c EXCEPT !.entry[item] = e]
      OBVIOUS
    <3>7. /\ b \in Processes /\ Puts(c, b, item, e) /\ b.spec = c.spec
          /\ b.jobs = c.jobs /\ b.out = c.out
      BY <3>5, <3>6, EditIs
    <3>8. PICK m : m = Done(id, 0, NoTree)
      OBVIOUS
    <3>9. m \in ToMain /\ m \in HandTo(id)
      BY <3>8, DoneIs DEF Trees
    <3>10. d = Tell(b, m)
      BY <3>1, <3>2, <3>4, <3>6, <3>8 DEF HandOver
    <3>11. /\ d \in Processes /\ d.entry = b.entry /\ d.spec = b.spec
           /\ d.jobs = b.jobs /\ d.out = Append(b.out, m)
      BY <3>7, <3>9, <3>10, TellIs
    <3>12. Puts(c, d, item, e)
      BY <3>7, <3>11 DEF Puts
    <3>13. /\ d.spec = c.spec /\ d.jobs = c.jobs /\ d.out = Append(c.out, m)
           /\ e.lastUsed = c.entry[item].lastUsed /\ e.ids = c.entry[item].ids \ {id}
      BY <3>2, <3>5, <3>7, <3>11
    <3> QED
      BY <1>1, <2>1, <3>5, <3>9, <3>11, <3>12, <3>13, HandOverSound
  <2> QED
    BY <2>2, <2>3
<1>2. CASE ~MustParse(c.entry[item])
  <2>1. PICK order \in SetToSeqs(ids) : d = AnswerAll(c, item, order, fault)
    BY <1>2 DEF ProcessCacheChildResult
  <2>2. PICK b : b = [c EXCEPT !.entry[item].ids = {}]
    OBVIOUS
  <2>3. \A id \in ids : id \in DOMAIN b.spec
    BY <2>2 DEF Processes
  <2>4. Sound(b, q, ids)
    BY <1>2, <2>2
  <2> QED
    BY <2>1, <2>2, <2>3, <2>4, AnswerAllSound
<1> QED
  BY <1>1, <1>2

LEMMA EditTwice ==
  ASSUME NEW c \in Processes, NEW item \in DOMAIN c.entry, NEW e, NEW f
  PROVE  [[c EXCEPT !.entry[item] = e] EXCEPT !.entry[item] = f]
           = [c EXCEPT !.entry[item] = f]
<1>1. PICK t1, t2 : t1 = [c.entry EXCEPT ![item] = e] /\ t2 = [t1 EXCEPT ![item] = f]
  OBVIOUS
<1>2. t2 = [c.entry EXCEPT ![item] = f]
  BY <1>1
<1>3. [c EXCEPT !.entry[item] = e] = [c EXCEPT !.entry = t1]
  BY <1>1
<1>4. [c EXCEPT !.entry = t1].entry = t1
  BY DEF Processes
<1>5. [[c EXCEPT !.entry = t1] EXCEPT !.entry[item] = f]
        = [[c EXCEPT !.entry = t1] EXCEPT !.entry = t2]
  BY <1>1, <1>4
<1>6. [[c EXCEPT !.entry = t1] EXCEPT !.entry = t2] = [c EXCEPT !.entry = t2]
  BY DEF Processes
<1> QED
  BY <1>2, <1>3, <1>5, <1>6

\* The parts of an entry are set one after the other.
LEMMA EditParts ==
  ASSUME NEW c \in Processes, NEW item \in DOMAIN c.entry, NEW e,
         c.entry[item] = e, NEW status, NEW time
  PROVE  [c EXCEPT !.entry[item].status = status, !.entry[item].time = time]
           = [c EXCEPT !.entry[item] = [e EXCEPT !.status = status, !.time = time]]
<1>1. PICK e1 : e1 = [e EXCEPT !.status = status]
  OBVIOUS
<1>2. PICK c1 : c1 = [c EXCEPT !.entry[item] = e1]
  OBVIOUS
<1>3. [c EXCEPT !.entry[item].status = status] = c1
  BY <1>1, <1>2
<1>4. c1.entry[item] = e1
  <2>1. c1.entry = [c.entry EXCEPT ![item] = e1]
    BY <1>2 DEF Processes
  <2> QED
    BY <2>1
<1>5. PICK e2 : e2 = [e1 EXCEPT !.time = time]
  OBVIOUS
<1>6. [c1 EXCEPT !.entry[item].time = time] = [c1 EXCEPT !.entry[item] = e2]
  BY <1>4, <1>5
<1>7. [c1 EXCEPT !.entry[item] = e2] = [c EXCEPT !.entry[item] = e2]
  BY ZenonT(60), <1>2, EditTwice
<1> QED
  BY <1>1, <1>3, <1>5, <1>6, <1>7

\* What a child that ends makes of its entry.
LEMMA HarvestedIs ==
  ASSUME WorldTyped, NEW c \in Processes, NEW item \in DOMAIN c.entry,
         NEW result \in Results, NEW header \in Headers
  PROVE  \E e \in Entries :
           LET d   == Harvested(c, item, result, header)
               old == c.entry[item]
           IN  /\ d \in Processes /\ Puts(c, d, item, e) /\ d.spec = c.spec
               /\ d.jobs = c.jobs /\ e.ids = old.ids /\ e.lastUsed = old.lastUsed
               /\ \/ d.out = c.out /\ e.tree = old.tree
                  \/ /\ old.tree \in Ids /\ e.tree = NoTree
                     /\ d.out = Append(c.out, Free(old.tree))
               /\ e.status # 0 \/ MustParse(e)
<1>1. PICK old : old = c.entry[item]
  OBVIOUS
<1>2. /\ old \in Entries /\ old.tree \in Trees /\ old.parse \in BOOLEAN
      /\ old.cacheable \in BOOLEAN
  BY <1>1, Parts DEF Entries
<1>3. PICK v \in BOOLEAN : v = (old.cacheable /\ IsCacheable(header))
  OBVIOUS
<1>4. now \in 0..MaxNow
  BY DEF WorldTyped
<1>5. PICK read : read = [c EXCEPT !.entry[item].cacheable = v]
  OBVIOUS
<1>6. PICK e0 : e0 = [old EXCEPT !.cacheable = v]
  OBVIOUS
<1>7. /\ e0 \in Entries /\ e0.ids = old.ids /\ e0.lastUsed = old.lastUsed
      /\ e0.tree = old.tree /\ e0.parse = old.parse
  BY <1>2, <1>6 DEF Entries
<1>8. read = [c EXCEPT !.entry[item] = e0]
  BY <1>1, <1>5, <1>6
<1>9. /\ read \in Processes /\ Puts(c, read, item, e0) /\ read.spec = c.spec
      /\ read.jobs = c.jobs /\ read.out = c.out /\ read.entry[item] = e0
  BY <1>7, <1>8, EditIs DEF Puts
<1> DEFINE d == Harvested(c, item, result, header)
<1>10. CASE result = "failed"
  <2>1. PICK e : e = [e0 EXCEPT !.status = -1]
    OBVIOUS
  <2>2. /\ e \in Entries /\ e.ids = old.ids /\ e.lastUsed = old.lastUsed
        /\ e.tree = old.tree /\ e.status # 0
    BY <1>7, <2>1 DEF Entries
  <2>3. d = [read EXCEPT !.entry[item] = e]
    BY <1>1, <1>3, <1>5, <1>9, <1>10, <2>1 DEF Harvested
  <2>4. /\ d \in Processes /\ Puts(read, d, item, e) /\ d.spec = read.spec
        /\ d.jobs = read.jobs /\ d.out = read.out
    BY <1>9, <2>2, <2>3, EditIs DEF Puts
  <2>5. Puts(c, d, item, e)
    BY <1>9, <2>4 DEF Puts
  <2> QED
    BY <1>1, <1>9, <2>2, <2>4, <2>5
<1>11. CASE result = "same"
  <2>1. PICK e : e = [e0 EXCEPT !.status = 1, !.time = now]
    OBVIOUS
  <2>2. /\ e \in Entries /\ e.ids = old.ids /\ e.lastUsed = old.lastUsed
        /\ e.tree = old.tree /\ e.status # 0
    <3>1. PICK status \in {-1, 0, 1} : status = 1
      OBVIOUS
    <3>2. e = [e0 EXCEPT !.status = status, !.time = now]
      BY <2>1, <3>1
    <3>3. /\ e \in Entries /\ e.ids = old.ids /\ e.lastUsed = old.lastUsed
          /\ e.tree = old.tree /\ e.status = status
      BY <1>4, <1>7, <3>2 DEF Entries
    <3> QED
      BY <3>1, <3>3
  <2>3. d = [read EXCEPT !.entry[item] = e]
    BY ZenonT(60), <1>1, <1>3, <1>5, <1>9, <1>11, <2>1 DEF Harvested
  <2>4. /\ d \in Processes /\ Puts(read, d, item, e) /\ d.spec = read.spec
        /\ d.jobs = read.jobs /\ d.out = read.out
    BY <1>9, <2>2, <2>3, EditIs DEF Puts
  <2>5. Puts(c, d, item, e)
    BY <1>9, <2>4 DEF Puts
  <2> QED
    BY <1>1, <1>9, <2>2, <2>4, <2>5
<1>12. CASE result = "new"
  <2>1. PICK status : status = IF old.parse THEN 0 ELSE 1
    OBVIOUS
  <2>2. PICK e : e = [e0 EXCEPT !.tree = NoTree, !.status = status, !.time = now]
    OBVIOUS
  <2>3. /\ e \in Entries /\ e.ids = old.ids /\ e.lastUsed = old.lastUsed
        /\ e.tree = NoTree /\ (e.status # 0 \/ MustParse(e))
    <3>1. status \in {-1, 0, 1} /\ (status # 0 \/ old.parse) /\ NoTree \in Trees
      BY <1>2, <2>1 DEF Trees
    <3>2. /\ e \in Entries /\ e.ids = old.ids /\ e.lastUsed = old.lastUsed
          /\ e.tree = NoTree /\ e.status = status /\ e.parse = old.parse
      BY <1>4, <1>7, <2>2, <3>1 DEF Entries
    <3> QED
      BY <3>1, <3>2 DEF MustParse
  <2>4. CASE old.tree = NoTree
    <3>1. d = [read EXCEPT !.entry[item] = e]
      <4>1. d = [read EXCEPT !.entry[item].status = status, !.entry[item].time = now]
        BY <1>1, <1>3, <1>5, <1>7, <1>9, <1>12, <2>1, <2>4 DEF Harvested, ReleaseOldTree
      <4>2. e = [e0 EXCEPT !.status = status, !.time = now]
        BY <1>7, <2>2, <2>4 DEF Entries
      <4>3. read \in Processes /\ item \in DOMAIN read.entry /\ read.entry[item] = e0
        BY <1>9 DEF Puts
      <4>4. d = [read EXCEPT !.entry[item] = [e0 EXCEPT !.status = status, !.time = now]]
        BY ZenonT(60), <4>1, <4>3, EditParts
      <4> QED
        BY <4>2, <4>4
    <3>2. /\ d \in Processes /\ Puts(read, d, item, e) /\ d.spec = read.spec
          /\ d.jobs = read.jobs /\ d.out = read.out
      BY <1>9, <2>3, <3>1, EditIs DEF Puts
    <3>3. Puts(c, d, item, e)
      BY <1>9, <3>2 DEF Puts
    <3> QED
      BY <1>1, <1>9, <2>3, <2>4, <3>2, <3>3
  <2>5. CASE old.tree # NoTree
    <3>1. PICK m : m = Free(old.tree)
      OBVIOUS
    <3>2. old.tree \in Ids /\ m \in ToMain
      BY <1>2, <2>5, <3>1, FreeIs DEF Trees
    <3>3. PICK told : told = Tell(read, m)
      OBVIOUS
    <3>4. /\ told \in Processes /\ told.entry = read.entry /\ told.spec = read.spec
          /\ told.jobs = read.jobs /\ told.out = Append(read.out, m)
      BY <1>9, <3>2, <3>3, TellIs
    <3>5. d = [told EXCEPT !.entry[item] = e]
      <4>1. ReleaseOldTree(read, item) = [told EXCEPT !.entry[item].tree = NoTree]
        BY <1>7, <1>9, <2>5, <3>1, <3>3 DEF ReleaseOldTree
      <4>2. d = [[told EXCEPT !.entry[item].tree = NoTree]
                   EXCEPT !.entry[item].status = status, !.entry[item].time = now]
        BY <1>1, <1>3, <1>5, <1>12, <2>1, <4>1 DEF Harvested
      <4>3. told.entry[item] = e0 /\ item \in DOMAIN told.entry
        BY <1>9, <3>4 DEF Puts
      <4>4. PICK e1 : e1 = [e0 EXCEPT !.tree = NoTree]
        OBVIOUS
      <4>5. PICK b : b = [told EXCEPT !.entry[item] = e1]
        OBVIOUS
      <4>6. e1 \in Entries
        BY <1>7, <4>4 DEF Entries, Trees
      <4>7. b \in Processes /\ item \in DOMAIN b.entry /\ b.entry[item] = e1
        BY <3>4, <4>3, <4>5, <4>6, EditIs DEF Puts
      <4>8. [told EXCEPT !.entry[item].tree = NoTree] = b
        BY <4>3, <4>4, <4>5
      <4>9. d = [b EXCEPT !.entry[item].status = status, !.entry[item].time = now]
        BY <4>2, <4>8
      <4>10. d = [b EXCEPT !.entry[item] = [e1 EXCEPT !.status = status, !.time = now]]
        BY ZenonT(60), <4>7, <4>9, EditParts
      <4>11. [e1 EXCEPT !.status = status, !.time = now] = e
        BY <2>2, <4>4
      <4> QED
        BY ZenonT(60), <3>4, <4>3, <4>5, <4>10, <4>11, EditTwice
    <3>6. item \in DOMAIN told.entry
      BY <1>9, <3>4 DEF Puts
    <3>7. /\ d \in Processes /\ Puts(told, d, item, e) /\ d.spec = told.spec
          /\ d.jobs = told.jobs /\ d.out = told.out
      BY <2>3, <3>4, <3>5, <3>6, EditIs
    <3>8. Puts(c, d, item, e)
      BY <1>9, <3>4, <3>7 DEF Puts
    <3>9. d.out = Append(c.out, Free(old.tree)) /\ d.spec = c.spec /\ d.jobs = c.jobs
      BY <1>9, <3>1, <3>4, <3>7
    <3> QED
      BY <1>1, <2>3, <3>2, <3>7, <3>8, <3>9
  <2> QED
    BY <2>4, <2>5
<1> QED
  BY <1>10, <1>11, <1>12, HttpCacheAssumption

\* A child ends.
LEMMA ChildSound ==
  ASSUME WorldTyped, NEW c0, NEW q, Sound(c0, q, {}), NEW job \in c0.jobs,
         NEW item, item = job.item, NEW result \in Results, NEW header \in Headers,
         NEW fault \in Faults,
         NEW d \in ProcessCacheChildResult(
                     Harvested([c0 EXCEPT !.jobs = @ \ {job}], item, result, header),
                     item, fault)
  PROVE  Sound(d, q, {})
<1>1. c0 \in Processes /\ FetchesCoherent(c0)
      /\ \A k \in Ids : Placed(c0, q, {}, k) /\ ParserWaits(c0, q, k)
  BY DEF Sound
<1>2. item \in DOMAIN c0.entry /\ c0.entry[item].status = 0
  BY <1>1 DEF FetchesCoherent
<1>3. PICK jobs : jobs = c0.jobs \ {job}
  OBVIOUS
<1>4. jobs \in SUBSET Jobs /\ \A j \in jobs : j \in c0.jobs /\ j.item # item
  BY <1>1, <1>3, Parts DEF FetchesCoherent
<1>5. PICK c : c = [c0 EXCEPT !.jobs = jobs]
  OBVIOUS
<1>6. /\ c \in Processes /\ c.entry = c0.entry /\ c.spec = c0.spec
      /\ c.jobs = jobs /\ c.out = c0.out
  BY <1>1, <1>4, <1>5, JobsIs
<1>7. PICK old : old = c0.entry[item]
  OBVIOUS
<1>8. PICK h : h = Harvested(c, item, result, header)
  OBVIOUS
<1>9. PICK e \in Entries :
        /\ h \in Processes /\ Puts(c, h, item, e) /\ h.spec = c.spec
        /\ h.jobs = c.jobs /\ e.ids = old.ids /\ e.lastUsed = old.lastUsed
        /\ \/ h.out = c.out /\ e.tree = old.tree
           \/ /\ old.tree \in Ids /\ e.tree = NoTree
              /\ h.out = Append(c.out, Free(old.tree))
        /\ e.status # 0 \/ MustParse(e)
  BY <1>2, <1>6, <1>7, <1>8, HarvestedIs
<1>10. d \in ProcessCacheChildResult(h, item, fault)
  BY <1>3, <1>5, <1>8
<1>11. /\ DOMAIN h.entry = DOMAIN c0.entry /\ h.entry[item] = e
       /\ \A x \in DOMAIN c0.entry : x # item => h.entry[x] = c0.entry[x]
  BY <1>2, <1>6, <1>9 DEF Puts
<1>12. /\ \A k \in Ids : Parser(h, q, k) <=> Parser(c0, q, k)
       /\ \A k \in Ids : /\ In(h.out, DoneFor(k)) <=> In(c0.out, DoneFor(k))
                         /\ One(c0.out, DoneFor(k)) => One(h.out, DoneFor(k))
  <2>1. CASE h.out = c0.out
    BY <2>1, QuietParser
  <2>2. CASE old.tree \in Ids /\ h.out = Append(c0.out, Free(old.tree))
    BY <1>1, <2>2, SaidFree
  <2> QED
    BY <1>6, <1>9, <2>1, <2>2
<1>13. \A k \in Ids : Parser(h, q, k) => Parser(c0, q, k) /\ Head(c0.spec[k]) # item
  BY <1>1, <1>12 DEF ParserWaits
<1>14. \A t \in Ids : TreePlaced(h, q, t)
  <2>1. \A t \in Ids : TreePlaced(c0, q, t)
    BY DEF Sound
  <2>2. \/ h.out = c0.out /\ h.entry[item].tree = c0.entry[item].tree
        \/ /\ c0.entry[item].tree \in Ids /\ h.entry[item].tree = NoTree
           /\ h.out = Append(c0.out, Free(c0.entry[item].tree))
    BY <1>6, <1>7, <1>9, <1>11
  <2> QED
    BY <1>1, <1>2, <1>11, <2>1, <2>2, TreeReleased
<1>15. PICK ids : ids = old.ids
  OBVIOUS
<1>16. /\ ids \in SUBSET Ids /\ ids = h.entry[item].ids /\ IsFiniteSet(ids)
       /\ \A id \in ids : id \in DOMAIN h.spec
  <2>1. ids \in SUBSET Ids
    BY <1>1, <1>2, <1>7, <1>15, Parts DEF Entries
  <2>2. IsFiniteSet(ids) /\ \A id \in ids : id \in DOMAIN c0.spec
    BY <1>2, <1>7, <1>15 DEF Sound, EntriesCoherent
  <2> QED
    BY <1>6, <1>9, <1>11, <1>15, <2>1, <2>2
<1>17. /\ h.spec = c0.spec /\ h.jobs \subseteq c0.jobs
       /\ \A j \in h.jobs : j.item # item
  BY <1>4, <1>6, <1>9
<1>18. CASE MustParse(e)
  <2>1. e.status = 0 /\ e.ids = c0.entry[item].ids /\ e.lastUsed = c0.entry[item].lastUsed
    BY <1>7, <1>9, <1>18 DEF MustParse
  <2>2. Puts(c0, h, item, e)
    BY <1>2, <1>11 DEF Puts
  <2>3. Sound(h, q, {})
    BY <1>2, <1>9, <1>12, <1>13, <1>14, <1>17, <2>1, <2>2, SettleSound
  <2>4. \A k \in Ids : Parser(h, q, k) => Head(h.spec[k]) # item
    BY <1>13, <1>17
  <2>5. MustParse(h.entry[item]) /\ item \in DOMAIN h.entry
    BY <1>2, <1>11, <1>18
  <2> QED
    BY <1>9, <1>10, <1>16, <1>17, <2>3, <2>4, <2>5, ResultSound
<1>19. CASE ~MustParse(e)
  <2>1. PICK f : f = [e EXCEPT !.ids = {}]
    OBVIOUS
  <2>2. f \in Entries /\ f.status # 0 /\ f.ids = {} /\ f.tree = e.tree
    BY <1>9, <1>19, <2>1 DEF Entries
  <2>3. PICK b : b = [h EXCEPT !.entry[item] = f]
    OBVIOUS
  <2>4. /\ b \in Processes /\ Puts(h, b, item, f) /\ b.spec = h.spec
        /\ b.jobs = h.jobs /\ b.out = h.out
    BY <1>2, <1>9, <1>11, <2>2, <2>3, EditIs
  <2>5. Puts(c0, b, item, f)
    BY <1>11, <2>4 DEF Puts
  <2>6. /\ \A k \in Ids : Parser(b, q, k) => Parser(c0, q, k) /\ Head(c0.spec[k]) # item
        /\ \A k \in Ids : /\ In(b.out, DoneFor(k)) <=> In(c0.out, DoneFor(k))
                          /\ One(c0.out, DoneFor(k)) => One(b.out, DoneFor(k))
    BY <1>12, <1>13, <2>4, QuietParser
  <2>7. \A t \in Ids : TreePlaced(b, q, t)
    <3>1. /\ DOMAIN b.entry = DOMAIN h.entry /\ b.out = h.out
          /\ \A x \in DOMAIN h.entry : b.entry[x].tree = h.entry[x].tree
      BY <1>2, <1>11, <2>2, <2>4 DEF Puts
    <3>2. \A t : Kept(b, t) <=> Kept(h, t)
      BY <3>1 DEF Kept
    <3> QED
      BY <1>14, <3>1, <3>2 DEF TreePlaced
  <2>8. /\ f.status # 0 /\ f.ids = {} /\ ids = c0.entry[item].ids
        /\ b.spec = c0.spec /\ b.jobs \subseteq c0.jobs
        /\ \A j \in b.jobs : j.item # item
    BY <1>7, <1>15, <1>17, <2>2, <2>4
  <2>9. Sound(b, q, ids)
    BY <1>2, <2>2, <2>4, <2>5, <2>6, <2>7, <2>8, SettleSound
  <2>10. b = [h EXCEPT !.entry[item].ids = {}]
    BY <1>11, <2>1, <2>3
  <2>11. ~MustParse(h.entry[item]) /\ item \in DOMAIN h.entry
    BY <1>2, <1>11, <1>19
  <2>12. Sound([h EXCEPT !.entry[item].ids = {}], q, ids)
    BY <2>9, <2>10
  <2> QED
    BY <1>9, <1>10, <1>16, <2>11, <2>12, ResultSound
<1> QED
  BY <1>18, <1>19

\* What a report makes of the entry it is about.
Reported(c, item, tree) ==
  IF tree = NoTree
  THEN [c EXCEPT !.entry[item].status = -1]
  ELSE [c EXCEPT !.entry[item].status = 1, !.entry[item].tree = tree]

LEMMA ReportedIs ==
  ASSUME NEW c \in Processes, NEW item \in DOMAIN c.entry, c.entry[item].tree = NoTree,
         NEW tree \in Trees, NEW h, h = Reported(c, item, tree)
  PROVE  \E e \in Entries :
           /\ e.status # 0 /\ e.ids = c.entry[item].ids /\ e.tree = tree
           /\ h \in Processes /\ Puts(c, h, item, e) /\ h.spec = c.spec
           /\ h.jobs = c.jobs /\ h.out = c.out
<1>1. PICK status \in {-1, 1} : status = IF tree = NoTree THEN -1 ELSE 1
  OBVIOUS
<1>2. PICK old : old = c.entry[item]
  OBVIOUS
<1>3. old \in Entries /\ old.tree = NoTree
  BY <1>2, Parts
<1>4. PICK e : e = [old EXCEPT !.status = status, !.tree = tree]
  OBVIOUS
<1>5. e \in Entries /\ e.status # 0 /\ e.ids = old.ids /\ e.tree = tree
  <2>1. status \in {-1, 0, 1} /\ status # 0
    OBVIOUS
  <2>2. e \in Entries /\ e.status = status /\ e.ids = old.ids /\ e.tree = tree
    BY <1>3, <1>4, <2>1 DEF Entries
  <2> QED
    BY <2>1, <2>2
<1>6. PICK e1, c1 : /\ e1 = [old EXCEPT !.status = status]
                    /\ c1 = [c EXCEPT !.entry[item] = e1]
  OBVIOUS
<1>7. e1 \in Entries
  BY <1>3, <1>6 DEF Entries
<1>8. /\ c1 \in Processes /\ Puts(c, c1, item, e1) /\ c1.spec = c.spec
      /\ c1.jobs = c.jobs /\ c1.out = c.out
  BY <1>6, <1>7, EditIs
<1>9. [c EXCEPT !.entry[item].status = status] = c1
  BY <1>2, <1>6
<1>10. /\ h \in Processes /\ Puts(c, h, item, e) /\ h.spec = c.spec
       /\ h.jobs = c.jobs /\ h.out = c.out
  <2>1. CASE tree = NoTree
    <3>1. h = c1
      BY <1>1, <1>9, <2>1 DEF Reported
    <3>2. e = e1
      BY <1>3, <1>4, <1>6, <2>1 DEF Entries
    <3> QED
      BY <1>8, <3>1, <3>2
  <2>2. CASE tree # NoTree
    <3>1. h = [c1 EXCEPT !.entry[item].tree = tree]
      BY <1>1, <1>9, <2>2 DEF Reported
    <3>2. item \in DOMAIN c1.entry /\ c1.entry[item] = e1
      BY <1>8 DEF Puts
    <3>3. h = [c1 EXCEPT !.entry[item] = e]
      BY <1>4, <1>6, <3>1, <3>2
    <3>4. /\ h \in Processes /\ Puts(c1, h, item, e) /\ h.spec = c1.spec
          /\ h.jobs = c1.jobs /\ h.out = c1.out
      BY <1>5, <1>8, <3>2, <3>3, EditIs
    <3>5. Puts(c, h, item, e)
      BY <1>8, <3>4 DEF Puts
    <3> QED
      BY <1>8, <3>4, <3>5
  <2> QED
    BY <2>1, <2>2
<1> QED
  BY <1>2, <1>5, <1>10

\* A parse ends: its item waited for it, and the tree becomes the cache's.
LEMMA ParsedSound ==
  ASSUME WorldTyped, NEW c, NEW q \in Seq(ToProcess), q # <<>>, Sound(c, q, {}),
         NEW m, m = Head(q), m.type = "parsed"
  PROVE  LET item == Head(c.spec[m.id])
             h    == IF m.tree = NoTree
                     THEN [c EXCEPT !.entry[item].status = -1]
                     ELSE [c EXCEPT !.entry[item].status = 1,
                                    !.entry[item].tree = m.tree]
         IN  /\ m.id \in DOMAIN c.spec /\ item \in DOMAIN c.entry
             /\ \A fault \in Faults : \A d \in ProcessCacheChildResult(h, item, fault) :
                  Sound(d, Tail(q), {})
<1>1. c \in Processes /\ OneParser(c, q)
      /\ \A k \in Ids : Placed(c, q, {}, k) /\ ParserWaits(c, q, k)
  BY DEF Sound
<1>2. m \in ToProcess
  BY HeadTailProperties
<1>3. PICK id, tree : id = m.id /\ tree = m.tree
  OBVIOUS
<1>4. id \in Ids /\ tree \in Trees
  BY <1>2, <1>3 DEF ToProcess, Messages
<1>5. \A k \in Ids : /\ m \notin ReqFrom(k)
                     /\ m \in ParsedBy(k) <=> k = id
                     /\ m \in TreeIn(k) <=> k = tree
  BY <1>2, <1>3 DEF ReqFrom, ParsedBy, TreeIn
<1>6. PICK r : r = Tail(q)
  OBVIOUS
<1>7. \A M : One(q, M) => /\ In(r, M) <=> (In(q, M) /\ m \notin M)
                          /\ m \in M => In(q, M)
                          /\ One(r, M)
  BY <1>6, InTail
<1>8. In(q, ParsedBy(id)) /\ ~In(r, ParsedBy(id))
  BY <1>1, <1>4, <1>5, <1>7 DEF Placed
<1>9. Parser(c, q, id)
  BY <1>8 DEF Parser
<1>10. PICK item : item = Head(c.spec[id])
  OBVIOUS
<1>11. PICK old : old = c.entry[item]
  OBVIOUS
<1>12. /\ id \in DOMAIN c.spec /\ item \in DOMAIN c.entry
       /\ old.status = 0 /\ old.tree = NoTree
       /\ \A job \in c.jobs : job.item # item
  BY <1>1, <1>4, <1>9, <1>10, <1>11 DEF ParserWaits
<1>13. old \in Entries
  BY <1>1, <1>11, <1>12, Parts
<1>14. id \notin asked /\ thread[id] # "parsing" /\ ~In(c.out, HandTo(id))
  <2>1. Placed(c, q, {}, id)
    BY <1>1, <1>4
  <2>2. In(c.out, HandTo(id)) => In(c.out, DoneFor(id))
    BY DEF In, HandTo
  <2> QED
    BY <1>8, <2>1, <2>2 DEF Placed
<1>15. ASSUME NEW k \in Ids
       PROVE  /\ In(r, ReqFrom(k)) <=> In(q, ReqFrom(k))
              /\ One(q, ReqFrom(k)) => One(r, ReqFrom(k))
              /\ In(r, ParsedBy(k)) => In(q, ParsedBy(k))
              /\ One(q, ParsedBy(k)) => One(r, ParsedBy(k))
  <2>1. One(q, ReqFrom(k)) /\ One(q, ParsedBy(k))
    BY <1>1 DEF Placed
  <2> QED
    BY <1>5, <1>7, <2>1
<1>16. ASSUME NEW b, b.out = c.out, NEW k \in Ids, Parser(b, r, k)
       PROVE  Parser(c, q, k) /\ Head(c.spec[k]) # item
  <2>1. k # id
    BY <1>8, <1>14, <1>16 DEF Parser
  <2>2. Parser(c, q, k)
    BY <1>15, <1>16 DEF Parser
  <2> QED
    BY <1>1, <1>4, <1>9, <1>10, <2>1, <2>2 DEF OneParser
<1>17. ASSUME NEW b, b.out = c.out, NEW f, f.tree = tree, Puts(c, b, item, f)
       PROVE  \A t \in Ids : TreePlaced(b, r, t)
  <2> SUFFICES ASSUME NEW t \in Ids
               PROVE  TreePlaced(b, r, t)
    OBVIOUS
  <2>1. TreePlaced(c, q, t) /\ NoTree # t
    BY HttpCacheAssumption DEF Sound, NoTree
  <2>2. /\ DOMAIN b.entry = DOMAIN c.entry /\ b.entry[item].tree = tree
        /\ \A x \in DOMAIN c.entry : x # item => b.entry[x] = c.entry[x]
    BY <1>12, <1>17 DEF Puts
  <2>3. /\ One(r, TreeIn(t))
        /\ In(r, TreeIn(t)) <=> (In(q, TreeIn(t)) /\ t # tree)
        /\ t = tree => In(q, TreeIn(t))
    BY <1>5, <1>7, <2>1 DEF TreePlaced
  <2>4. CASE t = tree
    <3>1. ~Kept(c, t)
      BY <2>1, <2>3, <2>4 DEF TreePlaced
    <3>2. \A x \in DOMAIN b.entry : b.entry[x].tree = t => x = item
      BY <2>2, <3>1 DEF Kept
    <3> QED
      BY <1>17, <2>1, <2>3, <2>4, <3>2 DEF TreePlaced
  <2>5. CASE t # tree
    <3>1. \A x \in DOMAIN b.entry : b.entry[x].tree = t => c.entry[x].tree = t
      BY <2>2, <2>5
    <3>2. Kept(b, t) => Kept(c, t)
      BY <2>2, <3>1 DEF Kept
    <3>3. \A i, j \in DOMAIN b.entry :
            b.entry[i].tree = t /\ b.entry[j].tree = t => i = j
      BY <2>1, <2>2, <3>1 DEF TreePlaced
    <3> QED
      BY <1>17, <2>1, <2>3, <2>5, <3>2, <3>3 DEF TreePlaced
  <2> QED
    BY <2>4, <2>5
<1>18. ASSUME NEW h, h = IF tree = NoTree
                         THEN [c EXCEPT !.entry[item].status = -1]
                         ELSE [c EXCEPT !.entry[item].status = 1,
                                        !.entry[item].tree = tree],
              NEW fault \in Faults,
              NEW d \in ProcessCacheChildResult(h, item, fault)
       PROVE  Sound(d, r, {})
  <2>1. PICK e \in Entries :
          /\ e.status # 0 /\ e.ids = old.ids /\ e.tree = tree
          /\ h \in Processes /\ Puts(c, h, item, e) /\ h.spec = c.spec
          /\ h.jobs = c.jobs /\ h.out = c.out
    <3>1. h = Reported(c, item, tree)
      BY <1>18 DEF Reported
    <3>2. c.entry[item].tree = NoTree /\ item \in DOMAIN c.entry
      BY <1>11, <1>12
    <3> QED
      BY <1>1, <1>4, <1>11, <3>1, <3>2, ReportedIs
  <2>2. /\ item \in DOMAIN h.entry /\ h.entry[item] = e /\ ~MustParse(e)
    BY <2>1 DEF Puts, MustParse
  <2>3. PICK ids : ids = old.ids
    OBVIOUS
  <2>4. /\ ids \in SUBSET Ids /\ IsFiniteSet(ids)
        /\ \A k \in ids : k \in DOMAIN h.spec
    <3>1. ids \in SUBSET Ids
      BY <1>13, <2>3 DEF Entries
    <3>2. IsFiniteSet(ids) /\ \A k \in ids : k \in DOMAIN c.spec
      BY <1>11, <1>12, <2>3 DEF Sound, EntriesCoherent
    <3> QED
      BY <2>1, <2>2, <3>1, <3>2
  <2>5. PICK f : f = [e EXCEPT !.ids = {}]
    OBVIOUS
  <2>6. f \in Entries /\ f.status # 0 /\ f.ids = {} /\ f.tree = tree
    BY <2>1, <2>5 DEF Entries
  <2>7. PICK b : b = [h EXCEPT !.entry[item] = f]
    OBVIOUS
  <2>8. /\ b \in Processes /\ Puts(h, b, item, f) /\ b.spec = c.spec
         /\ b.jobs = c.jobs /\ b.out = c.out
    BY <2>1, <2>2, <2>6, <2>7, EditIs
  <2>9. Puts(c, b, item, f)
    BY <1>12, <2>1, <2>2, <2>8 DEF Puts
  <2>10. \A t \in Ids : TreePlaced(b, r, t)
    BY <1>17, <2>6, <2>8, <2>9
  <2>11. \A k \in Ids : Parser(b, r, k) => Parser(c, q, k) /\ Head(c.spec[k]) # item
    BY <1>16, <2>8
  <2>12. /\ c.entry[item].status = 0 /\ ids = c.entry[item].ids
         /\ b.jobs \subseteq c.jobs /\ \A job \in b.jobs : job.item # item
    BY <1>11, <1>12, <2>3, <2>8
  <2>13. /\ \A k \in Ids : In(b.out, DoneFor(k)) <=> In(c.out, DoneFor(k))
         /\ \A k \in Ids : One(c.out, DoneFor(k)) => One(b.out, DoneFor(k))
    BY <2>8
  <2>14. Sound(b, r, ids)
    BY <1>12, <1>15, <2>6, <2>8, <2>9, <2>10, <2>11, <2>12, <2>13, SettleSound
  <2>15. b = [h EXCEPT !.entry[item].ids = {}]
    BY <2>1, <2>2, <2>5, <2>7
  <2>16. ~MustParse(h.entry[item]) /\ ids = h.entry[item].ids
    BY <2>1, <2>2, <2>3
  <2>17. Sound([h EXCEPT !.entry[item].ids = {}], r, ids)
    BY <2>14, <2>15
  <2> QED
    BY <1>18, <2>1, <2>2, <2>4, <2>16, <2>17, ResultSound
<1> QED
  BY ZenonT(60), <1>3, <1>6, <1>10, <1>12, <1>18

-----------------------------------------------------------------------------
(* The steps of the process.                                                *)

LEMMA TakenSound ==
  ASSUME WorldTyped, NEW c, NEW q \in Seq(ToProcess), q # <<>>, Sound(c, q, {}),
         NEW id \in Ids, Head(q) \in ReqFrom(id)
  PROVE  /\ Sound(c, Tail(q), {id}) /\ thread[id] # "idle"
         /\ id \notin DOMAIN c.spec /\ Untried(c, id)
<1>1. PICK m, r : m = Head(q) /\ r = Tail(q)
  OBVIOUS
<1>2. \A k \in Ids : /\ m \in ReqFrom(k) <=> k = id
                     /\ m \notin ParsedBy(k) /\ m \notin TreeIn(k)
  BY <1>1 DEF ReqFrom, ParsedBy, TreeIn
<1>3. \A M : One(q, M) => /\ In(r, M) <=> (In(q, M) /\ m \notin M)
                          /\ m \in M => In(q, M)
                          /\ One(r, M)
  BY <1>1, InTail
<1>4. /\ c \in Processes /\ OneParser(c, q)
      /\ EntriesCoherent(c) /\ FetchesCoherent(c) /\ SpecsCoherent(c, q)
      /\ \A k \in Ids : Placed(c, q, {}, k) /\ ParserWaits(c, q, k)
      /\ \A t \in Ids : TreePlaced(c, q, t)
  BY DEF Sound
<1>5. ASSUME NEW k \in Ids
      PROVE  /\ One(r, ReqFrom(k)) /\ One(r, ParsedBy(k)) /\ One(r, TreeIn(k))
             /\ In(r, ReqFrom(k)) <=> (In(q, ReqFrom(k)) /\ k # id)
             /\ k = id => In(q, ReqFrom(k))
             /\ In(r, ParsedBy(k)) <=> In(q, ParsedBy(k))
             /\ In(r, TreeIn(k)) <=> In(q, TreeIn(k))
  <2>1. One(q, ReqFrom(k)) /\ One(q, ParsedBy(k)) /\ One(q, TreeIn(k))
    BY <1>4 DEF Placed, TreePlaced
  <2> QED
    BY <1>2, <1>3, <2>1
<1>6. SpecsCoherent(c, r)
  BY <1>4, <1>5 DEF SpecsCoherent
<1>7. \A k \in Ids : Placed(c, r, {id}, k)
  BY <1>4, <1>5 DEF Placed
<1>8. \A k \in Ids : Parser(c, r, k) <=> Parser(c, q, k)
  BY <1>5 DEF Parser
<1>9. (\A k \in Ids : ParserWaits(c, r, k)) /\ OneParser(c, r)
  BY <1>4, <1>8 DEF ParserWaits, OneParser
<1>10. \A t \in Ids : TreePlaced(c, r, t)
  BY <1>4, <1>5 DEF TreePlaced
<1>11. id \in asked
  BY <1>4, <1>5 DEF Placed
<1>12. thread[id] # "idle"
  BY <1>4, <1>11 DEF Placed
<1>13. id \notin DOMAIN c.spec /\ Untried(c, id)
  BY <1>4, <1>5 DEF SpecsCoherent
<1> QED
  BY <1>1, <1>4, <1>6, <1>7, <1>9, <1>10, <1>12, <1>13 DEF Sound

\* What the process does shows in nothing but the process and its queue.
LEMMA ProcessStep ==
  ASSUME IInv, Sound(cache', toCache', {}), toCache' \in Seq(ToProcess),
         UNCHANGED <<now, asked, threadVars, freed>>, nextPurge' \in Nat
  PROVE  IInv'
<1>1. /\ now' = now /\ asked' = asked /\ want' = want /\ thread' = thread
      /\ given' = given /\ freed' = freed
  BY DEF threadVars
<1>2. WorldTyped'
  BY <1>1 DEF IInv, WorldTyped
<1>3. \A k \in Ids : RequestSpec(k)' = RequestSpec(k) /\ FallbackOf(k)' = FallbackOf(k)
  BY <1>1 DEF RequestSpec, ItemOf, FallbackOf
<1>4. EntriesCoherent(cache)'
  BY <1>1 DEF Sound, EntriesCoherent
<1>5. FetchesCoherent(cache)'
  BY DEF Sound, FetchesCoherent
<1>6. SpecsCoherent(cache, toCache)'
  <2>1. \A id \in DOMAIN cache'.spec : id \in Ids
    BY Parts DEF Sound
  <2>2. \A k : Untried(cache, k)' <=> Untried(cache', k)
    BY DEF Untried
  <2>3. ASSUME NEW id \in DOMAIN cache'.spec
        PROVE  \/ cache'.spec[id] = RequestSpec(id)' /\ Untried(cache, id)'
               \/ cache'.spec[id] = <<FallbackOf(id)'>> /\ want'[id].fallback
    BY <1>1, <1>3, <2>1, <2>2 DEF Sound, SpecsCoherent
  <2>4. ASSUME NEW id \in Ids, thread'[id] = "idle" \/ In(toCache', ReqFrom(id))
        PROVE  id \notin DOMAIN cache'.spec /\ Untried(cache, id)'
    BY <1>1, <2>2, <2>4 DEF Sound, SpecsCoherent
  <2> QED
    BY <2>3, <2>4 DEF SpecsCoherent
<1>7. \A k \in Ids : Placed(cache, toCache, {}, k)'
  BY <1>1 DEF Sound, Placed, Held
<1>8. \A k \in Ids : Parser(cache, toCache, k)' <=> Parser(cache', toCache', k)
  BY <1>1 DEF Parser
<1>9. (\A k \in Ids : ParserWaits(cache, toCache, k)') /\ OneParser(cache, toCache)'
  BY <1>8 DEF Sound, ParserWaits, OneParser
<1>10. \A t \in Ids : TreePlaced(cache, toCache, t)'
  BY <1>1 DEF Sound, TreePlaced, Kept
<1> QED
  BY <1>2, <1>4, <1>5, <1>6, <1>7, <1>9, <1>10 DEF Sound, IInv

LEMMA HandleRequestKeeps ==
  ASSUME IInv, HandleRequest
  PROVE  IInv'
<1>1. WorldTyped /\ Sound(cache, toCache, {}) /\ toCache \in Seq(ToProcess)
      /\ toCache # <<>> /\ cache \in Processes
  BY DEF IInv, WorldTyped, Sound, HandleRequest
<1>2. PICK m : m = Head(toCache)
  OBVIOUS
<1>3. m \in ToProcess /\ Tail(toCache) \in Seq(ToProcess)
  BY <1>1, <1>2, HeadTailProperties
<1>4. PICK id : id = m.id
  OBVIOUS
<1>5. id \in Ids /\ m \in ReqFrom(id)
  BY <1>2, <1>3, <1>4 DEF ToProcess, ReqFrom, HandleRequest
<1>6. PICK r : r = Tail(toCache)
  OBVIOUS
<1>7. /\ Sound(cache, r, {id}) /\ thread[id] # "idle"
      /\ id \notin DOMAIN cache.spec /\ Untried(cache, id)
  BY <1>1, <1>2, <1>5, <1>6, TakenSound
<1>8. PICK c : c = [cache EXCEPT !.spec = With(@, id, RequestSpec(id))]
  OBVIOUS
<1>9. RequestSpec(id) \in Seq(Items) \ {<<>>}
  BY <1>1, <1>5, ItemsOf
<1>10. /\ c \in Processes /\ DOMAIN c.spec = DOMAIN cache.spec \cup {id}
       /\ c.spec[id] = RequestSpec(id)
       /\ \A x \in DOMAIN cache.spec : x # id => c.spec[x] = cache.spec[x]
       /\ c.entry = cache.entry /\ c.jobs = cache.jobs /\ c.out = cache.out
  <2>1. PICK s : s = RequestSpec(id)
    OBVIOUS
  <2>2. c = [cache EXCEPT !.spec = With(@, id, s)]
    BY <1>8, <2>1
  <2>3. s \in Seq(Items) \ {<<>>} /\ cache \in Processes /\ id \in Ids
    BY <1>1, <1>5, <1>9, <2>1
  <2>4. /\ c \in Processes /\ Notes(cache, c, id, s)
        /\ c.entry = cache.entry /\ c.jobs = cache.jobs /\ c.out = cache.out
    BY <2>2, <2>3, SpecIs
  <2> QED
    BY <2>1, <2>4 DEF Notes
<1>11. Sound(c, r, {id})
  BY <1>1, <1>5, <1>7, <1>10, SpecSound
<1>12. PICK fault \in Faults : cache' = ProcessNextRequestItem(c, id, fault)
  BY <1>2, <1>4, <1>8 DEF HandleRequest
<1>13. Sound(cache', r, {id} \ {id})
  BY <1>1, <1>5, <1>10, <1>11, <1>12, RequestSound
<1>14. Sound(cache', toCache', {})
  <2>1. {id} \ {id} = {} /\ toCache' = r
    BY <1>6 DEF HandleRequest
  <2> QED
    BY <1>13, <2>1
<1> QED
  BY <1>3, <1>14, ProcessStep DEF HandleRequest, clockVars, IInv, WorldTyped

LEMMA HandleParsedKeeps ==
  ASSUME IInv, HandleParsed
  PROVE  IInv'
<1>1. WorldTyped /\ Sound(cache, toCache, {}) /\ toCache \in Seq(ToProcess)
      /\ toCache # <<>> /\ cache \in Processes
  BY DEF IInv, WorldTyped, Sound, HandleParsed
<1>2. PICK m : m = Head(toCache)
  OBVIOUS
<1>3. m \in ToProcess /\ Tail(toCache) \in Seq(ToProcess)
  BY <1>1, <1>2, HeadTailProperties
<1>4. PICK id, tree, item : id = m.id /\ tree = m.tree /\ item = Head(cache.spec[id])
  OBVIOUS
<1>5. tree \in Trees /\ m.type = "parsed"
  BY <1>2, <1>3, <1>4 DEF ToProcess, Messages, HandleParsed
<1>6. /\ id \in DOMAIN cache.spec /\ item \in DOMAIN cache.entry
  BY <1>1, <1>2, <1>4, <1>5, ParsedSound
<1>7. PICK c : c = IF tree = NoTree
                   THEN [cache EXCEPT !.entry[item].status = -1]
                   ELSE [cache EXCEPT !.entry[item].status = 1, !.entry[item].tree = tree]
  OBVIOUS
<1>8. PICK fault \in Faults : cache' \in ProcessCacheChildResult(c, item, fault)
  BY <1>2, <1>4, <1>6, <1>7 DEF HandleParsed
<1>9. Sound(cache', Tail(toCache), {})
  BY <1>1, <1>2, <1>4, <1>5, <1>7, <1>8, ParsedSound
<1> QED
  BY <1>3, <1>9, ProcessStep DEF HandleParsed, clockVars, IInv, WorldTyped

LEMMA ChildFinishedKeeps ==
  ASSUME IInv, HttpCacheChildFinished
  PROVE  IInv'
<1>1. WorldTyped /\ Sound(cache, toCache, {}) /\ cache \in Processes
      /\ FetchesCoherent(cache)
  BY DEF IInv, Sound
<1>2. PICK job \in cache.jobs :
        LET c == [cache EXCEPT !.jobs = @ \ {job}]
        IN  IF job.item \notin DOMAIN cache.entry THEN cache' = c
            ELSE \E result \in Results, header \in Headers, fault \in Faults :
                   /\ result = "same" => job.known
                   /\ cache' \in ProcessCacheChildResult(
                        Harvested(c, job.item, result, header), job.item, fault)
  BY DEF HttpCacheChildFinished
<1>3. job.item \in DOMAIN cache.entry
  BY <1>1 DEF FetchesCoherent
<1>4. PICK result \in Results, header \in Headers, fault \in Faults :
        cache' \in ProcessCacheChildResult(
          Harvested([cache EXCEPT !.jobs = @ \ {job}], job.item, result, header),
          job.item, fault)
  BY <1>2, <1>3
<1>5. Sound(cache', toCache, {})
  BY <1>1, <1>4, ChildSound
<1>6. Sound(cache', toCache', {})
  BY <1>5 DEF HttpCacheChildFinished
<1> QED
  BY <1>6, ProcessStep DEF HttpCacheChildFinished, clockVars, IInv, WorldTyped

LEMMA PurgeKeeps ==
  ASSUME IInv, Purge
  PROVE  IInv'
<1>1. WorldTyped /\ Sound(cache, toCache, {}) /\ cache \in Processes
      /\ EntriesCoherent(cache)
  BY DEF IInv, Sound
<1>2. PICK S : S = {item \in DOMAIN cache.entry : TimeToFree(cache.entry[item])}
  OBVIOUS
<1>3. PICK order \in SetToSeqs(S) : cache' = RemoveEntries(cache, order)
  BY <1>2 DEF Purge
<1>4. ASSUME NEW item \in S
      PROVE  item \in DOMAIN cache.entry /\ cache.entry[item].status # 0
  <2>1. item \in DOMAIN cache.entry /\ TimeToFree(cache.entry[item])
    BY <1>2
  <2>2. PICK e : e = cache.entry[item]
    OBVIOUS
  <2>3. /\ e \in Entries /\ TimeToFree(e)
        /\ e.status = 0 => now <= e.lastUsed + FetchTime
    BY <1>1, <2>1, <2>2, Parts DEF EntriesCoherent
  <2>4. /\ now \in Nat /\ e.lastUsed \in Nat /\ FetchTime \in Nat
        /\ PurgeUnused \in Nat /\ PurgeUncacheable \in Nat
    BY <1>1, <2>3, HttpCacheAssumption DEF WorldTyped, Entries
  <2>5. \/ e.lastUsed + PurgeUnused < now
        \/ e.lastUsed + PurgeUncacheable < now
    BY <2>3 DEF TimeToFree
  <2>6. e.lastUsed + FetchTime < now
    BY <2>4, <2>5, FetchAssumption
  <2>7. e.status # 0
    BY <2>3, <2>4, <2>6
  <2> QED
    BY <2>1, <2>2, <2>7
<1>5. S \in SUBSET DOMAIN cache.entry
  BY <1>2
<1>6. Sound(cache', toCache, {})
  BY <1>1, <1>3, <1>4, <1>5, RemoveEntriesSound
<1>7. Sound(cache', toCache', {})
  BY <1>6 DEF Purge
<1>8. nextPurge' \in Nat
  BY <1>1, HttpCacheAssumption DEF Purge, WorldTyped
<1> QED
  BY <1>7, <1>8, ProcessStep DEF Purge, IInv, WorldTyped

-----------------------------------------------------------------------------
(* The steps of main and of the threads, and time.                          *)

\* The process itself stays, but for what main has read of it.
LEMMA WorldStep ==
  ASSUME IInv, WorldTyped', cache' \in Processes,
         cache'.entry = cache.entry, cache'.spec = cache.spec,
         cache'.jobs = cache.jobs, EntriesCoherent(cache)',
         \A k \in DOMAIN cache.spec : want'[k] = want[k],
         \A k \in Ids : thread'[k] = "idle" \/ In(toCache', ReqFrom(k)) =>
                          thread[k] = "idle" \/ In(toCache, ReqFrom(k)),
         \A k \in Ids : Placed(cache, toCache, {}, k)',
         \A k \in Ids : Parser(cache, toCache, k)' => Parser(cache, toCache, k),
         \A t \in Ids : TreePlaced(cache, toCache, t)'
  PROVE  IInv'
<1>1. /\ FetchesCoherent(cache) /\ SpecsCoherent(cache, toCache)
      /\ \A k \in Ids : ParserWaits(cache, toCache, k)
      /\ OneParser(cache, toCache) /\ cache \in Processes
  BY DEF IInv, Sound
<1>2. FetchesCoherent(cache)'
  BY <1>1 DEF FetchesCoherent
<1>3. SpecsCoherent(cache, toCache)'
  <2>1. \A k : Untried(cache, k)' <=> Untried(cache, k)
    BY DEF Untried
  <2>2. \A k \in DOMAIN cache.spec : RequestSpec(k)' = RequestSpec(k)
                                     /\ FallbackOf(k)' = FallbackOf(k)
    BY DEF RequestSpec, ItemOf, FallbackOf
  <2>3. ASSUME NEW k \in DOMAIN cache'.spec
        PROVE  \/ cache'.spec[k] = RequestSpec(k)' /\ Untried(cache, k)'
               \/ cache'.spec[k] = <<FallbackOf(k)'>> /\ want'[k].fallback
    BY <1>1, <2>1, <2>2 DEF SpecsCoherent
  <2>4. ASSUME NEW k \in Ids, thread'[k] = "idle" \/ In(toCache', ReqFrom(k))
        PROVE  k \notin DOMAIN cache'.spec /\ Untried(cache, k)'
    BY <1>1, <2>1, <2>4 DEF SpecsCoherent
  <2> QED
    BY <2>3, <2>4 DEF SpecsCoherent
<1>4. (\A k \in Ids : ParserWaits(cache, toCache, k)') /\ OneParser(cache, toCache)'
  BY <1>1 DEF ParserWaits, OneParser
<1> QED
  BY <1>2, <1>3, <1>4 DEF IInv, Sound

\* One more message to the process, and one fewer to main.
LEMMA ToCacheAppended ==
  ASSUME NEW q \in Seq(ToProcess), NEW m \in ToProcess, NEW r, r = Append(q, m)
  PROVE  /\ r \in Seq(ToProcess)
         /\ \A M : /\ In(r, M) <=> (In(q, M) \/ m \in M)
                   /\ One(q, M) /\ (m \in M => ~In(q, M)) => One(r, M)
BY InAppended, AppendProperties

LEMMA AskKeeps ==
  ASSUME IInv, NEW id \in Ids, Ask(id)
  PROVE  IInv'
<1>1. /\ WorldTyped /\ Sound(cache, toCache, {}) /\ toCache \in Seq(ToProcess)
      /\ cache \in Processes /\ SpecsCoherent(cache, toCache)
      /\ \A k \in Ids : Placed(cache, toCache, {}, k) /\ ParserWaits(cache, toCache, k)
      /\ \A t \in Ids : TreePlaced(cache, toCache, t)
  BY DEF IInv, WorldTyped, Sound
<1>2. /\ thread[id] = "idle" /\ thread' = [thread EXCEPT ![id] = "asking"]
      /\ toCache' = Append(toCache, Req(id)) /\ asked' = asked \cup {id}
      /\ now' = now /\ nextPurge' = nextPurge /\ cache' = cache
      /\ given' = given /\ freed' = freed
  BY DEF Ask, clockVars
<1>3. PICK w \in Wants : want' = [want EXCEPT ![id] = w]
  BY DEF Ask
<1>4. /\ thread \in [Ids -> ThreadStates] /\ want \in [Ids -> Wants] /\ asked \subseteq Ids
  BY <1>1 DEF WorldTyped
<1>5. /\ thread'[id] = "asking"
      /\ \A k \in Ids : k # id => thread'[k] = thread[k] /\ want'[k] = want[k]
  BY <1>2, <1>3, <1>4
<1>6. /\ Req(id) \in ToProcess
      /\ \A k \in Ids : /\ Req(id) \in ReqFrom(k) <=> k = id
                        /\ Req(id) \notin ParsedBy(k) /\ Req(id) \notin TreeIn(k)
  BY ReqIs
<1>7. /\ toCache' \in Seq(ToProcess)
      /\ \A M : /\ In(toCache', M) <=> (In(toCache, M) \/ Req(id) \in M)
                /\ One(toCache, M) /\ (Req(id) \in M => ~In(toCache, M))
                     => One(toCache', M)
  BY <1>1, <1>2, <1>6, ToCacheAppended
<1>8. WorldTyped'
  <2>1. thread' \in [Ids -> ThreadStates] /\ want' \in [Ids -> Wants]
    BY <1>2, <1>3, <1>4 DEF ThreadStates
  <2> QED
    BY <1>1, <1>2, <1>4, <1>7, <2>1 DEF WorldTyped
<1>9. id \notin DOMAIN cache.spec /\ Untried(cache, id)
  BY <1>1, <1>2 DEF SpecsCoherent
<1>10. /\ id \notin asked /\ ~Held(cache, id) /\ ~In(cache.out, DoneFor(id))
       /\ ~In(toCache, ReqFrom(id)) /\ ~In(toCache, ParsedBy(id))
  <2>1. Placed(cache, toCache, {}, id) /\ ParserWaits(cache, toCache, id)
    BY <1>1
  <2>2. id \notin asked
    BY <1>2, <2>1 DEF Placed
  <2>3. ~Parser(cache, toCache, id)
    BY <1>9, <2>1 DEF ParserWaits
  <2> QED
    BY <2>1, <2>2, <2>3 DEF Placed, Parser
<1>11. EntriesCoherent(cache)'
  BY <1>1, <1>2 DEF Sound, EntriesCoherent
<1>12. \A k \in DOMAIN cache.spec : want'[k] = want[k]
  BY <1>1, <1>5, <1>9, Parts
<1>13. ASSUME NEW k \in Ids
       PROVE  /\ In(toCache', ReqFrom(k)) <=> (In(toCache, ReqFrom(k)) \/ k = id)
              /\ In(toCache', ParsedBy(k)) <=> In(toCache, ParsedBy(k))
              /\ In(toCache', TreeIn(k)) <=> In(toCache, TreeIn(k))
              /\ One(toCache', ReqFrom(k)) /\ One(toCache', ParsedBy(k))
              /\ One(toCache', TreeIn(k))
  <2>1. One(toCache, ReqFrom(k)) /\ One(toCache, ParsedBy(k)) /\ One(toCache, TreeIn(k))
    BY <1>1 DEF Placed, TreePlaced
  <2> QED
    BY <1>6, <1>7, <1>10, <2>1
<1>14. \A k \in Ids : thread'[k] = "idle" \/ In(toCache', ReqFrom(k)) =>
                        thread[k] = "idle" \/ In(toCache, ReqFrom(k))
  BY <1>2, <1>5, <1>13
<1>15. ASSUME NEW k \in Ids
       PROVE  Placed(cache, toCache, {}, k)'
  <2>1. /\ Placed(cache, toCache, {}, k) /\ (Held(cache, k)' <=> Held(cache, k))
        /\ k \in asked' <=> k \in asked \/ k = id
    BY <1>1, <1>2 DEF Held
  <2>2. /\ In(toCache', ReqFrom(k)) <=> (In(toCache, ReqFrom(k)) \/ k = id)
        /\ In(toCache', ParsedBy(k)) <=> In(toCache, ParsedBy(k))
        /\ One(toCache', ReqFrom(k)) /\ One(toCache', ParsedBy(k))
        /\ cache' = cache
    BY <1>2, <1>13
  <2>3. CASE k = id
    <3>1. /\ ~Held(cache, k) /\ ~In(cache.out, DoneFor(k)) /\ ~In(toCache, ParsedBy(k))
          /\ k \in asked' /\ thread'[k] = "asking"
      BY <1>2, <1>5, <1>10, <2>3
    <3> QED
      BY <2>1, <2>2, <2>3, <3>1 DEF Placed
  <2>4. CASE k # id
    <3>1. (k \in asked' <=> k \in asked) /\ thread'[k] = thread[k]
      BY <1>2, <1>5, <2>4
    <3> QED
      BY <2>1, <2>2, <2>4, <3>1 DEF Placed
  <2> QED
    BY <2>3, <2>4
<1>16. \A k \in Ids : Parser(cache, toCache, k)' => Parser(cache, toCache, k)
  BY <1>2, <1>5, <1>13 DEF Parser
<1>17. ASSUME NEW t \in Ids
       PROVE  TreePlaced(cache, toCache, t)'
  <2>1. TreePlaced(cache, toCache, t) /\ (Kept(cache, t)' <=> Kept(cache, t))
    BY <1>1, <1>2 DEF Kept
  <2>2. thread[t] = "ended" => thread'[t] = "ended"
    BY <1>2, <1>5
  <2> QED
    BY <1>2, <1>13, <2>1, <2>2 DEF TreePlaced
<1> QED
  BY <1>1, <1>2, <1>8, <1>11, <1>12, <1>14, <1>15, <1>16, <1>17, WorldStep

\* What stays when neither the requests on their way nor the answers change.
LEMMA Around ==
  ASSUME IInv
  PROVE  /\ WorldTyped /\ cache \in Processes
         /\ toCache \in Seq(ToProcess) /\ cache.out \in Seq(ToMain)
         /\ thread \in [Ids -> ThreadStates] /\ asked \subseteq Ids
         /\ EntriesCoherent(cache) /\ SpecsCoherent(cache, toCache)
         /\ \A k \in Ids : Placed(cache, toCache, {}, k) /\ ParserWaits(cache, toCache, k)
         /\ \A t \in Ids : TreePlaced(cache, toCache, t)
         /\ \A k \in Ids : /\ One(toCache, ReqFrom(k)) /\ One(toCache, ParsedBy(k))
                           /\ One(toCache, TreeIn(k)) /\ One(cache.out, DoneFor(k))
                           /\ One(cache.out, FreeOf(k))
<1>1. /\ WorldTyped /\ Sound(cache, toCache, {})
  BY DEF IInv
<1>2. cache \in Processes /\ cache.out \in Seq(ToMain)
  BY <1>1, Parts DEF Sound
<1>3. \A k \in Ids : Placed(cache, toCache, {}, k) /\ TreePlaced(cache, toCache, k)
  BY <1>1 DEF Sound
<1>4. \A k \in Ids : /\ One(toCache, ReqFrom(k)) /\ One(toCache, ParsedBy(k))
                     /\ One(toCache, TreeIn(k)) /\ One(cache.out, DoneFor(k))
                     /\ One(cache.out, FreeOf(k))
  BY <1>3 DEF Placed, TreePlaced
<1> QED
  BY <1>1, <1>2, <1>3, <1>4 DEF Sound, WorldTyped

\* Main has read what the process wrote first.
LEMMA OutRead ==
  ASSUME IInv, cache.out # <<>>, cache' = [cache EXCEPT !.out = Tail(@)],
         NEW m, m = Head(cache.out)
  PROVE  /\ cache' \in Processes /\ cache'.entry = cache.entry
         /\ cache'.spec = cache.spec /\ cache'.jobs = cache.jobs /\ m \in ToMain
         /\ \A M : One(cache.out, M) => /\ In(cache'.out, M) <=> (In(cache.out, M) /\ m \notin M)
                                        /\ m \in M => In(cache.out, M)
                                        /\ One(cache'.out, M)
<1>1. cache \in Processes /\ cache.out \in Seq(ToMain)
  BY Around
<1>2. PICK out : out = Tail(cache.out)
  OBVIOUS
<1>3. out \in Seq(ToMain) /\ m \in ToMain
  BY <1>1, <1>2, HeadTailProperties
<1>4. cache' = [cache EXCEPT !.out = out]
  BY <1>2
<1>5. /\ cache' \in Processes /\ cache'.entry = cache.entry
      /\ cache'.spec = cache.spec /\ cache'.jobs = cache.jobs /\ cache'.out = out
  BY <1>1, <1>3, <1>4 DEF Processes
<1>6. \A M : One(cache.out, M) => /\ In(out, M) <=> (In(cache.out, M) /\ m \notin M)
                                  /\ m \in M => In(cache.out, M)
                                  /\ One(out, M)
  BY <1>1, <1>2, InTail
<1> QED
  BY <1>3, <1>5, <1>6

LEMMA MainFreeKeeps ==
  ASSUME IInv, MainFree
  PROVE  IInv'
<1>1. PICK m : m = Head(cache.out)
  OBVIOUS
<1>2. /\ cache.out # <<>> /\ m.type = "free" /\ freed' = freed \cup {m.tree}
      /\ cache' = [cache EXCEPT !.out = Tail(@)]
      /\ now' = now /\ nextPurge' = nextPurge /\ toCache' = toCache /\ asked' = asked
      /\ want' = want /\ thread' = thread /\ given' = given
  BY <1>1 DEF MainFree, clockVars, threadVars
<1>3. /\ cache' \in Processes /\ cache'.entry = cache.entry
      /\ cache'.spec = cache.spec /\ cache'.jobs = cache.jobs /\ m \in ToMain
      /\ \A M : One(cache.out, M) => /\ In(cache'.out, M) <=> (In(cache.out, M) /\ m \notin M)
                                     /\ m \in M => In(cache.out, M)
                                     /\ One(cache'.out, M)
  BY <1>1, <1>2, OutRead
<1>4. /\ m.tree \in Ids
      /\ \A k \in Ids : /\ m \notin DoneFor(k) /\ m \notin HandTo(k)
                        /\ m \in FreeOf(k) <=> k = m.tree
  BY <1>2, <1>3 DEF ToMain, DoneFor, HandTo, FreeOf
<1>5. WorldTyped'
  BY <1>2, <1>4 DEF IInv, WorldTyped
<1>6. EntriesCoherent(cache)'
  BY <1>2, <1>3, Around DEF EntriesCoherent
<1>7. ASSUME NEW k \in Ids
      PROVE  /\ In(cache'.out, DoneFor(k)) <=> In(cache.out, DoneFor(k))
             /\ One(cache'.out, DoneFor(k)) /\ One(cache'.out, FreeOf(k))
             /\ In(cache'.out, FreeOf(k)) <=> (In(cache.out, FreeOf(k)) /\ k # m.tree)
             /\ k = m.tree => In(cache.out, FreeOf(k))
  <2>1. One(cache.out, DoneFor(k)) /\ One(cache.out, FreeOf(k))
    BY Around
  <2> QED
    BY <1>3, <1>4, <2>1
<1>8. ASSUME NEW k \in Ids
      PROVE  Placed(cache, toCache, {}, k)'
  <2>1. Placed(cache, toCache, {}, k) /\ (Held(cache', k) <=> Held(cache, k))
    BY <1>3, Around DEF Held
  <2> QED
    BY <1>2, <1>7, <2>1 DEF Placed
<1>9. \A k \in Ids : Parser(cache, toCache, k)' => Parser(cache, toCache, k)
  <2>1. \A k \in Ids : In(cache'.out, HandTo(k)) => In(cache.out, HandTo(k))
    <3>1. \A k \in Ids : One(cache.out, HandTo(k))
      BY Around DEF One, HandTo
    <3> QED
      BY <1>3, <3>1
  <2> QED
    BY <1>2, <2>1 DEF Parser
<1>10. ASSUME NEW t \in Ids
       PROVE  TreePlaced(cache, toCache, t)'
  <2>1. TreePlaced(cache, toCache, t) /\ (Kept(cache', t) <=> Kept(cache, t))
    BY <1>3, Around DEF Kept
  <2>2. t \in freed' <=> t \in freed \/ t = m.tree
    BY <1>2
  <2> QED
    BY <1>2, <1>3, <1>7, <2>1, <2>2 DEF TreePlaced
<1> QED
  BY <1>2, <1>3, <1>5, <1>6, <1>8, <1>9, <1>10, WorldStep

LEMMA ParseKeeps ==
  ASSUME IInv, NEW id \in Ids, Parse(id)
  PROVE  IInv'
<1>1. /\ thread[id] = "parsing" /\ thread' = [thread EXCEPT ![id] = "ended"]
      /\ now' = now /\ nextPurge' = nextPurge /\ cache' = cache /\ asked' = asked
      /\ want' = want /\ given' = given /\ freed' = freed
  BY DEF Parse, clockVars
<1>2. /\ thread' \in [Ids -> ThreadStates] /\ thread'[id] = "ended"
      /\ \A k \in Ids : k # id => thread'[k] = thread[k]
  BY <1>1, Around DEF ThreadStates
<1>3. /\ id \notin asked /\ ~In(toCache, ParsedBy(id)) /\ ~Kept(cache, id)
      /\ ~In(toCache, TreeIn(id)) /\ ~In(cache.out, FreeOf(id)) /\ id \notin freed
  <2>1. Placed(cache, toCache, {}, id) /\ TreePlaced(cache, toCache, id)
    BY Around
  <2>2. id \notin asked /\ ~In(toCache, ParsedBy(id))
    BY <1>1, <2>1 DEF Placed
  <2> QED
    BY <1>1, <2>1, <2>2 DEF TreePlaced
<1>4. /\ toCache' \in Seq(ToProcess)
      /\ \A k \in Ids :
           /\ In(toCache', ReqFrom(k)) <=> In(toCache, ReqFrom(k))
           /\ One(toCache', ReqFrom(k)) /\ One(toCache', ParsedBy(k))
           /\ One(toCache', TreeIn(k))
           /\ In(toCache', ParsedBy(k)) => In(toCache, ParsedBy(k)) \/ k = id
           /\ In(toCache, TreeIn(k)) => In(toCache', TreeIn(k))
           /\ In(toCache', TreeIn(k)) => In(toCache, TreeIn(k)) \/ k = id
  <2>1. CASE toCache' = toCache
    BY <2>1, Around
  <2>2. ASSUME NEW tree \in {id, NoTree}, toCache' = Append(toCache, Parsed(id, tree))
        PROVE  <1>4!:
    <3>1. tree \in Trees
      BY DEF Trees
    <3>2. PICK m : m = Parsed(id, tree)
      OBVIOUS
    <3>3. /\ m \in ToProcess
          /\ \A k \in Ids : /\ m \notin ReqFrom(k)
                            /\ m \in ParsedBy(k) <=> k = id
                            /\ m \in TreeIn(k) <=> k = tree
      BY <3>1, <3>2, ParsedIs
    <3>4. \A k \in Ids : k = tree => k = id
      BY HttpCacheAssumption DEF NoTree
    <3>5. /\ toCache' \in Seq(ToProcess)
          /\ \A M : /\ In(toCache', M) <=> (In(toCache, M) \/ m \in M)
                    /\ One(toCache, M) /\ (m \in M => ~In(toCache, M)) => One(toCache', M)
      BY <2>2, <3>2, <3>3, Around, ToCacheAppended
    <3>6. \A k \in Ids : One(toCache, ReqFrom(k)) /\ One(toCache, ParsedBy(k))
                         /\ One(toCache, TreeIn(k))
      BY Around
    <3> QED
      BY <1>3, <3>3, <3>4, <3>5, <3>6
  <2> QED
    BY <2>1, <2>2 DEF Parse
<1>5. WorldTyped'
  BY <1>1, <1>2, <1>4 DEF IInv, WorldTyped
<1>6. EntriesCoherent(cache)'
  BY <1>1, Around DEF EntriesCoherent
<1>7. ASSUME NEW k \in Ids
      PROVE  Placed(cache, toCache, {}, k)'
  <2>1. Placed(cache, toCache, {}, k) /\ (Held(cache', k) <=> Held(cache, k))
    BY <1>1, Around
  <2>2. CASE k = id
    BY <1>1, <1>2, <1>3, <1>4, <2>1, <2>2 DEF Placed
  <2>3. CASE k # id
    <3>1. thread'[k] = thread[k]
      BY <1>2, <2>3
    <3>2. In(toCache', ParsedBy(k)) => In(toCache, ParsedBy(k))
      BY <1>4, <2>3
    <3> QED
      BY <1>1, <1>4, <2>1, <3>1, <3>2 DEF Placed
  <2> QED
    BY <2>2, <2>3
<1>8. \A k \in Ids : Parser(cache, toCache, k)' => Parser(cache, toCache, k)
  BY <1>1, <1>2, <1>4 DEF Parser
<1>9. ASSUME NEW t \in Ids
      PROVE  TreePlaced(cache, toCache, t)'
  <2>1. TreePlaced(cache, toCache, t) /\ (Kept(cache', t) <=> Kept(cache, t))
    BY <1>1, Around
  <2>2. thread[t] = "ended" => thread'[t] = "ended"
    BY <1>2
  <2>3. CASE t = id
    BY <1>1, <1>2, <1>3, <1>4, <2>1, <2>3 DEF TreePlaced
  <2>4. CASE t # id
    BY <1>1, <1>4, <2>1, <2>2, <2>4 DEF TreePlaced
  <2> QED
    BY <2>3, <2>4
<1>10. \A k \in Ids : thread'[k] = "idle" \/ In(toCache', ReqFrom(k)) =>
                        thread[k] = "idle" \/ In(toCache, ReqFrom(k))
  BY <1>2, <1>4
<1>11. cache' \in Processes /\ \A k \in DOMAIN cache.spec : want'[k] = want[k]
  BY <1>1, Around
<1> QED
  BY <1>1, <1>5, <1>6, <1>7, <1>8, <1>9, <1>10, <1>11, WorldStep

LEMMA EndKeeps ==
  ASSUME IInv, NEW id \in Ids, Load(id) \/ ThreadDies(id)
  PROVE  IInv'
<1>1. PICK s \in {"ended", "gone"} :
        /\ thread' = [thread EXCEPT ![id] = s]
        /\ thread[id] \in {"asking", "parsing", "loading"}
        /\ s = "ended" => thread[id] = "loading"
  BY DEF Load, ThreadDies
<1>2. /\ now' = now /\ nextPurge' = nextPurge /\ cache' = cache /\ asked' = asked
      /\ want' = want /\ given' = given /\ freed' = freed /\ toCache' = toCache
  BY DEF Load, ThreadDies, clockVars
<1>3. /\ thread' \in [Ids -> ThreadStates] /\ thread'[id] = s
      /\ \A k \in Ids : k # id => thread'[k] = thread[k]
  <2>1. s \in ThreadStates
    BY DEF ThreadStates
  <2> QED
    BY <1>1, <2>1, Around
<1>4. WorldTyped'
  BY <1>2, <1>3 DEF IInv, WorldTyped
<1>5. EntriesCoherent(cache)'
  BY <1>2, Around DEF EntriesCoherent
<1>6. ASSUME NEW k \in Ids
      PROVE  /\ thread'[k] = "idle" => thread[k] = "idle"
             /\ thread'[k] = "parsing" => thread[k] = "parsing"
             /\ thread[k] = "ended" => thread'[k] = "ended"
             /\ thread[k] \in {"asking", "gone"} => thread'[k] \in {"asking", "gone"}
  BY <1>1, <1>3
<1>7. ASSUME NEW k \in Ids
      PROVE  Placed(cache, toCache, {}, k)'
  <2>1. Placed(cache, toCache, {}, k)
    BY Around
  <2> QED
    BY <1>2, <1>6, <2>1 DEF Placed
<1>8. \A k \in Ids : Parser(cache, toCache, k)' => Parser(cache, toCache, k)
  BY <1>2, <1>6 DEF Parser
<1>9. ASSUME NEW t \in Ids
      PROVE  TreePlaced(cache, toCache, t)'
  <2>1. TreePlaced(cache, toCache, t)
    BY Around
  <2> QED
    BY <1>2, <1>6, <2>1 DEF TreePlaced
<1>10. cache' \in Processes /\ \A k \in DOMAIN cache.spec : want'[k] = want[k]
  BY <1>2, Around
<1> QED
  BY <1>2, <1>4, <1>5, <1>6, <1>7, <1>8, <1>9, <1>10, WorldStep

LEMMA TickKeeps ==
  ASSUME IInv, Tick
  PROVE  IInv'
<1>1. /\ now < MaxNow /\ now' = now + 1 /\ nextPurge' = nextPurge /\ cache' = cache
      /\ asked' = asked /\ want' = want /\ thread' = thread /\ given' = given
      /\ freed' = freed /\ toCache' = toCache
      /\ \A item \in DOMAIN cache.entry :
           cache.entry[item].status = 0 => now < cache.entry[item].lastUsed + FetchTime
  BY DEF Tick, threadVars
<1>2. now \in 0..MaxNow /\ MaxNow \in Nat /\ FetchTime \in Nat
  BY HttpCacheAssumption DEF IInv, WorldTyped
<1>3. WorldTyped'
  BY <1>1, <1>2 DEF IInv, WorldTyped
<1>4. EntriesCoherent(cache)'
  <2>1. ASSUME NEW item \in DOMAIN cache.entry, cache.entry[item].status = 0
        PROVE  now' <= cache.entry[item].lastUsed + FetchTime
    <3>1. PICK e : e = cache.entry[item]
      OBVIOUS
    <3>2. e \in Entries
      BY <3>1, Around, Parts
    <3>3. e.lastUsed \in Nat
      BY <1>2, <3>2 DEF Entries
    <3>4. now < e.lastUsed + FetchTime
      BY <1>1, <2>1, <3>1
    <3> QED
      BY <1>1, <1>2, <3>1, <3>3, <3>4
  <2> QED
    BY <1>1, <2>1, Around DEF EntriesCoherent
<1>5. \A k \in Ids : Placed(cache, toCache, {}, k)'
  BY <1>1, Around DEF Placed
<1>6. \A k \in Ids : Parser(cache, toCache, k)' => Parser(cache, toCache, k)
  BY <1>1 DEF Parser
<1>7. \A t \in Ids : TreePlaced(cache, toCache, t)'
  BY <1>1, Around DEF TreePlaced
<1>8. cache' \in Processes
  BY <1>1, Around
<1> QED
  BY <1>1, <1>3, <1>4, <1>5, <1>6, <1>7, <1>8, WorldStep

LEMMA MainDoneKeeps ==
  ASSUME IInv, MainDone
  PROVE  IInv'
<1>1. PICK m, id : m = Head(cache.out) /\ id = m.id
  OBVIOUS
<1>2. /\ cache.out # <<>> /\ m.type = "done" /\ asked' = asked \ {id}
      /\ cache' = [cache EXCEPT !.out = Tail(@)]
      /\ now' = now /\ nextPurge' = nextPurge /\ want' = want /\ freed' = freed
      /\ toCache' = IF id \in asked /\ thread[id] = "gone" /\ m.status = 0
                    THEN Append(toCache, Parsed(id, NoTree)) ELSE toCache
  BY <1>1 DEF MainDone, clockVars
<1>3. /\ cache' \in Processes /\ cache'.entry = cache.entry
      /\ cache'.spec = cache.spec /\ cache'.jobs = cache.jobs /\ m \in ToMain
      /\ \A M : One(cache.out, M) => /\ In(cache'.out, M) <=> (In(cache.out, M) /\ m \notin M)
                                     /\ m \in M => In(cache.out, M)
                                     /\ One(cache'.out, M)
  BY <1>1, <1>2, OutRead
<1>4. /\ id \in Ids /\ m.status \in {-1, 0, 1} /\ m.tree \in Trees
      /\ \A k \in Ids : /\ m \in DoneFor(k) <=> k = id
                        /\ m \in HandTo(k) <=> (k = id /\ m.status = 0)
                        /\ m \notin FreeOf(k)
  BY <1>1, <1>2, <1>3 DEF ToMain, Messages, DoneFor, HandTo, FreeOf
<1>5. \A k \in Ids : One(cache.out, HandTo(k))
  BY Around DEF One, HandTo
<1>6. ASSUME NEW k \in Ids
      PROVE  /\ In(cache'.out, DoneFor(k)) <=> (In(cache.out, DoneFor(k)) /\ k # id)
             /\ k = id => In(cache.out, DoneFor(k))
             /\ In(cache'.out, HandTo(k)) => In(cache.out, HandTo(k))
             /\ k = id /\ m.status = 0 => In(cache.out, HandTo(k))
             /\ In(cache'.out, FreeOf(k)) <=> In(cache.out, FreeOf(k))
             /\ One(cache'.out, DoneFor(k)) /\ One(cache'.out, FreeOf(k))
  <2>1. One(cache.out, DoneFor(k)) /\ One(cache.out, HandTo(k)) /\ One(cache.out, FreeOf(k))
    BY <1>5, Around
  <2> QED
    BY <1>3, <1>4, <2>1
<1>7. /\ id \in asked /\ ~Held(cache, id) /\ ~In(toCache, ReqFrom(id))
      /\ ~In(toCache, ParsedBy(id)) /\ thread[id] \in {"asking", "gone"}
  <2>1. Placed(cache, toCache, {}, id) /\ In(cache.out, DoneFor(id))
    BY <1>4, <1>6, Around
  <2> QED
    BY <2>1 DEF Placed
<1>8. /\ toCache' \in Seq(ToProcess)
      /\ \A k \in Ids :
           /\ In(toCache', ReqFrom(k)) <=> In(toCache, ReqFrom(k))
           /\ In(toCache', TreeIn(k)) <=> In(toCache, TreeIn(k))
           /\ One(toCache', ReqFrom(k)) /\ One(toCache', ParsedBy(k))
           /\ One(toCache', TreeIn(k))
           /\ In(toCache', ParsedBy(k)) =>
                \/ In(toCache, ParsedBy(k))
                \/ k = id /\ m.status = 0 /\ thread[id] = "gone"
  <2>1. CASE toCache' = toCache
    BY <2>1, Around
  <2>2. CASE m.status = 0 /\ thread[id] = "gone"
             /\ toCache' = Append(toCache, Parsed(id, NoTree))
    <3>1. PICK n : n = Parsed(id, NoTree)
      OBVIOUS
    <3>2. NoTree \in Trees /\ \A k \in Ids : k # NoTree
      BY HttpCacheAssumption DEF Trees, NoTree
    <3>3. /\ n \in ToProcess
          /\ \A k \in Ids : /\ n \notin ReqFrom(k)
                            /\ n \in ParsedBy(k) <=> k = id
                            /\ n \notin TreeIn(k)
      BY <1>4, <3>1, <3>2, ParsedIs
    <3>4. /\ toCache' \in Seq(ToProcess)
          /\ \A M : /\ In(toCache', M) <=> (In(toCache, M) \/ n \in M)
                    /\ One(toCache, M) /\ (n \in M => ~In(toCache, M)) => One(toCache', M)
      BY <2>2, <3>1, <3>3, Around, ToCacheAppended
    <3>5. \A k \in Ids : One(toCache, ReqFrom(k)) /\ One(toCache, ParsedBy(k))
                         /\ One(toCache, TreeIn(k))
      BY Around
    <3> QED
      BY <1>7, <2>2, <3>3, <3>4, <3>5
  <2> QED
    BY <1>2, <2>1, <2>2
<1>9. PICK s : thread' = [thread EXCEPT ![id] = s]
               /\ s \in {"unmade", "ended", "parsing", "loading", "gone"}
               /\ (s = "parsing" => m.status = 0)
               /\ (thread[id] = "gone" => s = "gone")
  <2>1. CASE thread[id] = "gone"
    <3>1. thread' = thread
      BY <1>1, <2>1 DEF MainDone
    <3>2. thread' = [thread EXCEPT ![id] = "gone"]
      BY <2>1, <3>1, Around
    <3> QED
      BY <3>2
  <2>2. CASE thread[id] # "gone"
    <3>1. thread' = [thread EXCEPT ![id] =
            CASE want[id].usage = "a" /\ m.status = 0 -> "unmade"
              [] want[id].usage = "a" /\ m.status # 0 -> "ended"
              [] want[id].usage # "a" /\ m.status = 0 -> "parsing"
              [] want[id].usage # "a" /\ m.status = 1 -> "loading"
              [] want[id].usage # "a" /\ m.status = -1 -> "ended"]
      BY <1>1, <1>7, <2>2 DEF MainDone
    <3>2. CASE want[id].usage = "a" /\ m.status = 0
      BY <2>2, <3>1, <3>2
    <3>3. CASE want[id].usage = "a" /\ m.status # 0
      BY <2>2, <3>1, <3>3
    <3>4. CASE want[id].usage # "a" /\ m.status = 0
      BY <2>2, <3>1, <3>4
    <3>5. CASE want[id].usage # "a" /\ m.status = 1
      BY <2>2, <3>1, <3>5
    <3>6. CASE want[id].usage # "a" /\ m.status = -1
      BY <2>2, <3>1, <3>6
    <3> QED
      BY <1>4, <3>2, <3>3, <3>4, <3>5, <3>6
  <2> QED
    BY <2>1, <2>2
<1>10. /\ thread' \in [Ids -> ThreadStates] /\ thread'[id] = s
       /\ \A k \in Ids : k # id => thread'[k] = thread[k]
  <2>1. s \in ThreadStates
    BY <1>9 DEF ThreadStates
  <2>2. thread \in [Ids -> ThreadStates] /\ id \in Ids
    BY <1>4, Around
  <2>3. thread' = [thread EXCEPT ![id] = s]
    BY <1>9
  <2> QED
    BY <2>1, <2>2, <2>3
<1>11. WorldTyped'
  <2>1. WorldTyped
    BY Around
  <2>2. given' \in [Ids -> Trees]
    <3>1. given' = given \/ given' = [given EXCEPT ![id] = m.tree]
      BY <1>1 DEF MainDone
    <3> QED
      BY <1>4, <2>1, <3>1 DEF WorldTyped
  <2> QED
    BY <1>2, <1>8, <1>10, <2>1, <2>2 DEF WorldTyped
<1>12. EntriesCoherent(cache)'
  BY <1>2, <1>3, Around DEF EntriesCoherent
<1>13. ASSUME NEW k \in Ids
       PROVE  Placed(cache, toCache, {}, k)'
  <2>1. Placed(cache, toCache, {}, k) /\ (Held(cache', k) <=> Held(cache, k))
    BY <1>3, Around DEF Held
  <2>2. k \in asked' <=> k \in asked /\ k # id
    BY <1>2
  <2>3. CASE k = id
    BY <1>6, <1>7, <1>8, <1>9, <1>10, <2>1, <2>2, <2>3 DEF Placed
  <2>4. CASE k # id
    <3>1. thread'[k] = thread[k]
      BY <1>10, <2>4
    <3>2. In(toCache', ParsedBy(k)) => In(toCache, ParsedBy(k))
      BY <1>8, <2>4
    <3> QED
      BY <1>6, <1>8, <2>1, <2>2, <2>4, <3>1, <3>2 DEF Placed
  <2> QED
    BY <2>3, <2>4
<1>14. \A k \in Ids : Parser(cache, toCache, k)' => Parser(cache, toCache, k)
  <2>1. In(cache.out, HandTo(id)) \/ m.status # 0
    BY <1>4, <1>6
  <2>2. \A k \in Ids : thread'[k] = "parsing" =>
                         thread[k] = "parsing" \/ In(cache.out, HandTo(k))
    BY <1>9, <1>10, <2>1
  <2>3. \A k \in Ids : In(toCache', ParsedBy(k)) =>
                         In(toCache, ParsedBy(k)) \/ In(cache.out, HandTo(k))
    BY <1>8, <2>1
  <2>4. \A k \in Ids : In(cache'.out, HandTo(k)) => In(cache.out, HandTo(k))
    BY <1>6
  <2> QED
    BY <2>2, <2>3, <2>4 DEF Parser
<1>15. ASSUME NEW t \in Ids
       PROVE  TreePlaced(cache, toCache, t)'
  <2>1. TreePlaced(cache, toCache, t) /\ (Kept(cache', t) <=> Kept(cache, t))
    BY <1>3, Around DEF Kept
  <2>2. thread[t] = "ended" => thread'[t] = "ended"
    BY <1>7, <1>10
  <2> QED
    BY <1>2, <1>3, <1>6, <1>8, <2>1, <2>2 DEF TreePlaced
<1>16. \A k \in Ids : thread'[k] = "idle" \/ In(toCache', ReqFrom(k)) =>
                        thread[k] = "idle" \/ In(toCache, ReqFrom(k))
  BY <1>8, <1>9, <1>10
<1>17. \A k \in DOMAIN cache.spec : want'[k] = want[k]
  BY <1>2
<1> QED
  BY <1>2, <1>3, <1>11, <1>12, <1>13, <1>14, <1>15, <1>16, <1>17, WorldStep

-----------------------------------------------------------------------------
(* The invariant holds always.                                              *)

LEMMA InitKeeps ==
  ASSUME Init
  PROVE  IInv
<1>1. PICK c : c = cache
  OBVIOUS
<1>2. /\ c.entry = <<>> /\ c.spec = <<>> /\ c.jobs = {} /\ c.out = <<>>
      /\ c = [entry |-> <<>>, spec |-> <<>>, jobs |-> {}, out |-> <<>>]
      /\ toCache = <<>> /\ asked = {} /\ freed = {}
  BY <1>1 DEF Init
<1>3. \A k \in Ids : thread[k] = "idle"
  BY DEF Init
<1>4. WorldTyped
  <2>1. 0 \in 0..MaxNow /\ PurgeInterval \in Nat /\ \E w \in Wants : TRUE
    BY HttpCacheAssumption
  <2>2. (CHOOSE w \in Wants : TRUE) \in Wants
    BY <2>1
  <2>3. /\ want \in [Ids -> Wants] /\ thread \in [Ids -> ThreadStates]
        /\ given \in [Ids -> Trees]
    BY <2>2 DEF Init, ThreadStates, Trees
  <2> QED
    BY <1>2, <2>1, <2>3 DEF WorldTyped, Init
<1>5. c \in Processes
  <2>1. <<>> \in [{} -> Entries] /\ <<>> \in [{} -> Seq(Items) \ {<<>>}]
    OBVIOUS
  <2>2. {} \in SUBSET Items /\ {} \in SUBSET Ids
    OBVIOUS
  <2>3. <<>> \in EntryTables
    BY <2>1, <2>2 DEF EntryTables
  <2>4. <<>> \in SpecTables
    BY <2>1, <2>2 DEF SpecTables
  <2>5. <<>> \in Seq(ToMain) /\ {} \in SUBSET Jobs
    OBVIOUS
  <2> QED
    BY <1>2, <2>3, <2>4, <2>5 DEF Processes
<1>6. DOMAIN c.entry = {} /\ DOMAIN c.spec = {}
  BY <1>2
<1>7. \A M : ~In(toCache, M) /\ One(toCache, M) /\ ~In(c.out, M) /\ One(c.out, M)
  <2>1. 1..Len(<<>>) = {}
    OBVIOUS
  <2> QED
    BY <1>2, <2>1 DEF In, One
<1>8. EntriesCoherent(c) /\ FetchesCoherent(c) /\ SpecsCoherent(c, toCache)
  BY <1>2, <1>6, <1>7, FS_EmptySet
     DEF EntriesCoherent, FetchesCoherent, SpecsCoherent, Untried
<1>9. \A k : ~Held(c, k) /\ ~Kept(c, k)
  BY <1>6 DEF Held, Kept
<1>10. \A k \in Ids : ~Parser(c, toCache, k)
  BY <1>3, <1>7 DEF Parser
<1>11. \A k \in Ids : Placed(c, toCache, {}, k)
  BY <1>2, <1>7, <1>9 DEF Placed
<1>12. \A t \in Ids : TreePlaced(c, toCache, t)
  BY <1>2, <1>6, <1>7, <1>9 DEF TreePlaced
<1>13. (\A k \in Ids : ParserWaits(c, toCache, k)) /\ OneParser(c, toCache)
  BY <1>10 DEF ParserWaits, OneParser
<1> QED
  BY <1>1, <1>4, <1>5, <1>8, <1>11, <1>12, <1>13 DEF IInv, Sound

LEMMA NextKeeps ==
  ASSUME IInv, [Next]_vars
  PROVE  IInv'
<1>1. CASE CacheStep
  BY <1>1, HandleRequestKeeps, HandleParsedKeeps, ChildFinishedKeeps, PurgeKeeps
     DEF CacheStep
<1>2. CASE MainStep
  BY <1>2, MainDoneKeeps, MainFreeKeeps DEF MainStep
<1>3. CASE Tick
  BY <1>3, TickKeeps
<1>4. ASSUME NEW id \in Ids, Ask(id) \/ Parse(id) \/ Load(id) \/ ThreadDies(id)
      PROVE  IInv'
  BY <1>4, AskKeeps, ParseKeeps, EndKeeps
<1>5. CASE UNCHANGED vars
  <2>1. Sound(cache', toCache', {}) /\ toCache' \in Seq(ToProcess) /\ nextPurge' \in Nat
    BY <1>5 DEF vars, clockVars, IInv, WorldTyped
  <2> QED
    BY <1>5, <2>1, ProcessStep DEF vars, clockVars
<1> QED
  BY <1>1, <1>2, <1>3, <1>4, <1>5 DEF Next

\* The inductive invariant: where the requests, the trees and the fetches are.
THEOREM Inductive == Spec => []IInv
<1>1. Init => IInv
  BY InitKeeps
<1>2. IInv /\ [Next]_vars => IInv'
  BY NextKeeps
<1> QED
  BY <1>1, <1>2, PTL DEF Spec

\* The state has its types: the tables of run_http_cache, what is written in
\* both directions, and what main and the threads know.
THEOREM Typed == Spec => []TypeOK
<1>1. IInv => TypeOK
  <2> SUFFICES ASSUME IInv
               PROVE  TypeOK
    OBVIOUS
  <2>1. WorldTyped /\ cache \in Processes
    BY DEF IInv, Sound
  <2>2. ToMain \subseteq Messages /\ ToProcess \subseteq Messages
    BY DEF ToMain, ToProcess
  <2>3. cache.out \in Seq(Messages) /\ toCache \in Seq(Messages)
    BY <2>1, <2>2, Parts DEF WorldTyped
  <2> QED
    BY <2>1, <2>3, Parts DEF TypeOK, WorldTyped, Jobs, ThreadStates
<1> QED
  BY <1>1, Inductive, PTL

LEMMA AtMostOne ==
  ASSUME NEW S, \A x, y \in S : x = y
  PROVE  Cardinality(S) = IF S = {} THEN 0 ELSE 1
<1>1. CASE S = {}
  BY <1>1, FS_EmptySet
<1>2. CASE S # {}
  <2>1. PICK x \in S : S = {x}
    BY <1>2
  <2> QED
    BY <1>2, <2>1, FS_Singleton
<1> QED
  BY <1>1, <1>2

\* A request that main waits for is in one place -- on its way, waiting at one
\* entry, or answered (process_next_request_item, process_cache_child_result) --
\* and no other request is anywhere.
THEOREM InOnePlace == Spec => []RequestsInOnePlace
<1>1. IInv => RequestsInOnePlace
  <2> SUFFICES ASSUME IInv, NEW id \in Ids
               PROVE  Cardinality(Holders(id)) + Cardinality(Replies(id))
                        + Cardinality(Requests(id)) = IF id \in asked THEN 1 ELSE 0
    BY DEF RequestsInOnePlace
  <2>1. Placed(cache, toCache, {}, id) /\ EntriesCoherent(cache)
        /\ cache.out \in Seq(ToMain) /\ toCache \in Seq(ToProcess)
    BY Around
  <2>2. /\ Cardinality(Holders(id)) = IF Held(cache, id) THEN 1 ELSE 0
    <3>1. \A x, y \in Holders(id) : x = y
      BY <2>1 DEF EntriesCoherent, Holders
    <3>2. Holders(id) = {} <=> ~Held(cache, id)
      BY DEF Holders, Held
    <3> QED
      BY <3>1, <3>2, AtMostOne
  <2>3. Cardinality(Replies(id)) = IF In(cache.out, DoneFor(id)) THEN 1 ELSE 0
    <3>1. /\ DOMAIN cache.out = 1..Len(cache.out)
          /\ \A i \in 1..Len(cache.out) : cache.out[i] \in ToMain
      BY <2>1
    <3>2. Replies(id) = {i \in 1..Len(cache.out) : cache.out[i] \in DoneFor(id)}
      BY <3>1 DEF Replies, DoneFor
    <3>3. \A i, j \in Replies(id) : i = j
      BY <2>1, <3>2 DEF Placed, One
    <3>4. Replies(id) = {} <=> ~In(cache.out, DoneFor(id))
      BY <3>2 DEF In
    <3> QED
      BY <3>3, <3>4, AtMostOne
  <2>4. Cardinality(Requests(id)) = IF In(toCache, ReqFrom(id)) THEN 1 ELSE 0
    <3>1. /\ DOMAIN toCache = 1..Len(toCache)
          /\ \A i \in 1..Len(toCache) : toCache[i] \in ToProcess
      BY <2>1
    <3>2. \A m \in ToProcess : m = Req(id) <=> m \in ReqFrom(id)
      BY DEF ToProcess, ReqFrom, Req, Message
    <3>3. Requests(id) = {i \in 1..Len(toCache) : toCache[i] \in ReqFrom(id)}
      BY <3>1, <3>2 DEF Requests
    <3>4. \A i, j \in Requests(id) : i = j
      BY <2>1, <3>3 DEF Placed, One
    <3>5. Requests(id) = {} <=> ~In(toCache, ReqFrom(id))
      BY <3>3 DEF In
    <3> QED
      BY <3>4, <3>5, AtMostOne
  <2>5. CASE Held(cache, id)
    BY <2>1, <2>2, <2>3, <2>4, <2>5 DEF Placed
  <2>6. CASE ~Held(cache, id)
    BY <2>1, <2>2, <2>3, <2>4, <2>6 DEF Placed
  <2> QED
    BY <2>5, <2>6
<1> QED
  BY <1>1, Inductive, PTL

\* A tree of the cache is in one entry and main is not told to free it; one that
\* is given up (remove_cache_entry, http_cache_child_finished) is freed once.
THEOREM FreedOnce == Spec => []TreesFreedOnce
<1>1. IInv => TreesFreedOnce
  <2> SUFFICES ASSUME IInv
               PROVE  TreesFreedOnce
    OBVIOUS
  <2>1. /\ cache.out \in Seq(ToMain) /\ cache \in Processes
        /\ \A t \in Ids : TreePlaced(cache, toCache, t)
    BY Around
  <2>2. /\ DOMAIN cache.out = 1..Len(cache.out)
        /\ \A i \in 1..Len(cache.out) : cache.out[i] \in ToMain
    BY <2>1
  <2>3. ASSUME NEW i \in FreeMessages
        PROVE  /\ i \in 1..Len(cache.out) /\ cache.out[i].tree \in Ids
               /\ cache.out[i] \in FreeOf(cache.out[i].tree)
    BY <2>2 DEF FreeMessages, FreeOf, ToMain
  <2>4. ASSUME NEW i \in FreeMessages
        PROVE  /\ cache.out[i].tree \notin freed \cup {NoTree}
               /\ \A j \in FreeMessages : cache.out[j].tree = cache.out[i].tree => i = j
    <3>1. PICK t : t = cache.out[i].tree
      OBVIOUS
    <3>2. /\ t \in Ids /\ In(cache.out, FreeOf(t)) /\ TreePlaced(cache, toCache, t)
      BY <2>1, <2>3, <3>1 DEF In
    <3>3. t \notin freed /\ t # NoTree /\ One(cache.out, FreeOf(t))
      BY <3>2, HttpCacheAssumption DEF TreePlaced, NoTree
    <3>4. ASSUME NEW j \in FreeMessages, cache.out[j].tree = t
          PROVE  i = j
      BY <2>3, <3>1, <3>3, <3>4 DEF One
    <3> QED
      BY <3>1, <3>3, <3>4
  <2>5. ASSUME NEW item \in DOMAIN cache.entry, NEW tree, tree = cache.entry[item].tree,
               tree # NoTree
        PROVE  /\ tree \notin freed
               /\ \A i \in FreeMessages : cache.out[i].tree # tree
               /\ \A other \in DOMAIN cache.entry :
                    cache.entry[other].tree = tree => other = item
    <3>1. tree \in Ids
      BY <2>1, <2>5, Parts DEF Entries, Trees
    <3>2. TreePlaced(cache, toCache, tree) /\ Kept(cache, tree)
      BY <2>1, <2>5, <3>1 DEF Kept
    <3>3. tree \notin freed /\ ~In(cache.out, FreeOf(tree))
      BY <3>2 DEF TreePlaced
    <3>4. \A i \in FreeMessages : cache.out[i].tree # tree
      BY <2>3, <3>3 DEF In
    <3>5. \A other \in DOMAIN cache.entry : cache.entry[other].tree = tree => other = item
      BY <2>5, <3>2 DEF TreePlaced
    <3> QED
      BY <3>3, <3>4, <3>5
  <2> QED
    BY <2>4, <2>5 DEF TreesFreedOnce
<1> QED
  BY <1>1, Inductive, PTL

\* At most one child fetches an item: who asks for it meanwhile tags along
\* (process_next_request_item), and a purge leaves it alone.
THEOREM FetchedOnce == Spec => []OneFetchPerItem
<1>1. IInv => OneFetchPerItem
  <2> SUFFICES ASSUME IInv, NEW item \in DOMAIN cache.entry
               PROVE  Cardinality({job \in cache.jobs : job.item = item}) <= 1
    BY DEF OneFetchPerItem
  <2>1. PICK S : S = {job \in cache.jobs : job.item = item}
    OBVIOUS
  <2>2. \A x, y \in S : x = y
    BY <2>1 DEF IInv, Sound, FetchesCoherent
  <2>3. Cardinality(S) = IF S = {} THEN 0 ELSE 1
    BY <2>2, AtMostOne
  <2> QED
    BY <2>1, <2>3
<1> QED
  BY <1>1, Inductive, PTL

-----------------------------------------------------------------------------
(* What the process writes: HttpCacheContract.                              *)

Record(c) == \E e, s, j : \E o \in Seq(ToMain) :
               c = [entry |-> e, spec |-> s, jobs |-> j, out |-> o]

\* d has written more than c: messages that name trees of P only.  The trees d
\* has are of R.
Serves(c, P, R, d) ==
  /\ Record(d) /\ c.out \in Seq(ToMain) /\ Len(c.out) <= Len(d.out)
  /\ \A i \in 1..Len(c.out) : d.out[i] = c.out[i]
  /\ \A i \in Len(c.out) + 1..Len(d.out) : d.out[i].tree \in P \cup {NoTree}
  /\ \A item \in DOMAIN d.entry : d.entry[item].tree \in R \cup {NoTree}

LEMMA RecordBy ==
  ASSUME NEW c, NEW e, NEW s, NEW j, NEW o \in Seq(ToMain),
         c = [entry |-> e, spec |-> s, jobs |-> j, out |-> o]
  PROVE  Record(c) /\ c.entry = e /\ c.spec = s /\ c.jobs = j /\ c.out = o
<1>1. Record(c)
  BY DEF Record
<1> QED
  BY <1>1

LEMMA RecordOf ==
  ASSUME NEW c \in Processes
  PROVE  Record(c)
<1>1. c = [entry |-> c.entry, spec |-> c.spec, jobs |-> c.jobs, out |-> c.out]
      /\ c.out \in Seq(ToMain)
  BY DEF Processes
<1> QED
  BY <1>1 DEF Record

LEMMA TellRecord ==
  ASSUME NEW c, Record(c), NEW m \in ToMain
  PROVE  LET d == Tell(c, m)
         IN  /\ Record(d) /\ d.entry = c.entry /\ d.spec = c.spec
             /\ d.out = Append(c.out, m) /\ c.out \in Seq(ToMain)
<1>1. PICK e, s, j, o : o \in Seq(ToMain)
                        /\ c = [entry |-> e, spec |-> s, jobs |-> j, out |-> o]
  BY DEF Record
<1>2. PICK t : t = Append(o, m)
  OBVIOUS
<1>3. t \in Seq(ToMain)
  BY <1>1, <1>2, AppendProperties
<1>4. c.out = o
  BY <1>1
<1>5. Tell(c, m) = [c EXCEPT !.out = t]
  BY <1>2, <1>4 DEF Tell
<1>6. Tell(c, m) = [entry |-> e, spec |-> s, jobs |-> j, out |-> t]
  BY <1>1, <1>5
<1> QED
  BY <1>1, <1>2, <1>3, <1>4, <1>6, RecordBy

LEMMA ForgetRecord ==
  ASSUME NEW c, Record(c), NEW id
  PROVE  LET d == Forget(c, id)
         IN  Record(d) /\ d.entry = c.entry /\ d.out = c.out
<1>1. PICK e, s, j, o : o \in Seq(ToMain)
                        /\ c = [entry |-> e, spec |-> s, jobs |-> j, out |-> o]
  BY DEF Record
<1>2. PICK t : t = Without(c.spec, {id})
  OBVIOUS
<1>3. Forget(c, id) = [c EXCEPT !.spec = t]
  BY <1>2 DEF Forget
<1>4. Forget(c, id) = [entry |-> e, spec |-> t, jobs |-> j, out |-> o]
  BY <1>1, <1>3
<1>5. c.entry = e /\ c.out = o
  BY <1>1
<1> QED
  BY <1>1, <1>4, <1>5, RecordBy

LEMMA NextRecord ==
  ASSUME NEW c, Record(c), NEW id, NEW rest
  PROVE  LET d == [c EXCEPT !.spec[id] = rest]
         IN  Record(d) /\ d.entry = c.entry /\ d.out = c.out
<1>1. PICK e, s, j, o : o \in Seq(ToMain)
                        /\ c = [entry |-> e, spec |-> s, jobs |-> j, out |-> o]
  BY DEF Record
<1>2. PICK t : t = [c.spec EXCEPT ![id] = rest]
  OBVIOUS
<1>3. [c EXCEPT !.spec[id] = rest] = [c EXCEPT !.spec = t]
  BY <1>1, <1>2
<1>4. [c EXCEPT !.spec[id] = rest] = [entry |-> e, spec |-> t, jobs |-> j, out |-> o]
  BY <1>1, <1>3
<1>5. c.entry = e /\ c.out = o
  BY <1>1
<1> QED
  BY <1>1, <1>4, <1>5, RecordBy

LEMMA DropRecord ==
  ASSUME NEW c, Record(c), NEW item
  PROVE  LET d == DropEntry(c, item)
         IN  /\ Record(d) /\ d.out = c.out
             /\ DOMAIN d.entry = DOMAIN c.entry \ {item}
             /\ \A x \in DOMAIN d.entry : d.entry[x] = c.entry[x]
<1>1. PICK en, s, j, o : o \in Seq(ToMain)
                        /\ c = [entry |-> en, spec |-> s, jobs |-> j, out |-> o]
  BY DEF Record
<1>2. PICK t : t = Without(c.entry, {item})
  OBVIOUS
<1>3. DropEntry(c, item) = [c EXCEPT !.entry = t]
  BY <1>2 DEF DropEntry
<1>4. DropEntry(c, item) = [entry |-> t, spec |-> s, jobs |-> j, out |-> o]
  BY <1>1, <1>3
<1>5. DOMAIN t = DOMAIN c.entry \ {item} /\ \A x \in DOMAIN t : t[x] = c.entry[x]
  BY <1>2 DEF Without
<1>6. c.entry = en /\ c.out = o
  BY <1>1
<1> QED
  BY <1>1, <1>4, <1>5, <1>6, RecordBy

\* A step that writes nothing, and one message more.
LEMMA ServesStill ==
  ASSUME NEW c, NEW P, NEW R, NEW d, Serves(c, P, R, d), NEW e, Record(e),
         e.out = d.out,
         \A item \in DOMAIN e.entry : e.entry[item].tree \in R \cup {NoTree}
  PROVE  Serves(c, P, R, e)
BY DEF Serves

LEMMA TellServes ==
  ASSUME NEW c, NEW P, NEW R, NEW d, Serves(c, P, R, d),
         NEW m \in ToMain, m.tree \in P \cup {NoTree}
  PROVE  Serves(c, P, R, Tell(d, m)) /\ Tell(d, m).entry = d.entry
<1>1. Record(d)
  BY DEF Serves
<1>2. PICK g : g = Tell(d, m)
  OBVIOUS
<1>3. Record(g) /\ g.entry = d.entry /\ g.out = Append(d.out, m) /\ d.out \in Seq(ToMain)
  BY <1>1, <1>2, TellRecord
<1>4. /\ c.out \in Seq(ToMain) /\ Len(c.out) <= Len(d.out)
      /\ \A i \in 1..Len(c.out) : d.out[i] = c.out[i]
      /\ \A i \in Len(c.out) + 1..Len(d.out) : d.out[i].tree \in P \cup {NoTree}
      /\ \A item \in DOMAIN d.entry : d.entry[item].tree \in R \cup {NoTree}
  BY DEF Serves
<1>5. /\ Len(g.out) = Len(d.out) + 1 /\ g.out[Len(d.out) + 1] = m
      /\ \A i \in 1..Len(d.out) : g.out[i] = d.out[i]
      /\ Len(d.out) \in Nat /\ Len(c.out) \in Nat
  BY <1>3, <1>4, AppendProperties, LenProperties
<1>6. Len(c.out) <= Len(g.out)
  BY <1>4, <1>5
<1>7. \A i \in 1..Len(c.out) : g.out[i] = c.out[i]
  <2>1. \A i \in 1..Len(c.out) : i \in 1..Len(d.out)
    BY <1>4, <1>5
  <2> QED
    BY <1>4, <1>5, <2>1
<1>8. ASSUME NEW i \in Len(c.out) + 1..Len(g.out)
      PROVE  g.out[i].tree \in P \cup {NoTree}
  <2>1. \/ i = Len(d.out) + 1
        \/ i \in Len(c.out) + 1..Len(d.out) /\ i \in 1..Len(d.out)
    BY <1>4, <1>5
  <2> QED
    BY <1>4, <1>5, <2>1
<1>9. \A item \in DOMAIN g.entry : g.entry[item].tree \in R \cup {NoTree}
  BY <1>3, <1>4
<1> QED
  BY <1>2, <1>3, <1>4, <1>6, <1>7, <1>8, <1>9 DEF Serves

LEMMA DoneServes ==
  ASSUME NEW c, NEW P, NEW R, NEW d, Serves(c, P, R, d),
         NEW id \in Ids, NEW status \in {-1, 0, 1}
  PROVE  /\ Serves(c, P, R, Tell(d, Done(id, status, NoTree)))
         /\ Serves(c, P, R, Reply(d, id, status))
<1>1. PICK m : m = Done(id, status, NoTree)
  OBVIOUS
<1>2. m \in ToMain /\ m.tree = NoTree
  <2>1. NoTree \in Trees
    BY DEF Trees
  <2>2. m \in ToMain
    BY <1>1, <2>1, DoneIs
  <2> QED
    BY <1>1, <2>2 DEF Done, Message
<1>3. PICK f : f = Forget(d, id)
  OBVIOUS
<1>4. Record(f) /\ f.entry = d.entry /\ f.out = d.out
  BY <1>3, ForgetRecord DEF Serves
<1>5. Serves(c, P, R, f)
  BY <1>4 DEF Serves
<1> QED
  BY <1>1, <1>2, <1>3, <1>5, TellServes DEF Reply

LEMMA StartServes ==
  ASSUME NEW c, NEW P, NEW R, NEW d, Serves(c, P, R, d),
         NEW id \in Ids, NEW item, NEW fault \in Faults
  PROVE  Serves(c, P, R, StartJob(d, id, item, fault))
<1>1. fault \in {"none", "mkpath", "fork"}
  BY HttpCacheAssumption
<1>2. CASE fault = "mkpath"
  BY <1>2, DoneServes DEF StartJob
<1>3. CASE fault = "fork"
  BY <1>3, DoneServes DEF StartJob
<1>4. CASE fault = "none"
  <2>1. PICK e : e = Started(d, id, item)
    OBVIOUS
  <2>2. PICK job : job = [pid |-> FreePid(d), item |-> item, known |-> item \in DOMAIN d.entry]
    OBVIOUS
  <2>3. PICK t, k : t = With(d.entry, item, e) /\ k = d.jobs \cup {job}
    OBVIOUS
  <2>4. PICK g : g = [d EXCEPT !.entry = t, !.jobs = k]
    OBVIOUS
  <2>5. StartJob(d, id, item, fault) = g
    BY <1>4, <2>1, <2>2, <2>3, <2>4 DEF StartJob
  <2>6. Record(g) /\ g.entry = With(d.entry, item, e) /\ g.out = d.out
    <3>1. PICK en, s, j, o : o \in Seq(ToMain)
                            /\ d = [entry |-> en, spec |-> s, jobs |-> j, out |-> o]
      BY DEF Serves, Record
    <3>2. PICK b : b = [d EXCEPT !.entry = t]
      OBVIOUS
    <3>3. b = [entry |-> t, spec |-> s, jobs |-> j, out |-> o]
      BY <3>1, <3>2
    <3>4. g = [b EXCEPT !.jobs = k]
      BY <2>4, <3>1, <3>2
    <3>5. g = [entry |-> t, spec |-> s, jobs |-> k, out |-> o]
      BY <3>3, <3>4
    <3>6. Record(g) /\ g.entry = t /\ g.out = o
      BY <3>1, <3>5, RecordBy
    <3>7. d.out = o
      BY <3>1
    <3> QED
      BY <2>3, <3>6, <3>7
  <2>7. e.tree \in R \cup {NoTree}
    <3>1. PICK new : new = NewEntry(id)
      OBVIOUS
    <3>2. CASE item \in DOMAIN d.entry
      <4>1. PICK p, tree : p = d.entry[item].parse /\ tree = d.entry[item].tree
        OBVIOUS
      <4>2. e = [new EXCEPT !.parse = p, !.tree = tree]
        BY <2>1, <3>1, <3>2, <4>1 DEF Started
      <4>3. e.tree = tree
        BY <3>1, <4>2 DEF NewEntry
      <4> QED
        BY <3>2, <4>1, <4>3 DEF Serves
    <3>3. CASE item \notin DOMAIN d.entry
      BY <2>1, <3>3 DEF Started, NewEntry
    <3> QED
      BY <3>2, <3>3
  <2>8. ASSUME NEW x \in DOMAIN g.entry
        PROVE  g.entry[x].tree \in R \cup {NoTree}
    <3>1. /\ x \in DOMAIN d.entry \cup {item}
          /\ g.entry[x] = IF x = item THEN e ELSE d.entry[x]
      BY <2>6, <2>8 DEF With
    <3> QED
      BY <2>7, <3>1 DEF Serves
  <2> QED
    BY <2>5, <2>6, <2>8, ServesStill
<1> QED
  BY <1>1, <1>2, <1>3, <1>4

LEMMA NextServes ==
  ASSUME NEW c, NEW P, NEW R, NEW d, Serves(c, P, R, d),
         NEW id \in Ids, NEW fault \in Faults
  PROVE  Serves(c, P, R, NextItem(d, id, fault))
<1>1. PICK rest : rest = Tail(d.spec[id])
  OBVIOUS
<1>2. CASE rest = <<>>
  BY <1>1, <1>2, DoneServes DEF NextItem
<1>3. CASE rest # <<>>
  <2>1. PICK g : g = [d EXCEPT !.spec[id] = rest]
    OBVIOUS
  <2>2. Record(g) /\ g.entry = d.entry /\ g.out = d.out
    <3>1. Record(d)
      BY DEF Serves
    <3> QED
      BY <2>1, <3>1, NextRecord
  <2>3. Serves(c, P, R, g)
    BY <2>2 DEF Serves
  <2>4. NextItem(d, id, fault) = StartJob(g, id, Head(rest), fault)
    BY <1>1, <1>3, <2>1 DEF NextItem
  <2> QED
    BY <2>3, <2>4, StartServes
<1> QED
  BY <1>2, <1>3

LEMMA DropServes ==
  ASSUME NEW c, NEW P, NEW R, NEW d, Serves(c, P, R, d), NEW item
  PROVE  LET g == DropEntry(d, item)
         IN  Serves(c, P, R, g) /\ DOMAIN g.entry = DOMAIN d.entry \ {item}
<1>1. PICK g : g = DropEntry(d, item)
  OBVIOUS
<1>2. /\ Record(g) /\ g.out = d.out
      /\ DOMAIN g.entry = DOMAIN d.entry \ {item}
      /\ \A x \in DOMAIN g.entry : g.entry[x] = d.entry[x]
  BY <1>1, DropRecord DEF Serves
<1>3. \A x \in DOMAIN g.entry : g.entry[x].tree \in R \cup {NoTree}
  BY <1>2 DEF Serves
<1>4. Serves(c, P, R, g)
  BY <1>2, <1>3, ServesStill
<1> QED
  BY <1>1, <1>2, <1>4

\* The process only has a tree freed that it has.
Loses(c, d, item) == DOMAIN d.entry = DOMAIN c.entry \ {item}

LEMMA RemoveServes ==
  ASSUME NEW c, NEW P \in SUBSET Ids, NEW d, Serves(c, P, P, d),
         NEW item \in DOMAIN d.entry
  PROVE  Serves(c, P, P, RemoveEntry(d, item)) /\ Loses(d, RemoveEntry(d, item), item)
<1>1. PICK tree : tree = d.entry[item].tree
  OBVIOUS
<1>2. tree \in P \cup {NoTree}
  BY <1>1 DEF Serves
<1>3. PICK told : told = IF tree = NoTree THEN d ELSE Tell(d, Free(tree))
  OBVIOUS
<1>4. RemoveEntry(d, item) = DropEntry(told, item)
  BY <1>1, <1>3 DEF RemoveEntry
<1>5. Serves(c, P, P, told) /\ DOMAIN told.entry = DOMAIN d.entry
  <2>1. CASE tree = NoTree
    BY <1>3, <2>1
  <2>2. CASE tree # NoTree
    <3>1. PICK m : m = Free(tree)
      OBVIOUS
    <3>2. tree \in P /\ tree \in Ids
      BY <1>2, <2>2
    <3>3. m \in ToMain
      BY <3>1, <3>2, FreeIs
    <3>4. m.tree = tree
      BY <3>1 DEF Free, Message
    <3>5. told = Tell(d, m)
      BY <1>3, <2>2, <3>1
    <3> QED
      BY <3>2, <3>3, <3>4, <3>5, TellServes
  <2> QED
    BY <2>1, <2>2
<1>6. PICK g : g = DropEntry(told, item)
  OBVIOUS
<1>7. Serves(c, P, P, g) /\ DOMAIN g.entry = DOMAIN told.entry \ {item}
  BY <1>5, <1>6, DropServes
<1> QED
  BY <1>4, <1>5, <1>6, <1>7 DEF Loses

\* An entry is changed, and keeps its tree.
LEMMA EditServes ==
  ASSUME NEW c0, NEW P, NEW R, NEW c \in Processes, Serves(c0, P, R, c),
         NEW item \in DOMAIN c.entry, NEW e \in Entries, e.tree \in R \cup {NoTree},
         NEW d, d = [c EXCEPT !.entry[item] = e]
  PROVE  Serves(c0, P, R, d) /\ d \in Processes
<1>1. /\ d \in Processes /\ Puts(c, d, item, e) /\ d.out = c.out
      /\ DOMAIN d.entry = DOMAIN c.entry
  BY EditIs
<1>2. Record(d)
  BY <1>1, RecordOf
<1>3. \A x \in DOMAIN d.entry : d.entry[x].tree \in R \cup {NoTree}
  BY <1>1 DEF Puts, Serves
<1> QED
  BY <1>1, <1>2, <1>3, ServesStill

\* A request is served what the process has.
LEMMA RequestServes ==
  ASSUME WorldTyped, NEW c0, NEW P \in SUBSET Ids, NEW c \in Processes,
         Serves(c0, P, P, c), NEW id \in Ids, id \in DOMAIN c.spec, NEW fault \in Faults
  PROVE  Serves(c0, P, P, ProcessNextRequestItem(c, id, fault))
<1> DEFINE d == ProcessNextRequestItem(c, id, fault)
<1>2. PICK item : item = Head(c.spec[id])
  OBVIOUS
<1>4. CASE item \notin DOMAIN c.entry
  <2>1. d = StartJob(c, id, item, fault)
    BY <1>2, <1>4 DEF ProcessNextRequestItem
  <2> QED
    BY <2>1, StartServes
<1>5. CASE item \in DOMAIN c.entry
  <2>1. PICK e : e = c.entry[item]
    OBVIOUS
  <2>2. e \in Entries /\ e.status \in {-1, 0, 1} /\ e.tree \in P \cup {NoTree}
    BY <1>5, <2>1, Parts DEF Entries, Serves
  <2>3. CASE RetryDue(e)
    <3>1. d = StartJob(DropEntry(c, item), id, item, fault)
      <4>1. e.status = -1
        BY <2>3 DEF RetryDue
      <4>2. e.status # 0 /\ e.status # 1
        BY <4>1
      <4> QED
        BY <1>2, <1>5, <2>1, <2>3, <4>2 DEF ProcessNextRequestItem
    <3>2. Serves(c0, P, P, DropEntry(c, item))
      BY DropServes
    <3> QED
      BY <3>1, <3>2, StartServes
  <2>4. CASE e.status = 0
    <3>1. ~RetryDue(e)
      BY <2>4 DEF RetryDue
    <3>2. PICK e2 : e2 = Join(e, id)
      OBVIOUS
    <3>3. e2 \in Entries /\ e2.tree = e.tree
      BY <2>2, <2>4, <3>2 DEF Join, Entries
    <3>4. PICK b : b = [c EXCEPT !.entry[item] = e2]
      OBVIOUS
    <3>5. Serves(c0, P, P, b)
      BY <1>5, <2>2, <3>3, <3>4, EditServes
    <3>6. d = [c EXCEPT !.entry[item] = Join(@, id)]
      BY <1>2, <1>5, <2>1, <2>4, <3>1 DEF ProcessNextRequestItem
    <3>7. d = b
      BY <2>1, <3>2, <3>4, <3>6
    <3> QED
      BY <3>5, <3>7
  <2>5. CASE e.status = -1 /\ ~RetryDue(e)
    <3>1. d = NextItem(c, id, fault)
      BY <1>2, <1>5, <2>1, <2>5 DEF ProcessNextRequestItem
    <3> QED
      BY <3>1, NextServes
  <2>6. CASE e.status = 1 /\ Expired(e, id)
    <3>1. d = StartJob(c, id, item, fault)
      BY <1>2, <1>5, <2>1, <2>6 DEF ProcessNextRequestItem, RetryDue
    <3> QED
      BY <3>1, StartServes
  <2>7. CASE e.status = 1 /\ ~Expired(e, id) /\ ~e.cacheable
    <3>1. d = StartJob(RemoveEntry(c, item), id, item, fault)
      BY <1>2, <1>5, <2>1, <2>7 DEF ProcessNextRequestItem, RetryDue
    <3>2. Serves(c0, P, P, RemoveEntry(c, item))
      BY <1>5, RemoveServes
    <3> QED
      BY <3>1, <3>2, StartServes
  <2>8. CASE e.status = 1 /\ ~Expired(e, id) /\ e.cacheable
    <3>1. d = Answer(c, id, item)
      BY <1>2, <1>5, <2>1, <2>8 DEF ProcessNextRequestItem, RetryDue
    <3>2. PICK e2 : e2 = [e EXCEPT !.lastUsed = now]
      OBVIOUS
    <3>3. e2 \in Entries /\ e2.tree = e.tree
      BY <2>2, <2>8, <3>2 DEF Entries, WorldTyped
    <3>4. PICK f : f = Forget(c, id)
      OBVIOUS
    <3>5. f \in Processes /\ f.entry = c.entry /\ f.out = c.out
      BY <3>4, ForgetIs
    <3>6. Record(f)
      BY <3>5, RecordOf
    <3>7. Serves(c0, P, P, f)
      BY <3>5, <3>6 DEF Serves
    <3>8. PICK b : b = [f EXCEPT !.entry[item] = e2]
      OBVIOUS
    <3>9. Serves(c0, P, P, b)
      BY <1>5, <2>2, <3>3, <3>5, <3>7, <3>8, EditServes
    <3>10. PICK m : m = Done(id, 1, e.tree)
      OBVIOUS
    <3>11. m \in ToMain /\ m.tree = e.tree
      <4>1. e.tree \in Trees
        BY <2>2 DEF Entries
      <4>2. m \in ToMain
        BY <3>10, <4>1, DoneIs
      <4> QED
        BY <3>10, <4>2 DEF Done, Message
    <3>12. Serves(c0, P, P, Tell(b, m))
      BY <2>2, <3>9, <3>11, TellServes
    <3>13. [Forget(c, id) EXCEPT !.entry[item].lastUsed = now] = b
      BY <2>1, <3>2, <3>4, <3>5, <3>8
    <3>14. d = Tell(b, m)
      BY <2>1, <3>1, <3>10, <3>13 DEF Answer
    <3> QED
      BY <3>12, <3>14
  <2> QED
    BY <2>2, <2>3, <2>4, <2>5, <2>6, <2>7, <2>8
<1> QED
  BY <1>4, <1>5

\* Those that waited are answered without a tree.
LEMMA AnswerAllServes ==
  ASSUME NEW c0, NEW P, NEW R, NEW c \in Processes, Serves(c0, P, R, c),
         NEW item \in DOMAIN c.entry, NEW ids \in SUBSET Ids, IsFiniteSet(ids),
         NEW order \in SetToSeqs(ids), NEW fault \in Faults
  PROVE  Serves(c0, P, R, AnswerAll(c, item, order, fault))
<1> DEFINE n == Len(order)
           status == c.entry[item].status
<1>1. order \in Seq(ids) /\ n \in Nat
  BY OrderOf
<1>2. PICK f : /\ f[0] = [c EXCEPT !.entry[item].ids = {}]
               /\ \A i \in 1..n : f[i] = AnswerStep(f[i - 1], order[i], status, fault)
               /\ AnswerAll(c, item, order, fault) = f[n]
  <2>1. Len(order) \in Nat
    BY <1>1
  <2>2. PICK f : Answered(f, c, item, order, fault)
    BY <2>1, AnsweredInTurn
  <2> QED
    BY <2>2 DEF Answered
<1>3. Serves(c0, P, R, f[0])
  <2>1. PICK e0 : e0 = c.entry[item]
    OBVIOUS
  <2>2. e0 \in Entries /\ e0.tree \in R \cup {NoTree}
    BY <2>1, Parts DEF Serves
  <2>3. PICK e : e = [e0 EXCEPT !.ids = {}]
    OBVIOUS
  <2>4. e \in Entries /\ e.tree = e0.tree
    BY <2>2, <2>3 DEF Entries
  <2>5. PICK b : b = [c EXCEPT !.entry[item] = e]
    OBVIOUS
  <2>6. Serves(c0, P, R, b)
    BY <2>2, <2>4, <2>5, EditServes
  <2>7. f[0] = b
    BY <1>2, <2>1, <2>3, <2>5
  <2> QED
    BY <2>6, <2>7
<1> DEFINE T == {i \in 0..n : Serves(c0, P, R, f[i])}
<1>4. 0 \in T
  BY <1>1, <1>3
<1>5. ASSUME NEW i \in 1..n, i - 1 \in T
      PROVE  i \in T
  <2>1. PICK d, id : d = f[i - 1] /\ id = order[i]
    OBVIOUS
  <2>2. Serves(c0, P, R, d) /\ id \in Ids /\ i \in 0..n
    BY <1>1, <1>5, <2>1
  <2>3. f[i] = AnswerStep(d, id, status, fault)
    BY <1>2, <2>1
  <2>4. CASE status = 1
    BY <2>2, <2>3, <2>4, DoneServes DEF AnswerStep
  <2>5. CASE status # 1
    BY <2>2, <2>3, <2>5, NextServes DEF AnswerStep
  <2> QED
    BY <2>4, <2>5
<1>6. n \in T
  <2>1. \A i \in 1..n : i - 1 \in T => i \in T
    BY <1>5
  <2> HIDE DEF T
  <2>2. \A i \in 0..n : i \in T
    BY <1>1, <1>4, <2>1, UpTo
  <2> QED
    BY <1>1, <2>2
<1> QED
  BY <1>2, <1>6

\* A purge has the trees of its entries freed.
LEMMA RemoveEntriesServes ==
  ASSUME NEW c0, NEW P \in SUBSET Ids, NEW c, Serves(c0, P, P, c),
         NEW S \in SUBSET DOMAIN c.entry, IsFiniteSet(S), NEW order \in SetToSeqs(S)
  PROVE  Serves(c0, P, P, RemoveEntries(c, order))
<1> DEFINE n == Len(order)
<1>1. /\ order \in Seq(S) /\ n \in Nat
      /\ \A i, j \in 1..n : order[i] = order[j] => i = j
  BY SMTT(60), OrderOf
<1>2. PICK f : /\ f[0] = c
               /\ \A i \in 1..n : f[i] = RemoveEntry(f[i - 1], order[i])
               /\ RemoveEntries(c, order) = f[n]
  BY <1>1, RemovedInTurn
<1> DEFINE T == {i \in 0..n : /\ Serves(c0, P, P, f[i])
                              /\ \A j \in i + 1..n : order[j] \in DOMAIN f[i].entry}
<1>3. 0 \in T
  BY <1>1, <1>2
<1>4. ASSUME NEW i \in 1..n, i - 1 \in T
      PROVE  i \in T
  <2>1. PICK d, x : d = f[i - 1] /\ x = order[i]
    OBVIOUS
  <2>2. i - 1 + 1 = i /\ i \in i..n /\ i \in 0..n
    BY <1>1
  <2>3. Serves(c0, P, P, d) /\ \A j \in i..n : order[j] \in DOMAIN d.entry
    BY <1>4, <2>1, <2>2
  <2>4. x \in DOMAIN d.entry
    BY <2>1, <2>2, <2>3
  <2>5. f[i] = RemoveEntry(d, x)
    BY <1>2, <2>1
  <2>6. Serves(c0, P, P, f[i]) /\ DOMAIN f[i].entry = DOMAIN d.entry \ {x}
    <3>1. Serves(c0, P, P, d) /\ P \in SUBSET Ids
      BY <2>3
    <3>2. Serves(c0, P, P, RemoveEntry(d, x)) /\ Loses(d, RemoveEntry(d, x), x)
      BY <2>4, <3>1, RemoveServes
    <3> QED
      BY <2>5, <3>2 DEF Loses
  <2>7. ASSUME NEW j \in i + 1..n
        PROVE  order[j] \in DOMAIN f[i].entry
    <3>1. j \in i..n /\ j # i /\ j \in 1..n
      BY <1>1
    <3>2. order[j] # x
      BY <1>1, <2>1, <3>1
    <3> QED
      BY <2>3, <2>6, <3>1, <3>2
  <2> QED
    BY <2>2, <2>6, <2>7
<1>5. n \in T
  <2>1. \A i \in 1..n : i - 1 \in T => i \in T
    BY <1>4
  <2> HIDE DEF T
  <2>2. \A i \in 0..n : i \in T
    BY <1>1, <1>3, <2>1, UpTo
  <2> QED
    BY <1>1, <2>2
<1> QED
  BY <1>2, <1>5

\* What is known of an item at last is told without a tree.
LEMMA ResultServes ==
  ASSUME NEW c0, NEW P, NEW R, NEW c \in Processes, Serves(c0, P, R, c),
         NEW item \in DOMAIN c.entry, IsFiniteSet(c.entry[item].ids),
         NEW fault \in Faults, NEW d \in ProcessCacheChildResult(c, item, fault)
  PROVE  Serves(c0, P, R, d)
<1>1. PICK e0 : e0 = c.entry[item]
  OBVIOUS
<1>2. e0 \in Entries /\ e0.ids \in SUBSET Ids /\ e0.tree \in R \cup {NoTree}
      /\ IsFiniteSet(e0.ids)
  BY <1>1, Parts DEF Entries, Serves
<1>3. CASE MustParse(e0) /\ e0.ids = {}
  BY <1>1, <1>3 DEF ProcessCacheChildResult
<1>4. CASE MustParse(e0) /\ e0.ids # {}
  <2>1. PICK id \in e0.ids : d = HandOver(c, item, id)
    BY <1>1, <1>4 DEF ProcessCacheChildResult
  <2>2. PICK e : e = [e0 EXCEPT !.ids = @ \ {id}]
    OBVIOUS
  <2>3. e \in Entries /\ e.tree = e0.tree
    BY <1>2, <2>2 DEF Entries
  <2>4. PICK b : b = [c EXCEPT !.entry[item] = e]
    OBVIOUS
  <2>5. Serves(c0, P, R, b)
    BY <1>2, <2>3, <2>4, EditServes
  <2>6. d = Tell(b, Done(id, 0, NoTree))
    BY <1>1, <2>1, <2>2, <2>4 DEF HandOver
  <2>7. id \in Ids
    BY <1>2, <2>1
  <2> QED
    BY <2>5, <2>6, <2>7, DoneServes
<1>5. CASE ~MustParse(e0)
  <2>1. PICK order \in SetToSeqs(e0.ids) : d = AnswerAll(c, item, order, fault)
    BY <1>1, <1>5 DEF ProcessCacheChildResult
  <2> QED
    BY <1>2, <2>1, AnswerAllServes
<1> QED
  BY <1>3, <1>4, <1>5

-----------------------------------------------------------------------------
(* The contract with main.                                                  *)

\* b is a with the messages new behind it.
Extends(a, b, new) ==
  /\ SubSeq(b, 1, Len(a)) = a
  /\ \A i \in DOMAIN new : /\ Len(a) + i \in Len(a) + 1..Len(b)
                           /\ new[i] = b[Len(a) + i] /\ new[i] \in ToMain
  /\ \A M : In(b, M) <=> (In(a, M) \/ \E i \in DOMAIN new : new[i] \in M)
  /\ \A M : One(b, M) =>
       /\ \A i, j \in DOMAIN new : new[i] \in M /\ new[j] \in M => i = j
       /\ In(a, M) => \A i \in DOMAIN new : new[i] \notin M

LEMMA NewMessages ==
  ASSUME NEW a \in Seq(ToMain), NEW b \in Seq(ToMain), Len(a) <= Len(b),
         \A i \in 1..Len(a) : b[i] = a[i]
  PROVE  Extends(a, b, SubSeq(b, Len(a) + 1, Len(b)))
<1> DEFINE S == ToMain
<1> HIDE DEF S
<1>0. PICK new : new = SubSeq(b, Len(a) + 1, Len(b))
  OBVIOUS
<1>1. PICK m, n : m = Len(a) /\ n = Len(b)
  OBVIOUS
<1>2. m \in Nat /\ n \in Nat /\ m <= n
  BY <1>1
<1>3. \A i \in m + 1..n : b[i] \in S
  BY <1>1, <1>2 DEF S
<1>4. m + 1 \in Int /\ n \in Int /\ n - (m + 1) + 1 = n - m
  BY <1>2
<1>5. /\ new \in Seq(S) /\ Len(new) = n - m
      /\ \A i \in 1..n - m : new[i] = b[m + i]
  <2>1. PICK k : k = m + 1
    OBVIOUS
  <2>2. k \in Int /\ n \in Int /\ (\A i \in k..n : b[i] \in S) /\ new = SubSeq(b, k, n)
    BY <1>0, <1>1, <1>3, <1>4, <2>1
  <2>3. /\ new \in Seq(S) /\ Len(new) = IF k <= n THEN n - k + 1 ELSE 0
        /\ \A i \in 1..n - k + 1 : new[i] = b[k + i - 1]
    <3>1. SubSeq(b, k, n) \in Seq(S)
      BY <2>2, SubSeqProperties
    <3>2. Len(SubSeq(b, k, n)) = IF k <= n THEN n - k + 1 ELSE 0
      BY <2>2, SubSeqProperties
    <3>3. \A i \in 1..n - k + 1 : SubSeq(b, k, n)[i] = b[k + i - 1]
      BY <2>2, SubSeqProperties
    <3> QED
      BY <2>2, <3>1, <3>2, <3>3
  <2>4. /\ n - k + 1 = n - m /\ (IF k <= n THEN n - k + 1 ELSE 0) = n - m
        /\ \A i \in 1..n - m : k + i - 1 = m + i
    BY <1>2, <2>1
  <2> QED
    BY <2>3, <2>4
<1>6. DOMAIN new = 1..n - m
  BY <1>5
<1>7. SubSeq(b, 1, m) = a
  <2>1. PICK t : t = SubSeq(b, 1, m)
    OBVIOUS
  <2>2. \A i \in 1..m : b[i] \in S
    BY <1>1, <1>2 DEF S
  <2>3. 1 \in Int /\ m \in Int /\ m - 1 + 1 = m
    BY <1>2
  <2>4. /\ t \in Seq(S) /\ Len(t) = IF 1 <= m THEN m ELSE 0
        /\ \A i \in 1..m : t[i] = b[1 + i - 1]
    BY <2>1, <2>2, <2>3, SubSeqProperties
  <2>5. Len(t) = m
    BY <1>2, <2>4
  <2>6. \A i \in 1..m : t[i] = a[i]
    BY <1>1, <1>2, <2>4
  <2> QED
    BY <1>1, <2>1, <2>4, <2>5, <2>6, SeqEqual DEF S
<1>8. \A i \in 1..n - m : /\ m + i \in 1..n /\ m + i \in m + 1..n
                          /\ new[i] = b[m + i] /\ new[i] \in S
  BY <1>2, <1>5
<1>9. \A i \in 1..n : i \in 1..m \/ (i - m \in 1..n - m /\ i = m + (i - m))
  BY <1>2
<1>10. ASSUME NEW M
       PROVE  In(b, M) <=> (In(a, M) \/ \E i \in DOMAIN new : new[i] \in M)
  <2>1. ASSUME In(b, M)
        PROVE  In(a, M) \/ \E i \in 1..n - m : new[i] \in M
    <3>1. PICK k \in 1..n : b[k] \in M
      BY <1>1, <2>1 DEF In
    <3>2. CASE k \in 1..m
      BY <1>1, <3>1, <3>2 DEF In
    <3>3. CASE k - m \in 1..n - m /\ k = m + (k - m)
      BY <1>8, <3>1, <3>3
    <3> QED
      BY <1>9, <3>2, <3>3
  <2>2. ASSUME In(a, M)
        PROVE  In(b, M)
    <3>1. PICK k \in 1..m : a[k] \in M
      BY <1>1, <2>2 DEF In
    <3>2. k \in 1..n
      BY <1>2
    <3> QED
      BY <1>1, <3>1, <3>2 DEF In
  <2>3. ASSUME NEW i \in 1..n - m, new[i] \in M
        PROVE  In(b, M)
    BY <1>1, <1>8, <2>3 DEF In
  <2> QED
    BY <1>6, <2>1, <2>2, <2>3
<1>11. ASSUME NEW M, One(b, M)
       PROVE  /\ \A i, j \in DOMAIN new : new[i] \in M /\ new[j] \in M => i = j
              /\ In(a, M) => \A i \in DOMAIN new : new[i] \notin M
  <2>1. \A i, j \in 1..n : b[i] \in M /\ b[j] \in M => i = j
    BY <1>1, <1>11 DEF One
  <2>2. ASSUME NEW i \in 1..n - m, NEW j \in 1..n - m, new[i] \in M, new[j] \in M
        PROVE  i = j
    <3>1. m + i = m + j
      BY <1>8, <2>1, <2>2
    <3> QED
      BY <1>2, <3>1
  <2>3. ASSUME In(a, M), NEW i \in 1..n - m, new[i] \in M
        PROVE  FALSE
    <3>1. PICK k \in 1..m : a[k] \in M
      BY <1>1, <2>3 DEF In
    <3>2. k \in 1..n /\ b[k] \in M
      BY <1>1, <1>2, <3>1
    <3>3. k = m + i
      BY <1>8, <2>1, <2>3, <3>2
    <3> QED
      BY <1>2, <3>3
  <2> QED
    BY <1>6, <2>2, <2>3
<1> QED
  BY <1>0, <1>1, <1>6, <1>7, <1>8, <1>10, <1>11 DEF Extends, S

LEMMA ContractState ==
  ASSUME IInv
  PROVE  /\ \A id : id \in Unanswered <=>
                      (id \in Ids /\ (Held(cache, id) \/ In(toCache, ReqFrom(id))))
         /\ \A t : t \in Owned <=> (t \in Ids /\ Kept(cache, t))
<1>1. cache \in Processes /\ toCache \in Seq(ToProcess)
  BY Around
<1>2. ASSUME NEW id \in Ids
      PROVE  /\ Holders(id) # {} <=> Held(cache, id)
             /\ Requests(id) # {} <=> In(toCache, ReqFrom(id))
  <2>1. Holders(id) # {} <=> Held(cache, id)
    BY DEF Holders, Held
  <2>2. /\ DOMAIN toCache = 1..Len(toCache)
        /\ \A i \in 1..Len(toCache) : toCache[i] \in ToProcess
    BY <1>1
  <2>3. \A m \in ToProcess : m = Req(id) <=> m \in ReqFrom(id)
    BY DEF ToProcess, ReqFrom, Req, Message
  <2>4. Requests(id) = {i \in 1..Len(toCache) : toCache[i] \in ReqFrom(id)}
    BY <2>2, <2>3 DEF Requests
  <2>5. Requests(id) # {} <=> In(toCache, ReqFrom(id))
    BY <2>4 DEF In
  <2> QED
    BY <2>1, <2>5
<1>3. \A id : id \in Unanswered <=>
                (id \in Ids /\ (Held(cache, id) \/ In(toCache, ReqFrom(id))))
  BY <1>2 DEF Unanswered
<1>4. \A item \in DOMAIN cache.entry : cache.entry[item].tree \in Ids \cup {NoTree}
  BY <1>1, Parts DEF Entries, Trees
<1>5. NoTree \notin Ids
  BY HttpCacheAssumption DEF NoTree
<1>6. \A t : t \in Owned <=> (t \in Ids /\ Kept(cache, t))
  BY <1>4, <1>5 DEF Owned, Kept
<1> QED
  BY <1>3, <1>6

LEMMA ContractNext ==
  ASSUME IInv, IInv'
  PROVE  /\ \A id : id \in Unanswered' <=>
                      (id \in Ids /\ (Held(cache', id) \/ In(toCache', ReqFrom(id))))
         /\ \A t : t \in Owned' <=> (t \in Ids /\ Kept(cache', t))
<1>1. (/\ \A id : id \in Unanswered <=>
                    (id \in Ids /\ (Held(cache, id) \/ In(toCache, ReqFrom(id))))
       /\ \A t : t \in Owned <=> (t \in Ids /\ Kept(cache, t)))'
  BY ContractState, PTL
<1> QED
  BY <1>1

\* A step that writes as Serves says is a step of the contract.
LEMMA ServeStep ==
  ASSUME IInv, IInv', asked' = asked, NEW reported \in SUBSET Ids,
         \A t \in reported : ~Kept(cache, t),
         NEW P, P = {t \in Ids : Kept(cache, t)},
         Serves(cache, P, P \cup reported, cache')
  PROVE  Contract!Serve(reported)
<1>1. PICK a, b : a = cache.out /\ b = cache'.out
  OBVIOUS
<1>2. a \in Seq(ToMain) /\ b \in Seq(ToMain)
  <2>1. (cache.out \in Seq(ToMain))'
    BY Around, PTL
  <2> QED
    BY <1>1, <2>1, Around
<1>3. /\ Len(a) <= Len(b) /\ \A i \in 1..Len(a) : b[i] = a[i]
      /\ \A i \in Len(a) + 1..Len(b) : b[i].tree \in P \cup {NoTree}
      /\ \A item \in DOMAIN cache'.entry :
           cache'.entry[item].tree \in P \cup reported \cup {NoTree}
  BY <1>1 DEF Serves
<1>4. PICK new : new = Contract!New
  OBVIOUS
<1>5. new = SubSeq(b, Len(a) + 1, Len(b))
  BY <1>1, <1>4 DEF Contract!New
<1>6. /\ SubSeq(b, 1, Len(a)) = a
      /\ \A i \in DOMAIN new : /\ Len(a) + i \in Len(a) + 1..Len(b)
                               /\ new[i] = b[Len(a) + i] /\ new[i] \in ToMain
      /\ \A M : In(b, M) <=> (In(a, M) \/ \E i \in DOMAIN new : new[i] \in M)
      /\ \A M : One(b, M) =>
           /\ \A i, j \in DOMAIN new : new[i] \in M /\ new[j] \in M => i = j
           /\ In(a, M) => \A i \in DOMAIN new : new[i] \notin M
  <2>1. Extends(a, b, new)
    BY <1>2, <1>3, <1>5, NewMessages
  <2> QED
    BY <2>1 DEF Extends
<1>7. \A i \in DOMAIN new : new[i].tree \in P \cup {NoTree}
  BY <1>3, <1>6
<1>8. \A i \in DOMAIN new :
        /\ new[i].type = "done" => new[i].id \in Ids
        /\ new[i].type = "free" => new[i].tree \in Ids
        /\ \A k : new[i] \in DoneFor(k) <=> (new[i].type = "done" /\ new[i].id = k)
        /\ \A k : new[i] \in FreeOf(k) <=> (new[i].type = "free" /\ new[i].tree = k)
  BY <1>6 DEF DoneFor, FreeOf, ToMain
<1>9. \A k \in Ids : /\ Placed(cache, toCache, {}, k) /\ TreePlaced(cache, toCache, k)
                     /\ Placed(cache, toCache, {}, k)' /\ TreePlaced(cache, toCache, k)'
  BY DEF IInv, Sound
<1>10. ASSUME NEW k \in Ids
       PROVE  /\ One(b, DoneFor(k)) /\ One(b, FreeOf(k))
              /\ k \in asked <=> \/ Held(cache, k) \/ In(a, DoneFor(k))
                                 \/ In(toCache, ReqFrom(k))
              /\ k \in asked <=> \/ Held(cache', k) \/ In(b, DoneFor(k))
                                 \/ In(toCache', ReqFrom(k))
              /\ In(b, DoneFor(k)) => ~Held(cache', k) /\ ~In(toCache', ReqFrom(k))
              /\ In(a, DoneFor(k)) => ~Held(cache, k) /\ ~In(toCache, ReqFrom(k))
              /\ Kept(cache', k) => ~In(b, FreeOf(k))
  <2>1. Placed(cache, toCache, {}, k)
    BY <1>9
  <2>2. Placed(cache, toCache, {}, k)' /\ TreePlaced(cache, toCache, k)'
    BY <1>9
  <2>3. /\ k \in asked <=> \/ Held(cache, k) \/ In(a, DoneFor(k))
                           \/ In(toCache, ReqFrom(k))
        /\ In(a, DoneFor(k)) => ~Held(cache, k) /\ ~In(toCache, ReqFrom(k))
    BY <1>1, <2>1 DEF Placed
  <2>4. /\ k \in asked <=> \/ Held(cache', k) \/ In(b, DoneFor(k))
                           \/ In(toCache', ReqFrom(k))
        /\ In(b, DoneFor(k)) => ~Held(cache', k) /\ ~In(toCache', ReqFrom(k))
        /\ One(b, DoneFor(k))
    BY <1>1, <2>2 DEF Placed
  <2>5. One(b, FreeOf(k)) /\ (Kept(cache', k) => ~In(b, FreeOf(k)))
    BY <1>1, <2>2 DEF TreePlaced
  <2> QED
    BY <2>3, <2>4, <2>5
<1>11. /\ \A id : id \in Unanswered <=>
                    (id \in Ids /\ (Held(cache, id) \/ In(toCache, ReqFrom(id))))
       /\ \A t : t \in Owned <=> (t \in Ids /\ Kept(cache, t))
  BY ContractState
<1>12. /\ \A id : id \in Unanswered' <=>
                    (id \in Ids /\ (Held(cache', id) \/ In(toCache', ReqFrom(id))))
       /\ \A t : t \in Owned' <=> (t \in Ids /\ Kept(cache', t))
  BY ContractNext
<1>13. PICK dones, frees : /\ dones = {i \in DOMAIN new : new[i].type = "done"}
                           /\ frees = {i \in DOMAIN new : new[i].type = "free"}
  OBVIOUS
<1>14. Contract!OfType("done") = dones /\ Contract!OfType("free") = frees
  BY <1>4, <1>13 DEF Contract!OfType
<1>15. PICK answered, named, freeing :
         /\ answered = {new[i].id : i \in dones}
         /\ named = {new[i].tree : i \in dones} \ {None}
         /\ freeing = {new[i].tree : i \in frees} \ {None}
  OBVIOUS
<1>16. /\ Contract!Answered = answered
       /\ Contract!Named("done") = named /\ Contract!Named("free") = freeing
  BY <1>4, <1>14, <1>15 DEF Contract!Answered, Contract!Named
<1>17. \A k \in Ids : k \in answered <=> \E i \in DOMAIN new : new[i] \in DoneFor(k)
  BY <1>8, <1>13, <1>15
<1>18. \A k \in answered : k \in Ids
  BY <1>8, <1>13, <1>15
<1>19. \A i, j \in dones : new[i].id = new[j].id => i = j
  BY <1>6, <1>8, <1>10, <1>13
<1>20. \A i, j \in frees : new[i].tree = new[j].tree => i = j
  BY <1>6, <1>8, <1>10, <1>13
<1>21. ASSUME NEW k \in Ids, k \in answered
       PROVE  k \in Unanswered /\ k \notin Unanswered'
  <2>1. PICK i \in DOMAIN new : new[i] \in DoneFor(k)
    BY <1>17, <1>21
  <2>2. In(b, DoneFor(k)) /\ ~In(a, DoneFor(k))
    BY <1>6, <1>10, <2>1
  <2> QED
    BY <1>10, <1>11, <1>12, <2>2
<1>22. ASSUME NEW k \in Ids, k \notin answered
       PROVE  k \in Unanswered <=> k \in Unanswered'
  <2>1. In(b, DoneFor(k)) <=> In(a, DoneFor(k))
    BY <1>6, <1>17, <1>22
  <2> QED
    BY <1>10, <1>11, <1>12, <2>1
<1>23. Unanswered' = Unanswered \ answered
  BY <1>11, <1>12, <1>21, <1>22
<1>24. answered \subseteq Unanswered
  BY <1>18, <1>21
<1>25. \A t \in P : t \in Owned
  BY <1>11
<1>26. named \subseteq Owned /\ freeing \subseteq Owned
  BY <1>7, <1>13, <1>15, <1>25 DEF NoTree
<1>27. reported \cap Owned = {}
  BY <1>11
<1>28. ASSUME NEW t \in Owned'
       PROVE  t \in (Owned \cup reported) \ freeing
  <2>1. t \in Ids /\ Kept(cache', t) /\ t # NoTree
    BY <1>12, HttpCacheAssumption DEF NoTree
  <2>2. t \in P \cup reported
    BY <1>3, <2>1 DEF Kept
  <2>3. ~In(b, FreeOf(t))
    BY <1>10, <2>1
  <2>4. \A i \in DOMAIN new : new[i] \notin FreeOf(t)
    BY <1>6, <2>3
  <2>5. t \notin freeing
    BY <1>8, <1>13, <1>15, <2>4
  <2> QED
    BY <1>25, <2>2, <2>5
<1> QED
  <2>1. Len(b) >= Len(a)
    BY <1>2, <1>3
  <2>2. Contract!New = new
    BY <1>4
  <2> QED
    BY <1>1, <1>6, <1>14, <1>16, <1>19, <1>20, <1>23, <1>24, <1>26, <1>27, <1>28,
       <2>1, <2>2 DEF Contract!Serve

\* What the process has is what it starts from.
LEMMA ServesNothing ==
  ASSUME IInv, NEW P, P = {t \in Ids : Kept(cache, t)}, NEW R, P \subseteq R,
         NEW c \in Processes, c.entry = cache.entry, c.out = cache.out
  PROVE  Serves(cache, P, R, c) /\ Serves(cache, P, P, c)
<1>1. cache \in Processes /\ cache.out \in Seq(ToMain)
  BY Around
<1>2. \A item \in DOMAIN c.entry : c.entry[item].tree \in P \cup {NoTree}
  BY <1>1, Parts DEF Entries, Trees, Kept
<1>3. Record(c)
  BY RecordOf
<1>4. Len(cache.out) \in Nat
  BY <1>1
<1> QED
  BY <1>1, <1>2, <1>3, <1>4 DEF Serves

LEMMA HandleRequestServes ==
  ASSUME IInv, IInv', HandleRequest
  PROVE  Contract!Serve({})
<1>1. WorldTyped /\ cache \in Processes /\ toCache \in Seq(ToProcess) /\ toCache # <<>>
  BY Around DEF HandleRequest
<1>2. PICK m : m = Head(toCache)
  OBVIOUS
<1>3. m \in ToProcess
  BY <1>1, <1>2, HeadTailProperties
<1>4. PICK id : id = m.id
  OBVIOUS
<1>5. id \in Ids
  BY <1>2, <1>3, <1>4 DEF ToProcess, HandleRequest
<1>6. PICK s : s = RequestSpec(id)
  OBVIOUS
<1>7. s \in Seq(Items) \ {<<>>}
  BY <1>1, <1>5, <1>6, ItemsOf
<1>8. PICK c : c = [cache EXCEPT !.spec = With(@, id, s)]
  OBVIOUS
<1>9. /\ c \in Processes /\ Notes(cache, c, id, s)
      /\ c.entry = cache.entry /\ c.jobs = cache.jobs /\ c.out = cache.out
  BY <1>1, <1>5, <1>7, <1>8, SpecIs
<1>10. id \in DOMAIN c.spec
  BY <1>9 DEF Notes
<1>11. PICK fault \in Faults : cache' = ProcessNextRequestItem(c, id, fault)
  BY <1>2, <1>4, <1>6, <1>8 DEF HandleRequest
<1>12. PICK P : P = {t \in Ids : Kept(cache, t)}
  OBVIOUS
<1>13. P \in SUBSET Ids /\ Serves(cache, P, P, c)
  BY <1>9, <1>12, ServesNothing
<1>14. Serves(cache, P, P, cache')
  BY <1>1, <1>5, <1>9, <1>10, <1>11, <1>13, RequestServes
<1>15. P \cup {} = P /\ {} \in SUBSET Ids /\ asked' = asked /\ \A t \in {} : ~Kept(cache, t)
  BY DEF HandleRequest
<1>16. Serves(cache, P, P \cup {}, cache')
  BY <1>14, <1>15
<1> QED
  BY <1>12, <1>15, <1>16, ServeStep

LEMMA HandleParsedServes ==
  ASSUME IInv, IInv', HandleParsed
  PROVE  \E reported \in SUBSET Ids : Contract!Serve(reported)
<1>1. WorldTyped /\ Sound(cache, toCache, {}) /\ toCache \in Seq(ToProcess)
      /\ toCache # <<>> /\ cache \in Processes /\ EntriesCoherent(cache)
  BY DEF IInv, WorldTyped, Sound, HandleParsed
<1>2. PICK m : m = Head(toCache)
  OBVIOUS
<1>3. m \in ToProcess
  BY <1>1, <1>2, HeadTailProperties
<1>4. PICK id, tree, item : id = m.id /\ tree = m.tree /\ item = Head(cache.spec[id])
  OBVIOUS
<1>5. id \in Ids /\ tree \in Trees /\ m.type = "parsed"
  BY <1>2, <1>3, <1>4 DEF ToProcess, Messages, HandleParsed
<1>6. /\ id \in DOMAIN cache.spec /\ item \in DOMAIN cache.entry
  BY <1>1, <1>2, <1>4, <1>5, ParsedSound
<1>7. PICK h : h = Reported(cache, item, tree)
  OBVIOUS
<1>8. PICK fault \in Faults : cache' \in ProcessCacheChildResult(h, item, fault)
  BY <1>2, <1>4, <1>6, <1>7 DEF HandleParsed, Reported
<1>9. cache.entry[item].tree = NoTree
  <2>1. In(toCache, ParsedBy(id))
    <3>1. toCache[1] = m /\ 1 \in 1..Len(toCache)
      BY <1>1, <1>2
    <3>2. m \in ParsedBy(id)
      BY <1>3, <1>4, <1>5 DEF ParsedBy
    <3> QED
      BY <3>1, <3>2 DEF In
  <2>2. ParserWaits(cache, toCache, id) /\ Parser(cache, toCache, id)
    BY <1>5, <2>1, Around DEF Parser
  <2> QED
    BY <1>4, <2>2 DEF ParserWaits
<1>10. PICK e \in Entries :
         /\ e.status # 0 /\ e.ids = cache.entry[item].ids /\ e.tree = tree
         /\ h \in Processes /\ Puts(cache, h, item, e) /\ h.spec = cache.spec
         /\ h.jobs = cache.jobs /\ h.out = cache.out
  BY <1>1, <1>5, <1>6, <1>7, <1>9, ReportedIs
<1>11. item \in DOMAIN h.entry /\ IsFiniteSet(h.entry[item].ids)
  BY <1>1, <1>6, <1>10 DEF Puts, EntriesCoherent
<1>12. PICK P, reported : /\ P = {t \in Ids : Kept(cache, t)}
                          /\ reported = {tree} \ {NoTree}
  OBVIOUS
<1>13. reported \in SUBSET Ids
  BY <1>5, <1>12 DEF Trees
<1>14. ASSUME NEW t \in reported
       PROVE  ~Kept(cache, t)
  <2>1. t = tree /\ t \in Ids
    BY <1>12, <1>13
  <2>2. m \in TreeIn(t)
    BY <1>3, <1>4, <1>5, <2>1 DEF TreeIn
  <2>3. toCache[1] = m /\ 1 \in 1..Len(toCache)
    BY <1>1, <1>2
  <2>4. In(toCache, TreeIn(t))
    BY <2>2, <2>3 DEF In
  <2>5. TreePlaced(cache, toCache, t)
    BY <2>1, Around
  <2> QED
    BY <2>4, <2>5 DEF TreePlaced
<1>15. Serves(cache, P, P \cup reported, h)
  <2>1. Serves(cache, P, P \cup reported, cache)
    BY <1>1, <1>12, ServesNothing
  <2>2. \A x \in DOMAIN h.entry : h.entry[x].tree \in P \cup reported \cup {NoTree}
    BY <1>6, <1>10, <1>12, <2>1 DEF Puts, Serves
  <2>3. Record(h)
    BY <1>10, RecordOf
  <2> QED
    BY <1>10, <2>1, <2>2, <2>3, ServesStill
<1>16. Serves(cache, P, P \cup reported, cache')
  BY <1>8, <1>10, <1>11, <1>15, ResultServes
<1>17. asked' = asked
  BY DEF HandleParsed
<1>18. Contract!Serve(reported)
  BY <1>12, <1>13, <1>14, <1>16, <1>17, ServeStep
<1> QED
  BY <1>13, <1>18

LEMMA ChildFinishedServes ==
  ASSUME IInv, IInv', HttpCacheChildFinished
  PROVE  Contract!Serve({})
<1>1. WorldTyped /\ cache \in Processes /\ FetchesCoherent(cache) /\ EntriesCoherent(cache)
      /\ cache.jobs \subseteq Jobs
  BY Parts DEF IInv, Sound
<1>2. PICK job \in cache.jobs :
        LET c == [cache EXCEPT !.jobs = @ \ {job}]
        IN  IF job.item \notin DOMAIN cache.entry THEN cache' = c
            ELSE \E result \in Results, header \in Headers, fault \in Faults :
                   /\ result = "same" => job.known
                   /\ cache' \in ProcessCacheChildResult(
                        Harvested(c, job.item, result, header), job.item, fault)
  BY DEF HttpCacheChildFinished
<1>3. PICK item : item = job.item
  OBVIOUS
<1>4. item \in DOMAIN cache.entry
  BY <1>1, <1>3 DEF FetchesCoherent
<1>5. PICK result \in Results, header \in Headers, fault \in Faults :
        cache' \in ProcessCacheChildResult(
          Harvested([cache EXCEPT !.jobs = @ \ {job}], item, result, header), item, fault)
  BY <1>2, <1>3, <1>4
<1>6. PICK jobs : jobs = cache.jobs \ {job}
  OBVIOUS
<1>7. PICK c : c = [cache EXCEPT !.jobs = jobs]
  OBVIOUS
<1>8. jobs \in SUBSET Jobs
  BY <1>1, <1>6
<1>9. c \in Processes /\ c.entry = cache.entry /\ c.out = cache.out
  BY <1>1, <1>7, <1>8, JobsIs
<1>10. PICK old, h : old = c.entry[item] /\ h = Harvested(c, item, result, header)
  OBVIOUS
<1>11. PICK e \in Entries :
         /\ h \in Processes /\ Puts(c, h, item, e) /\ h.spec = c.spec
         /\ h.jobs = c.jobs /\ e.ids = old.ids /\ e.lastUsed = old.lastUsed
         /\ \/ h.out = c.out /\ e.tree = old.tree
            \/ /\ old.tree \in Ids /\ e.tree = NoTree
               /\ h.out = Append(c.out, Free(old.tree))
         /\ e.status # 0 \/ MustParse(e)
  BY <1>1, <1>4, <1>9, <1>10, HarvestedIs
<1>12. cache' \in ProcessCacheChildResult(h, item, fault)
  BY <1>5, <1>6, <1>7, <1>10
<1>13. PICK P : P = {t \in Ids : Kept(cache, t)}
  OBVIOUS
<1>14. Serves(cache, P, P, c)
  BY <1>9, <1>13, ServesNothing
<1>15. Serves(cache, P, P, h)
  <2>1. old.tree \in P \cup {NoTree}
    BY <1>4, <1>9, <1>10, <1>14 DEF Serves
  <2>2. Record(h)
    BY <1>11, RecordOf
  <2>3. \A x \in DOMAIN h.entry : h.entry[x].tree \in P \cup {NoTree}
    BY <1>11, <1>14, <2>1 DEF Puts, Serves
  <2>4. CASE h.out = c.out
    BY <1>14, <2>2, <2>3, <2>4, ServesStill
  <2>5. CASE old.tree \in Ids /\ h.out = Append(c.out, Free(old.tree))
    <3>1. PICK f, g : f = Free(old.tree) /\ g = Tell(c, f)
      OBVIOUS
    <3>2. f \in ToMain
      BY <2>5, <3>1, FreeIs
    <3>3. f.tree = old.tree
      BY <3>1 DEF Free, Message
    <3>4. Serves(cache, P, P, g)
      BY <1>14, <2>1, <3>1, <3>2, <3>3, TellServes
    <3>5. g.out = h.out
      BY <1>9, <2>5, <3>1, <3>2, TellIs
    <3> QED
      BY <2>2, <2>3, <3>4, <3>5, ServesStill
  <2> QED
    BY <1>11, <2>4, <2>5
<1>16. item \in DOMAIN h.entry /\ IsFiniteSet(h.entry[item].ids)
  BY <1>1, <1>4, <1>9, <1>10, <1>11 DEF Puts, EntriesCoherent
<1>17. Serves(cache, P, P, cache')
  BY <1>11, <1>12, <1>15, <1>16, ResultServes
<1>18. P \cup {} = P /\ {} \in SUBSET Ids /\ asked' = asked /\ \A t \in {} : ~Kept(cache, t)
  BY DEF HttpCacheChildFinished
<1>19. Serves(cache, P, P \cup {}, cache')
  BY <1>17, <1>18
<1> QED
  BY <1>13, <1>18, <1>19, ServeStep

LEMMA PurgeServes ==
  ASSUME IInv, IInv', Purge
  PROVE  Contract!Serve({})
<1>1. cache \in Processes /\ FetchesCoherent(cache)
  BY DEF IInv, Sound
<1>2. PICK S : S = {item \in DOMAIN cache.entry : TimeToFree(cache.entry[item])}
  OBVIOUS
<1>3. PICK order \in SetToSeqs(S) : cache' = RemoveEntries(cache, order)
  BY <1>2 DEF Purge
<1>4. S \in SUBSET DOMAIN cache.entry /\ IsFiniteSet(S)
  BY <1>1, <1>2, FS_Subset DEF FetchesCoherent
<1>5. PICK P : P = {t \in Ids : Kept(cache, t)}
  OBVIOUS
<1>6. P \in SUBSET Ids /\ Serves(cache, P, P, cache)
  BY <1>1, <1>5, ServesNothing
<1>7. Serves(cache, P, P, cache')
  BY <1>3, <1>4, <1>6, RemoveEntriesServes
<1>8. P \cup {} = P /\ {} \in SUBSET Ids /\ asked' = asked /\ \A t \in {} : ~Kept(cache, t)
  BY DEF Purge
<1>9. Serves(cache, P, P \cup {}, cache')
  BY <1>7, <1>8
<1> QED
  BY <1>5, <1>8, <1>9, ServeStep

\* Whoever moves nothing but what main has asked for.
LEMMA SameState ==
  ASSUME IInv, IInv', cache'.entry = cache.entry,
         \A k \in Ids : In(toCache', ReqFrom(k)) <=> In(toCache, ReqFrom(k))
  PROVE  Unanswered' = Unanswered /\ Owned' = Owned
<1>1. /\ \A id : id \in Unanswered <=>
                   (id \in Ids /\ (Held(cache, id) \/ In(toCache, ReqFrom(id))))
      /\ \A t : t \in Owned <=> (t \in Ids /\ Kept(cache, t))
  BY ContractState
<1>2. /\ \A id : id \in Unanswered' <=>
                   (id \in Ids /\ (Held(cache', id) \/ In(toCache', ReqFrom(id))))
      /\ \A t : t \in Owned' <=> (t \in Ids /\ Kept(cache', t))
  BY ContractNext
<1>3. \A k : (Held(cache', k) <=> Held(cache, k)) /\ (Kept(cache', k) <=> Kept(cache, k))
  BY DEF Held, Kept
<1>4. \A id : id \in Unanswered' <=> id \in Unanswered
  BY <1>1, <1>2, <1>3
<1>5. \A t : t \in Owned' <=> t \in Owned
  BY <1>1, <1>2, <1>3
<1> QED
  BY <1>4, <1>5

\* A report is no request.
LEMMA ParsedAppended ==
  ASSUME IInv, NEW id \in Ids, NEW tree \in Trees,
         toCache' = Append(toCache, Parsed(id, tree))
  PROVE  \A k \in Ids : In(toCache', ReqFrom(k)) <=> In(toCache, ReqFrom(k))
<1>1. toCache \in Seq(ToProcess)
  BY Around
<1>2. PICK m : m = Parsed(id, tree)
  OBVIOUS
<1>3. m \in ToProcess /\ \A k \in Ids : m \notin ReqFrom(k)
  BY <1>2, ParsedIs
<1>4. toCache' = Append(toCache, m)
  BY <1>2
<1>5. \A M : In(toCache', M) <=> (In(toCache, M) \/ m \in M)
  BY <1>1, <1>3, <1>4, InAppended
<1> QED
  BY <1>3, <1>5

LEMMA MainReads ==
  ASSUME IInv, IInv', MainDone \/ MainFree
  PROVE  Contract!Deliver
<1>1. cache.out # <<>> /\ cache' = [cache EXCEPT !.out = Tail(@)]
  BY DEF MainDone, MainFree
<1>2. PICK m : m = Head(cache.out)
  OBVIOUS
<1>3. cache'.entry = cache.entry /\ m \in ToMain
  BY <1>1, <1>2, OutRead
<1>4. cache'.out = Tail(cache.out)
  BY <1>1, Around DEF Processes
<1>5. \A k \in Ids : In(toCache', ReqFrom(k)) <=> In(toCache, ReqFrom(k))
  <2>1. CASE toCache' = toCache
    BY <2>1
  <2>2. CASE MainDone /\ toCache' # toCache
    <3>1. toCache' = Append(toCache, Parsed(m.id, NoTree)) /\ m.type = "done"
      BY <1>2, <2>2 DEF MainDone
    <3>2. m.id \in Ids /\ NoTree \in Trees
      BY <1>3, <3>1 DEF ToMain, Trees
    <3> QED
      BY <3>1, <3>2, ParsedAppended
  <2> QED
    BY <2>1, <2>2 DEF MainFree
<1>6. Unanswered' = Unanswered /\ Owned' = Owned
  BY <1>3, <1>5, SameState
<1> QED
  BY <1>1, <1>4, <1>6 DEF Contract!Deliver

LEMMA MainAsks ==
  ASSUME IInv, IInv', NEW k \in Ids, Ask(k)
  PROVE  Contract!Ask
<1>1. thread[k] = "idle" /\ cache' = cache /\ toCache' = Append(toCache, Req(k))
  BY DEF Ask
<1>2. toCache \in Seq(ToProcess) /\ Placed(cache, toCache, {}, k)
  BY Around
<1>3. ~Held(cache, k) /\ ~In(toCache, ReqFrom(k))
  BY <1>1, <1>2 DEF Placed
<1>4. PICK m : m = Req(k)
  OBVIOUS
<1>5. m \in ToProcess /\ \A id \in Ids : m \in ReqFrom(id) <=> id = k
  BY <1>4, ReqIs
<1>6. \A M : In(toCache', M) <=> (In(toCache, M) \/ m \in M)
  BY <1>1, <1>2, <1>4, <1>5, InAppended
<1>7. \A id \in Ids : In(toCache', ReqFrom(id)) <=> (In(toCache, ReqFrom(id)) \/ id = k)
  BY <1>5, <1>6
<1>8. /\ \A id : id \in Unanswered <=>
                  (id \in Ids /\ (Held(cache, id) \/ In(toCache, ReqFrom(id))))
      /\ \A t : t \in Owned <=> (t \in Ids /\ Kept(cache, t))
  BY ContractState
<1>9. /\ \A id : id \in Unanswered' <=>
                  (id \in Ids /\ (Held(cache', id) \/ In(toCache', ReqFrom(id))))
      /\ \A t : t \in Owned' <=> (t \in Ids /\ Kept(cache', t))
  BY ContractNext
<1>10. k \notin Unanswered
  BY <1>3, <1>8
<1>11. Unanswered' = Unanswered \cup {k}
  <2>1. \A id : id \in Unanswered' <=> (id \in Unanswered \/ id = k)
    BY <1>1, <1>7, <1>8, <1>9
  <2> QED
    BY <2>1
<1>12. Owned' = Owned
  <2>1. \A t : t \in Owned' <=> t \in Owned
    BY <1>1, <1>8, <1>9
  <2> QED
    BY <2>1
<1> QED
  BY <1>1, <1>10, <1>11, <1>12 DEF Contract!Ask

\* The contract is kept: a request is answered once, a tree named in an answer is
\* the cache's at that moment, and main is told once to free a tree, which the
\* cache then has no more (HttpCacheContract, of run_http_cache with handle_-
\* httpcache_message of main).
THEOREM ContractKept == Spec => KeepsContract
<1>1. Init => Contract!Init
  <2> SUFFICES ASSUME Init
               PROVE  Contract!Init
    OBVIOUS
  <2>1. cache.entry = <<>> /\ cache.out = <<>> /\ toCache = <<>>
    BY DEF Init
  <2>2. DOMAIN cache.entry = {} /\ DOMAIN toCache = {}
    BY <2>1
  <2>3. Unanswered = {} /\ Owned = {}
    BY <2>2 DEF Unanswered, Owned, Holders, Requests
  <2> QED
    BY <2>1, <2>3 DEF Contract!Init
<1>2. IInv /\ IInv' /\ [Next]_vars => [Contract!Next]_(Contract!vars)
  <2> SUFFICES ASSUME IInv, IInv', [Next]_vars
               PROVE  Contract!Next \/ UNCHANGED Contract!vars
    OBVIOUS
  <2>1. CASE CacheStep
    <3>1. \E reported \in SUBSET Ids : Contract!Serve(reported)
      <4>1. {} \in SUBSET Ids
        OBVIOUS
      <4> QED
        BY <2>1, <4>1, HandleRequestServes, HandleParsedServes, ChildFinishedServes,
           PurgeServes DEF CacheStep
    <3> QED
      BY <3>1 DEF Contract!Next
  <2>2. CASE MainStep
    BY <2>2, MainReads DEF MainStep, Contract!Next
  <2>3. ASSUME NEW id \in Ids, Ask(id)
        PROVE  Contract!Next
    BY <2>3, MainAsks DEF Contract!Next
  <2>4. ASSUME cache' = cache,
               \A k \in Ids : In(toCache', ReqFrom(k)) <=> In(toCache, ReqFrom(k))
        PROVE  UNCHANGED Contract!vars
    <3>1. Unanswered' = Unanswered /\ Owned' = Owned
      BY <2>4, SameState
    <3> QED
      BY <2>4, <3>1 DEF Contract!vars
  <2>5. CASE Tick
    BY <2>4, <2>5 DEF Tick
  <2>6. ASSUME NEW id \in Ids, Parse(id)
        PROVE  UNCHANGED Contract!vars
    <3>1. cache' = cache
      BY <2>6 DEF Parse
    <3>2. \/ toCache' = toCache
          \/ \E tree \in {id, NoTree} : toCache' = Append(toCache, Parsed(id, tree))
      BY <2>6 DEF Parse
    <3>3. \A tree \in {id, NoTree} : tree \in Trees
      BY DEF Trees
    <3> QED
      BY <2>4, <3>1, <3>2, <3>3, ParsedAppended
  <2>7. ASSUME NEW id \in Ids, Load(id) \/ ThreadDies(id)
        PROVE  UNCHANGED Contract!vars
    BY <2>4, <2>7 DEF Load, ThreadDies
  <2>8. CASE UNCHANGED vars
    BY <2>4, <2>8 DEF vars
  <2> QED
    BY <2>1, <2>2, <2>3, <2>5, <2>6, <2>7, <2>8 DEF Next
<1> QED
  BY <1>1, <1>2, Inductive, PTL DEF Spec, KeepsContract, Contract!Spec
=============================================================================
