----------------------------- MODULE HttpCache -----------------------------
(***************************************************************************)
(* The http cache process of voiceglue: one entry per item it fetched or   *)
(* is fetching, the requests that wait for it, the curl children, and the  *)
(* parse trees of VXML pages, which one of the waiting interpreter threads *)
(* makes and the cache owns from then on.                                  *)
(*                                                                         *)
(* Voiceglue main and the interpreter threads are modelled as far as they  *)
(* talk to the cache: main forwards, and each request is the only one of   *)
(* its thread, so a thread and a tree are named by the request.            *)
(***************************************************************************)
EXTENDS Integers, Sequences, FiniteSets, SequencesExt

CONSTANTS
  Ids,               \* requests main may make
  None,              \* no request, no tree
  Pages,             \* URLs
  Wants,             \* what requests ask for
  Headers,           \* whether answers have Last-Modified
  Results,           \* how children end, among "failed", "new", "same"
  Faults,            \* what can fail in starting a child, and "none"
  MayDie,            \* interpreter threads may die
  MaxNow,            \* last second of the model
  FetchTime,         \* seconds a fetch with its parse takes at most
  Retry,             \* Retry_seconds_for_audio_fetch_failures
  PurgeInterval,     \* Cache_purge_interval
  PurgeUnused,       \* Cache_purge_unused_time
  PurgeUncacheable   \* Cache_purge_uncacheable_unused_time

\* "a" audio, "v" a page to be parsed, "x" a file; only audio has a fallback.
AllWants == [page : Pages, usage : {"a", "v", "x"}, maxage : 0..MaxNow + 1,
             fallback : BOOLEAN]

ASSUME HttpCacheAssumption ==
  /\ None \notin Ids
  /\ Wants # {} /\ Wants \subseteq {w \in AllWants : w.fallback => w.usage = "a"}
  /\ Headers \subseteq BOOLEAN
  /\ Results \subseteq {"failed", "new", "same"}
  /\ Faults \subseteq {"none", "mkpath", "fork"}
  /\ MayDie \in BOOLEAN
  /\ {MaxNow, FetchTime, Retry, PurgeInterval, PurgeUnused,
      PurgeUncacheable} \subseteq Nat

\* A fetch takes 7 seconds by default, an entry is purged when it has not been
\* used for 10 at least.  A page that allows its fetch more time breaks this.
ASSUME FetchAssumption == FetchTime <= PurgeUnused /\ FetchTime <= PurgeUncacheable

VARIABLES
  now,               \* $::Now, in seconds
  nextPurge,         \* Next_cache_purge_time
  cache,             \* the process: Hashname_to_cacheinfo, Request_spec,
                     \* Pid_to_hashname and what it wrote to main
  toCache,           \* what main wrote to it
  asked,             \* HC_request_id_info of main
  want,              \* what each request asks for
  thread,            \* what the thread of each request is at
  given,             \* the tree its reply named
  freed              \* trees main has freed

clockVars  == <<now, nextPurge>>
threadVars == <<want, thread, given>>
vars == <<clockVars, cache, toCache, asked, threadVars, freed>>

NoTree == None
Trees  == Ids \cup {NoTree}

With(f, x, v)  == [y \in DOMAIN f \cup {x} |-> IF y = x THEN v ELSE f[y]]
Without(f, xs) == [y \in DOMAIN f \ xs |-> f[y]]

\* The hashname of a request: of its URL, unless it must not be cached; then,
\* and for every fallback (hc_request_to_params is given $cacheable where it
\* expects the postdata), of a number no other request has.
ItemOf(id)     == [page |-> want[id].page,
                   use |-> IF want[id].maxage = 0 THEN "own" ELSE "shared",
                   by |-> IF want[id].maxage = 0 THEN id ELSE None]
FallbackOf(id) == [page |-> want[id].page, use |-> "fallback", by |-> id]
RequestSpec(id) ==
  IF want[id].fallback THEN <<ItemOf(id), FallbackOf(id)>> ELSE <<ItemOf(id)>>

Message(type, id, status, tree) ==
  [type |-> type, id |-> id, status |-> status, tree |-> tree]
Done(id, status, tree) == Message("done", id, status, tree)
Free(tree)             == Message("free", None, 0, tree)
Req(id)                == Message("req", id, 0, NoTree)
Parsed(id, tree)       == Message("parsed", id, 0, tree)

-----------------------------------------------------------------------------
\* The process.  Its operations map its state to its state.
Tell(c, m)     == [c EXCEPT !.out = Append(@, m)]
Forget(c, id)  == [c EXCEPT !.spec = Without(@, {id})]

Reply(c, id, status) == Tell(Forget(c, id), Done(id, status, NoTree))

DropEntry(c, item) == [c EXCEPT !.entry = Without(@, {item})]

\* Mutant: the entry is found again by the next purge.
RemoveEntryKept(c, item) ==
  IF c.entry[item].tree = NoTree THEN DropEntry(c, item)
  ELSE Tell(c, Free(c.entry[item].tree))
RemoveEntry(c, item) ==
  LET tree == c.entry[item].tree
      told == IF tree = NoTree THEN c ELSE Tell(c, Free(tree))
  IN  DropEntry(told, item)

\* The entries are removed one after the other.
RemoveEntries(c, order) ==
  LET left[i \in 0..Len(order)] ==
        IF i = 0 THEN c ELSE RemoveEntry(left[i - 1], order[i])
  IN  left[Len(order)]

FreePid(c) == CHOOSE pid \in 1..Cardinality(c.jobs) + 1 :
                pid \notin {job.pid : job \in c.jobs}

NewEntry(id) ==
  [status |-> 0, ids |-> {id}, parse |-> want[id].usage = "v", tree |-> NoTree,
   cacheable |-> TRUE, time |-> now, lastUsed |-> now]

Started(c, id, item) ==
  IF item \in DOMAIN c.entry
  THEN [NewEntry(id) EXCEPT !.parse = c.entry[item].parse,
                            !.tree = c.entry[item].tree]
  ELSE NewEntry(id)

\* A job is generated; making its directory or forking may fail.
StartJob(c, id, item, fault) ==
  CASE fault = "mkpath" -> Reply(c, id, -1)
    [] fault = "fork"   -> Tell(c, Done(id, -1, NoTree))
    [] fault = "none"   ->
         [c EXCEPT !.entry = With(@, item, Started(c, id, item)),
                   !.jobs  = @ \cup {[pid |-> FreePid(c), item |-> item,
                                      known |-> item \in DOMAIN c.entry]}]

\* Mutant: the request stays recorded when its items are used up.
NextItemKept(c, id, fault) ==
  LET rest == Tail(c.spec[id])
  IN  IF rest = <<>>
      THEN Tell([c EXCEPT !.spec[id] = rest], Done(id, -1, NoTree))
      ELSE StartJob([c EXCEPT !.spec[id] = rest], id, Head(rest), fault)

\* The item failed: on to the fallback, which no entry can know yet.
NextItem(c, id, fault) ==
  LET rest == Tail(c.spec[id])
  IN  IF rest = <<>>
      THEN Reply(c, id, -1)
      ELSE StartJob([c EXCEPT !.spec[id] = rest], id, Head(rest), fault)

RetryDue(e)    == e.status = -1 /\ e.time + Retry < now
Expired(e, id) == want[id].maxage <= now - e.time

\* Mutant: the request does not join those that wait.
JoinAlone(e, id) == [e EXCEPT !.ids = {id}]
Join(e, id) == [e EXCEPT !.ids = @ \cup {id}]

Answer(c, id, item) ==
  Tell([Forget(c, id) EXCEPT !.entry[item].lastUsed = now],
       Done(id, 1, c.entry[item].tree))

ProcessNextRequestItem(c, id, fault) ==
  LET item == Head(c.spec[id])
      e    == c.entry[item]
  IN  CASE item \notin DOMAIN c.entry -> StartJob(c, id, item, fault)
        [] item \in DOMAIN c.entry ->
             CASE RetryDue(e) ->
                    StartJob(DropEntry(c, item), id, item, fault)
               [] e.status = 0 -> [c EXCEPT !.entry[item] = Join(@, id)]
               [] e.status = -1 /\ ~RetryDue(e) -> NextItem(c, id, fault)
               [] e.status = 1 /\ Expired(e, id) ->
                    StartJob(c, id, item, fault)
               [] e.status = 1 /\ ~Expired(e, id) /\ ~e.cacheable ->
                    StartJob(RemoveEntry(c, item), id, item, fault)
               [] e.status = 1 /\ ~Expired(e, id) /\ e.cacheable ->
                    Answer(c, id, item)

\* What the requests that wait for an item are told when its status is known:
\* one of them to parse it, or all of them the result.
AnswerAll(c, item, order, fault) ==
  LET answered[i \in 0..Len(order)] ==
        IF i = 0 THEN [c EXCEPT !.entry[item].ids = {}]
        ELSE IF c.entry[item].status = 1
             THEN Reply(answered[i - 1], order[i], 1)
             ELSE NextItem(answered[i - 1], order[i], fault)
  IN  answered[Len(order)]

MustParse(e) == e.status = 0 /\ e.parse /\ e.tree = NoTree

\* Mutant: the one that parses stays among those that wait.
HandOverKept(c, item, id) == Tell(c, Done(id, 0, NoTree))
HandOver(c, item, id) ==
  Tell([c EXCEPT !.entry[item].ids = @ \ {id}], Done(id, 0, NoTree))

ProcessCacheChildResult(c, item, fault) ==
  LET e == c.entry[item]
  IN  IF MustParse(e)
      THEN IF e.ids = {} THEN {c} ELSE {HandOver(c, item, id) : id \in e.ids}
      ELSE {AnswerAll(c, item, order, fault) : order \in SetToSeqs(e.ids)}

\* Whether a header lets the content be kept.  The tests for no-cache compare
\* the reference to the list of values, and never match.
IsCacheable(header) == header

\* Mutant: the entry keeps the tree that main is told to free.
ReleaseOldTreeKept(c, item) ==
  LET tree == c.entry[item].tree
  IN  IF tree = NoTree THEN c ELSE Tell(c, Free(tree))
ReleaseOldTree(c, item) ==
  LET tree == c.entry[item].tree
  IN  IF tree = NoTree THEN c
      ELSE [Tell(c, Free(tree)) EXCEPT !.entry[item].tree = NoTree]

Harvested(c, item, result, header) ==
  LET e    == c.entry[item]
      read == [c EXCEPT
                 !.entry[item].cacheable = e.cacheable /\ IsCacheable(header)]
  IN  CASE result = "failed" -> [read EXCEPT !.entry[item].status = -1]
        [] result = "same" ->
             [read EXCEPT !.entry[item].status = 1, !.entry[item].time = now]
        [] result = "new" ->
             [ReleaseOldTree(read, item) EXCEPT
                !.entry[item].status = IF e.parse THEN 0 ELSE 1,
                !.entry[item].time = now]

-----------------------------------------------------------------------------
Init ==
  /\ now = 0 /\ nextPurge = PurgeInterval
  /\ cache = [entry |-> <<>>, spec |-> <<>>, jobs |-> {}, out |-> <<>>]
  /\ toCache = <<>> /\ asked = {}
  /\ want = [id \in Ids |-> CHOOSE w \in Wants : TRUE]
  /\ thread = [id \in Ids |-> "idle"]
  /\ given = [id \in Ids |-> NoTree]
  /\ freed = {}

\* Main asks for an item on behalf of an interpreter thread.
Ask(id) ==
  /\ thread[id] = "idle"
  /\ thread' = [thread EXCEPT ![id] = "asking"]
  /\ \E w \in Wants : want' = [want EXCEPT ![id] = w]
  /\ toCache' = Append(toCache, Req(id))
  /\ asked' = asked \cup {id}
  /\ UNCHANGED <<clockVars, cache, given, freed>>

\* handle_msg_from_voiceglue_main, a request.
HandleRequest ==
  /\ toCache # <<>> /\ Head(toCache).type = "req"
  /\ toCache' = Tail(toCache)
  /\ \E fault \in Faults :
       LET id == Head(toCache).id
           c  == [cache EXCEPT !.spec = With(@, id, RequestSpec(id))]
       IN  cache' = ProcessNextRequestItem(c, id, fault)
  /\ UNCHANGED <<clockVars, asked, threadVars, freed>>

\* handle_msg_from_voiceglue_main, the result of a parse; a result whose
\* request or entry is gone is dropped, and the tree with it.
HandleParsed ==
  /\ toCache # <<>> /\ Head(toCache).type = "parsed"
  /\ toCache' = Tail(toCache)
  /\ LET id    == Head(toCache).id
         tree  == Head(toCache).tree
         known == id \in DOMAIN cache.spec
                    /\ Head(cache.spec[id]) \in DOMAIN cache.entry
     IN  IF known
         THEN LET item == Head(cache.spec[id])
                  c == IF tree = NoTree
                       THEN [cache EXCEPT !.entry[item].status = -1]
                       ELSE [cache EXCEPT !.entry[item].status = 1,
                                          !.entry[item].tree = tree]
              IN  \E fault \in Faults :
                    cache' \in ProcessCacheChildResult(c, item, fault)
         ELSE UNCHANGED cache
  /\ UNCHANGED <<clockVars, asked, threadVars, freed>>

\* http_cache_child_finished.  Only a revalidation can find the content
\* unchanged.
HttpCacheChildFinished ==
  /\ \E job \in cache.jobs :
       LET c == [cache EXCEPT !.jobs = @ \ {job}]
       IN  IF job.item \notin DOMAIN cache.entry THEN cache' = c
           ELSE \E result \in Results, header \in Headers, fault \in Faults :
                  /\ result = "same" => job.known
                  /\ cache' \in ProcessCacheChildResult(
                       Harvested(c, job.item, result, header), job.item, fault)
  /\ UNCHANGED <<clockVars, toCache, asked, threadVars, freed>>

\* Mutant: entries in use are purged too.
TimeToFreeAny(e) == e.lastUsed <= now
TimeToFree(e) ==
  e.lastUsed + (IF e.cacheable THEN PurgeUnused ELSE PurgeUncacheable) < now

Purge ==
  /\ now >= nextPurge
  /\ nextPurge' = now + PurgeInterval
  /\ LET due == {item \in DOMAIN cache.entry : TimeToFree(cache.entry[item])}
     IN  \E order \in SetToSeqs(due) : cache' = RemoveEntries(cache, order)
  /\ UNCHANGED <<now, toCache, asked, threadVars, freed>>

\* handle_httpcache_message of main: a reply to a request, passed on to its
\* thread; a page whose thread is gone before it is parsed is reported failed.
MainDone ==
  /\ cache.out # <<>> /\ Head(cache.out).type = "done"
  /\ LET m  == Head(cache.out)
         id == m.id
     IN  /\ asked' = asked \ {id}
         /\ toCache' = IF id \in asked /\ thread[id] = "gone" /\ m.status = 0
                       THEN Append(toCache, Parsed(id, NoTree))
                       ELSE toCache
         /\ IF id \notin asked \/ thread[id] = "gone"
            THEN UNCHANGED <<thread, given>>
            ELSE /\ thread' = [thread EXCEPT ![id] =
                      CASE want[id].usage = "a" /\ m.status = 0 -> "unmade"
                        [] want[id].usage = "a" /\ m.status # 0 -> "ended"
                        [] want[id].usage # "a" /\ m.status = 0 -> "parsing"
                        [] want[id].usage # "a" /\ m.status = 1 -> "loading"
                        [] want[id].usage # "a" /\ m.status = -1 -> "ended"]
                 /\ given' = [given EXCEPT ![id] = m.tree]
  /\ cache' = [cache EXCEPT !.out = Tail(@)]
  /\ UNCHANGED <<clockVars, want, freed>>

MainFree ==
  /\ cache.out # <<>> /\ Head(cache.out).type = "free"
  /\ freed' = freed \cup {Head(cache.out).tree}
  /\ cache' = [cache EXCEPT !.out = Tail(@)]
  /\ UNCHANGED <<clockVars, toCache, asked, threadVars>>

\* FetchDocument with a page to parse: the tree, or the failure, is reported.
\* A thread that asked for the file only parses nothing and reports nothing.
Parse(id) ==
  /\ thread[id] = "parsing"
  /\ thread' = [thread EXCEPT ![id] = "ended"]
  /\ \/ /\ want[id].usage = "v"
        /\ \E tree \in {id, NoTree} :
             toCache' = Append(toCache, Parsed(id, tree))
     \/ want[id].usage = "x" /\ UNCHANGED toCache
  /\ UNCHANGED <<clockVars, cache, asked, want, given, freed>>

\* FetchDocument with a page that is there: the document is copied from the
\* tree the reply named; without one the thread parses on its own account, and
\* main takes no notice of what it reports, for no request was handed to it.
Load(id) ==
  /\ thread[id] = "loading"
  /\ thread' = [thread EXCEPT ![id] = "ended"]
  /\ UNCHANGED <<clockVars, cache, toCache, asked, want, given, freed>>

ThreadDies(id) ==
  /\ MayDie /\ thread[id] \in {"asking", "parsing", "loading"}
  /\ thread' = [thread EXCEPT ![id] = "gone"]
  /\ UNCHANGED <<clockVars, cache, toCache, asked, want, given, freed>>

Tick ==
  /\ now < MaxNow
  /\ \A item \in DOMAIN cache.entry :
       cache.entry[item].status = 0 => now < cache.entry[item].lastUsed + FetchTime
  /\ now' = now + 1
  /\ UNCHANGED <<nextPurge, cache, toCache, asked, threadVars, freed>>

CacheStep == HandleRequest \/ HandleParsed \/ HttpCacheChildFinished \/ Purge
MainStep  == MainDone \/ MainFree
Next ==
  \/ CacheStep \/ MainStep \/ Tick
  \/ \E id \in Ids : Ask(id) \/ Parse(id) \/ Load(id) \/ ThreadDies(id)

Spec == Init /\ [][Next]_vars

\* Children end, sockets are read, threads that are to parse do so.
Fairness ==
  /\ WF_vars(HandleRequest \/ HandleParsed) /\ WF_vars(HttpCacheChildFinished)
  /\ WF_vars(MainStep)
  /\ \A id \in Ids : WF_vars(Parse(id))
FairSpec == Spec /\ Fairness

-----------------------------------------------------------------------------
Items   == [page : Pages, use : {"shared", "own", "fallback"},
            by : Ids \cup {None}]
Entries == [status : {-1, 0, 1}, ids : SUBSET Ids, parse : BOOLEAN,
            tree : Trees, cacheable : BOOLEAN, time : 0..MaxNow,
            lastUsed : 0..MaxNow]
Messages == [type : {"done", "free", "req", "parsed"}, id : Ids \cup {None},
             status : {-1, 0, 1}, tree : Trees]

TypeOK ==
  /\ now \in 0..MaxNow /\ nextPurge \in Nat
  /\ DOMAIN cache.entry \subseteq Items /\ DOMAIN cache.spec \subseteq Ids
  /\ \A item \in DOMAIN cache.entry : cache.entry[item] \in Entries
  /\ \A id \in DOMAIN cache.spec :
       cache.spec[id] \in Seq(Items) /\ cache.spec[id] # <<>>
  /\ cache.jobs \subseteq [pid : Nat, item : Items, known : BOOLEAN]
  /\ cache.out \in Seq(Messages) /\ toCache \in Seq(Messages)
  /\ asked \subseteq Ids /\ want \in [Ids -> Wants]
  /\ thread \in [Ids -> {"idle", "asking", "parsing", "loading", "unmade",
                         "ended", "gone"}]
  /\ given \in [Ids -> Trees] /\ freed \subseteq Ids

Holders(id) == {item \in DOMAIN cache.entry : id \in cache.entry[item].ids}
Replies(id) == {i \in DOMAIN cache.out : cache.out[i].type = "done"
                                           /\ cache.out[i].id = id}
Requests(id) == {i \in DOMAIN toCache : toCache[i] = Req(id)}

\* A request that main waits for is in one place and only one: on its way to
\* the cache, waiting for the item it is at, or answered on its way back; and
\* no other request is anywhere.
RequestsInOnePlace ==
  \A id \in Ids :
    Cardinality(Holders(id)) + Cardinality(Replies(id))
      + Cardinality(Requests(id)) = IF id \in asked THEN 1 ELSE 0

FreeMessages == {i \in DOMAIN cache.out : cache.out[i].type = "free"}

\* A tree is the cache's or main has been told to free it, never both, and it
\* is freed once: a tree freed twice or kept when freed is used after free.
TreesFreedOnce ==
  /\ \A i \in FreeMessages :
       /\ cache.out[i].tree \notin freed \cup {NoTree}
       /\ \A j \in FreeMessages : cache.out[j].tree = cache.out[i].tree => i = j
  /\ \A item \in DOMAIN cache.entry :
       LET tree == cache.entry[item].tree
       IN  tree # NoTree =>
             /\ tree \notin freed
             /\ \A i \in FreeMessages : cache.out[i].tree # tree
             /\ \A other \in DOMAIN cache.entry :
                  cache.entry[other].tree = tree => other = item

\* At most one child fetches an item: two would write the same files, and the
\* first to end would answer for the other.
OneFetchPerItem ==
  \A item \in DOMAIN cache.entry :
    Cardinality({job \in cache.jobs : job.item = item}) <= 1

\* The contract of HttpCacheContract, of which this is an implementation.
Unanswered == {id \in Ids : Holders(id) # {} \/ Requests(id) # {}}
Owned == {cache.entry[item].tree : item \in DOMAIN cache.entry} \ {NoTree}
Contract == INSTANCE HttpCacheContract
              WITH open <- Unanswered, owned <- Owned, out <- cache.out
KeepsContract == Contract!Spec

\* "it is important to check if the document is still valid" (src/
\* openvxi-3.4+vglue/src/VXI/DocumentModel.cpp:630): a document is copied from
\* one that is still there.
CopiedFromValid ==
  \A id \in Ids : thread[id] = "loading" => given[id] \notin freed

\* Every request is answered, whatever fails on the way.
RequestsAnswered ==
  \A id \in Ids : thread[id] = "asking" ~> thread[id] # "asking"
=============================================================================
