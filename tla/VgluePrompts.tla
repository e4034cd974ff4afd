---------------------------- MODULE VgluePrompts ----------------------------
(***************************************************************************)
(* The prompts of a call, for any number of them, any order in which the   *)
(* http cache makes them and any span of its request ids: none is lost,    *)
(* none overtakes another, and each that is waited for is on its way.      *)
(***************************************************************************)
EXTENDS VglueCallSafety

-----------------------------------------------------------------------------
(* The inductive invariant.  The queue holds the last of the p prompts; the *)
(* prompts in "gone" were sent or failed.                                   *)

\* The prompts in the queue are the last ones, in the order they were queued.
Numbered(p, q) ==
  Len(q) <= p /\ \A i \in DOMAIN q : q[i].n = p - Len(q) + i

\* What is not in the queue, or marked as played or failed, is gone.
Covered(p, q, gone) ==
  /\ 1..(p - Len(q)) \subseteq gone
  /\ \A i \in DOMAIN q : q[i].status \in {2, -1} => q[i].n \in gone

\* A prompt that is waited for has a request, and a request its prompt.  One
\* that the cache wanted parsed waits in vain.
Awaited(q, requests) ==
  /\ \A i \in DOMAIN q :
       /\ q[i].request # NoId => q[i].status = 0
       /\ q[i].status = 0 =>
            \/ q[i].request = NoId /\ 0 \in AudioStatuses
            \/ [id |-> q[i].request, type |-> "a", index |-> i] \in requests
  /\ \A r \in requests : r.type = "a" =>
       r.index \in DOMAIN q /\ q[r.index].request = r.id

Lined(p, q, gone, requests) ==
  Numbered(p, q) /\ Covered(p, q, gone) /\ Awaited(q, requests)

\* A request whose play is over has left no prompt, and keys are only heard
\* and commands other than a play only sent once it is over.
PlayOver(c) ==
  /\ c.vxmlDoing \in {"wait", "recognize", "record", "transfer"}
       /\ "play" \notin c.requested => c.queue = <<>>
  /\ c.gotDtmf \/ c.timedOut \/ c.satcDoing \in {"GETDIG", "RECORD"} =>
       "play" \notin c.requested

\* Ids tell requests apart.
Differ(requests) == \A r1, r2 \in requests : r1.id = r2.id => r1 = r2

Prompting ==
  /\ PromptsInOrder /\ Differ(hc)
  /\ fh.connected => /\ Lined(prompts, fh.queue, heard \cup failed, hc)
                     /\ PlayOver(fh)

PInv == IInv /\ Prompting

-----------------------------------------------------------------------------
(* What becomes of a queue.                                                 *)

\* The items of a queue, and what they are numbered.
LEMMA QueueItems ==
  ASSUME NEW q \in Seq(Items)
  PROVE  /\ Len(q) \in Nat /\ DOMAIN q = 1..Len(q)
         /\ \A i \in DOMAIN q :
              /\ i \in Nat /\ q[i] \in Items /\ q[i].n \in Nat
              /\ q[i].status \in {-1, 0, 1, 2} /\ q[i].request \in 0..IdSpan
              /\ q[i].bargein \in BOOLEAN /\ q[i].type \in {"audio", "dtmf"}
<1>1. \A i \in DOMAIN q : q[i] \in Items
  BY ElementOfSeq
<1> QED
  BY <1>1 DEF Items

\* Prompts that were ready are marked as played.
LEMMA MarkedItems ==
  ASSUME NEW q \in Seq(Items), NEW indices
  PROVE  LET m == MarkPlayed(q, indices)
         IN  /\ m \in Seq(Items) /\ Len(m) = Len(q) /\ DOMAIN m = DOMAIN q
             /\ \A i \in DOMAIN q :
                  /\ m[i].n = q[i].n /\ m[i].request = q[i].request
                  /\ m[i].status = IF i \in indices THEN 2 ELSE q[i].status
<1> DEFINE m == MarkPlayed(q, indices)
<1>1. m \in Seq(Items)
  BY MarkPlayedType
<1>2. DOMAIN m = DOMAIN q
  BY DEF MarkPlayed
<1>3. Len(m) = Len(q)
  BY <1>1, <1>2
<1>4. ASSUME NEW i \in DOMAIN q
      PROVE  /\ m[i].n = q[i].n /\ m[i].request = q[i].request
             /\ m[i].status = IF i \in indices THEN 2 ELSE q[i].status
  <2>1. q[i] \in Items
    BY QueueItems
  <2>2. m[i] = IF i \in indices THEN [q[i] EXCEPT !.status = 2] ELSE q[i]
    BY DEF MarkPlayed
  <2> HIDE DEF m
  <2> QED
    BY <2>1, <2>2 DEF Items
<1> QED
  BY <1>1, <1>2, <1>3, <1>4

\* Marking what is sent keeps the prompts in line.
LEMMA MarkedLined ==
  ASSUME NEW p \in Nat, NEW q \in Seq(Items), NEW gone, NEW requests,
         Lined(p, q, gone, requests),
         NEW indices, \A i \in indices : i \in DOMAIN q /\ Ready(q[i])
  PROVE  Lined(p, MarkPlayed(q, indices), gone \cup Numbers(q, indices), requests)
<1> DEFINE m == MarkPlayed(q, indices)
<1>1. /\ m \in Seq(Items) /\ Len(m) = Len(q) /\ DOMAIN m = DOMAIN q
      /\ \A i \in DOMAIN q :
           /\ m[i].n = q[i].n /\ m[i].request = q[i].request
           /\ m[i].status = IF i \in indices THEN 2 ELSE q[i].status
  BY MarkedItems
<1> HIDE DEF m
<1>2. Numbered(p, m)
  BY <1>1 DEF Lined, Numbered
<1>3. Covered(p, m, gone \cup Numbers(q, indices))
  <2>1. \A i \in indices : q[i].n \in Numbers(q, indices)
    BY DEF Numbers
  <2> QED
    BY <1>1, <2>1 DEF Lined, Covered
<1>4. Awaited(m, requests)
  <2>1. \A i \in DOMAIN q : i \in indices => q[i].status = 1
    BY DEF Ready
  <2> QED
    BY <1>1, <2>1 DEF Lined, Awaited
<1> QED
  BY <1>2, <1>3, <1>4 DEF Lined, m

\* When the scan reaches the end, what was not sent before goes with the batch.
LEMMA EndLined ==
  ASSUME NEW p \in Nat, NEW q \in Seq(Items), NEW gone,
         NEW requests \in SUBSET CacheRequests,
         Lined(p, q, gone, requests), ReachesEnd(q)
  PROVE  Lined(p, <<>>, gone \cup Numbers(q, Batch(q)), requests)
<1> DEFINE all == gone \cup Numbers(q, Batch(q))
<1>1. \A i \in DOMAIN q : q[i].n \in all
  <2> SUFFICES ASSUME NEW i \in DOMAIN q PROVE q[i].n \in all
    OBVIOUS
  <2>1. ~Stops(q, i) /\ q[i].status # 0
    BY DEF ReachesEnd, Stops
  <2>2. CASE q[i].status \in {2, -1}
    BY <2>2 DEF Lined, Covered
  <2>3. CASE Ready(q[i])
    <3>1. Reached(q, i)
      BY QueueItems DEF Reached, ReachesEnd
    <3>2. i \in Batch(q)
      BY <2>1, <2>3, <3>1 DEF Batch
    <3> QED
      BY <3>2 DEF Numbers
  <2> QED
    BY <2>1, <2>2, <2>3, QueueItems DEF Ready
<1>2. Len(q) \in Nat /\ DOMAIN q = 1..Len(q) /\ Len(q) <= p
  BY QueueItems DEF Lined, Numbered
<1>3. 1..p \subseteq all
  <2> SUFFICES ASSUME NEW n \in 1..p PROVE n \in all
    OBVIOUS
  <2>1. CASE n <= p - Len(q)
    BY <1>2, <2>1 DEF Lined, Covered
  <2>2. CASE n > p - Len(q)
    <3>1. n - (p - Len(q)) \in DOMAIN q
      BY <1>2, <2>2
    <3>2. q[n - (p - Len(q))].n = n
      BY <1>2, <3>1 DEF Lined, Numbered
    <3> QED
      BY <1>1, <3>1, <3>2
  <2> QED
    BY <1>2, <2>1, <2>2
<1>4. \A r \in requests : r.type # "a"
  <2> SUFFICES ASSUME NEW r \in requests, r.type = "a" PROVE FALSE
    OBVIOUS
  <2>1. r.index \in DOMAIN q /\ q[r.index].request = r.id
    BY DEF Lined, Awaited
  <2>2. r.id # NoId
    BY DEF CacheRequests, NoId
  <2>3. q[r.index].status = 0
    BY <2>1, <2>2 DEF Lined, Awaited
  <2> QED
    BY <2>1, <2>3 DEF ReachesEnd, Stops
<1> HIDE DEF all
<1>5. Len(<<>>) = 0 /\ DOMAIN <<>> = {}
  OBVIOUS
<1>6. Numbered(p, <<>>)
  BY <1>5 DEF Numbered
<1>7. Covered(p, <<>>, all)
  BY <1>3, <1>5 DEF Covered
<1>8. Awaited(<<>>, requests)
  BY <1>4, <1>5 DEF Awaited
<1> QED
  BY <1>6, <1>7, <1>8 DEF Lined, all

\* Whatever stands before what is sent was sent before, goes with it or failed.
LEMMA SentInOrder ==
  ASSUME NEW p \in Nat, NEW q \in Seq(Items), NEW gone, NEW requests,
         Lined(p, q, gone, requests),
         NEW indices, indices = Batch(q) \/ indices = FirstDtmf(q)
  PROVE  \A n \in Numbers(q, indices) : 1..(n-1) \subseteq gone \cup Numbers(q, indices)
<1> SUFFICES ASSUME NEW i \in indices, NEW m \in 1..(q[i].n - 1)
             PROVE  m \in gone \cup Numbers(q, indices)
  BY DEF Numbers
<1>1. Len(q) \in Nat /\ DOMAIN q = 1..Len(q) /\ Len(q) <= p
  BY QueueItems DEF Lined, Numbered
<1>2. i \in DOMAIN q /\ Reached(q, i)
  BY DEF Batch, FirstDtmf
<1>3. q[i].n = p - Len(q) + i
  BY <1>2 DEF Lined, Numbered
<1>4. CASE m <= p - Len(q)
  BY <1>1, <1>4 DEF Lined, Covered
<1>5. CASE m > p - Len(q)
  <2> DEFINE j == m - (p - Len(q))
  <2>1. j \in DOMAIN q /\ j \in 1..(i-1)
    BY <1>1, <1>2, <1>3, <1>5
  <2>2. q[j].n = m
    BY <1>1, <2>1 DEF Lined, Numbered
  <2> HIDE DEF j
  <2>3. ~Stops(q, j) /\ Reached(q, j)
    <3>1. \A k \in 1..(j-1) : k \in 1..(i-1)
      BY <1>1, <1>2, <2>1
    <3> QED
      BY <1>2, <2>1, <3>1 DEF Reached
  <2>4. CASE q[j].status \in {2, -1}
    BY <2>1, <2>2, <2>4 DEF Lined, Covered
  <2>5. CASE Ready(q[j])
    <3>1. j \in Batch(q)
      BY <2>1, <2>3, <2>5 DEF Batch
    <3>2. indices = Batch(q)
      BY <3>1 DEF FirstDtmf
    <3> QED
      BY <2>2, <3>1, <3>2 DEF Numbers
  <2> QED
    BY <2>1, <2>3, <2>4, <2>5, QueueItems DEF Stops, Ready
<1> QED
  BY <1>1, <1>4, <1>5

\* One PLAY takes prompts of one bargein.
LEMMA BatchAlike ==
  ASSUME NEW q \in Seq(Items), NEW i \in Batch(q)
  PROVE  q[i].bargein = (\E j \in Batch(q) : q[j].bargein)
<1>1. \A j, k \in Batch(q) : j < k => q[j].bargein = q[k].bargein
  <2> SUFFICES ASSUME NEW j \in Batch(q), NEW k \in Batch(q), j < k
               PROVE  q[j].bargein = q[k].bargein
    OBVIOUS
  <2>1. j \in 1..(k-1) /\ Ready(q[j]) /\ Ready(q[k]) /\ ~Stops(q, k)
    BY QueueItems DEF Batch
  <2> QED
    BY <2>1 DEF Stops
<1>2. \A j \in Batch(q) : j \in Nat /\ q[j].bargein \in BOOLEAN
  BY QueueItems DEF Batch
<1>3. \A j \in Batch(q) : q[j].bargein = q[i].bargein
  BY <1>1, <1>2
<1> QED
  BY <1>2, <1>3
\* A prompt more, and the request for it if it has to be made.
LEMMA EnqueuedLined ==
  ASSUME NEW p \in Nat, NEW q \in Seq(Items), NEW gone, NEW requests,
         Lined(p, q, gone, requests),
         NEW item \in Items, item.n = p + 1, NEW more,
         \/ item.request = NoId /\ item.status = 1 /\ more = requests
         \/ /\ item.request # NoId /\ item.status = 0
            /\ more = requests \cup {[id |-> item.request, type |-> "a", index |-> Len(q) + 1]}
  PROVE  Lined(p + 1, Append(q, item), gone, more)
<1> DEFINE longer == Append(q, item)
           request == [id |-> item.request, type |-> "a", index |-> Len(q) + 1]
<1>1. /\ longer \in Seq(Items) /\ Len(longer) = Len(q) + 1
      /\ DOMAIN longer = 1..(Len(q) + 1) /\ longer[Len(q) + 1] = item
      /\ \A i \in DOMAIN q : i \in DOMAIN longer /\ longer[i] = q[i]
      /\ \A i \in DOMAIN longer : i \in DOMAIN q \/ i = Len(q) + 1
  OBVIOUS
<1>2. Len(q) \in Nat /\ DOMAIN q = 1..Len(q) /\ Len(q) <= p
  BY QueueItems DEF Lined, Numbered
<1>3. request.id = item.request /\ request.type = "a" /\ request.index = Len(q) + 1
  OBVIOUS
<1>4. requests \subseteq more /\ \A r \in more : r \in requests \/ (r = request /\ item.status = 0)
  OBVIOUS
<1>5. item.status = 0 => request \in more
  OBVIOUS
<1>6. (item.request # NoId => item.status = 0) /\ item.status \in {0, 1}
  OBVIOUS
<1> HIDE DEF longer
<1>7. Numbered(p + 1, longer)
  <2>1. ASSUME NEW i \in DOMAIN longer
        PROVE  longer[i].n = p + 1 - Len(longer) + i
    <3>1. CASE i \in DOMAIN q
      <4>1. longer[i].n = p - Len(q) + i
        BY <1>1, <3>1 DEF Lined, Numbered
      <4> QED
        BY <1>1, <1>2, <3>1, <4>1
    <3>2. CASE i = Len(q) + 1
      BY <1>1, <1>2, <3>2
    <3> QED
      BY <1>1, <2>1, <3>1, <3>2
  <2> QED
    BY <1>1, <1>2, <2>1 DEF Numbered
<1>8. Covered(p + 1, longer, gone)
  BY <1>1, <1>2, <1>6 DEF Lined, Covered
<1>9. Awaited(longer, more)
  <2>1. ASSUME NEW i \in DOMAIN longer
        PROVE  /\ longer[i].request # NoId => longer[i].status = 0
               /\ longer[i].status = 0 =>
                    \/ longer[i].request = NoId /\ 0 \in AudioStatuses
                    \/ [id |-> longer[i].request, type |-> "a", index |-> i] \in more
    <3>1. CASE i \in DOMAIN q
      BY <1>1, <1>4, <3>1 DEF Lined, Awaited
    <3>2. CASE i = Len(q) + 1
      BY <1>1, <1>5, <1>6, <3>2
    <3> QED
      BY <1>1, <2>1, <3>1, <3>2
  <2>2. ASSUME NEW r \in more, r.type = "a"
        PROVE  r.index \in DOMAIN longer /\ longer[r.index].request = r.id
    <3>1. CASE r \in requests
      BY <1>1, <2>2, <3>1 DEF Lined, Awaited
    <3>2. CASE r = request
      BY <1>1, <1>2, <1>3, <3>2
    <3> QED
      BY <1>4, <3>1, <3>2
  <2> QED
    BY <2>1, <2>2 DEF Awaited
<1> QED
  BY <1>7, <1>8, <1>9 DEF Lined, longer

\* The queue m is q with the prompt at a place answered for.
AnsweredIn(q, m, index, status) ==
  /\ m \in Seq(Items) /\ Len(m) = Len(q)
  /\ \A i \in DOMAIN q :
       /\ m[i].n = q[i].n
       /\ IF i = index THEN m[i].status = status /\ m[i].request = NoId
          ELSE m[i].status = q[i].status /\ m[i].request = q[i].request

\* The cache has answered for a prompt: it is ready, or it failed.
LEMMA MadeLined ==
  ASSUME NEW p \in Nat, NEW q \in Seq(Items), NEW gone,
         NEW requests \in SUBSET CacheRequests,
         Lined(p, q, gone, requests), Differ(requests),
         NEW r \in requests, r.type = "a",
         NEW status \in AudioStatuses, NEW m, AnsweredIn(q, m, r.index, status)
  PROVE  Lined(p, m, gone \cup (IF status = -1 THEN {q[r.index].n} ELSE {}),
               requests \ {r})
<1> DEFINE all == gone \cup (IF status = -1 THEN {q[r.index].n} ELSE {})
<1> USE DEF AnsweredIn
<1>1. /\ DOMAIN m = DOMAIN q /\ status \in {-1, 0, 1}
      /\ r.index \in DOMAIN q /\ q[r.index].request = r.id
  BY CallAssumption DEF Lined, Awaited
<1>2. gone \subseteq all /\ (status = -1 => q[r.index].n \in all)
  OBVIOUS
<1> HIDE DEF all
<1>3. Numbered(p, m)
  BY <1>1 DEF Lined, Numbered
<1>4. Covered(p, m, all)
  <2>1. 1..(p - Len(m)) \subseteq all
    BY <1>2 DEF Lined, Covered
  <2>2. ASSUME NEW i \in DOMAIN m, m[i].status \in {2, -1}
        PROVE  m[i].n \in all
    BY <1>1, <1>2, <2>2 DEF Lined, Covered
  <2> QED
    BY <2>1, <2>2 DEF Covered
<1>5. Awaited(m, requests \ {r})
  <2>1. ASSUME NEW i \in DOMAIN m
        PROVE  /\ m[i].request # NoId => m[i].status = 0
               /\ m[i].status = 0 =>
                    \/ m[i].request = NoId /\ 0 \in AudioStatuses
                    \/ [id |-> m[i].request, type |-> "a", index |-> i] \in requests \ {r}
    <3>1. CASE i = r.index
      BY <1>1, <3>1
    <3>2. CASE i # r.index
      <4>1. [id |-> m[i].request, type |-> "a", index |-> i] # r
        BY <3>2
      <4>2. m[i].status = q[i].status /\ m[i].request = q[i].request
        BY <1>1, <3>2
      <4> QED
        BY <1>1, <4>1, <4>2 DEF Lined, Awaited
    <3> QED
      BY <3>1, <3>2
  <2>2. ASSUME NEW r2 \in requests \ {r}, r2.type = "a"
        PROVE  r2.index \in DOMAIN m /\ m[r2.index].request = r2.id
    <3>1. r2.index \in DOMAIN q /\ q[r2.index].request = r2.id
      BY <2>2 DEF Lined, Awaited
    <3>2. r2.index # r.index
      BY <1>1, <3>1 DEF Differ
    <3> QED
      BY <1>1, <3>1, <3>2
  <2> QED
    BY <2>1, <2>2 DEF Awaited
<1> QED
  BY <1>3, <1>4, <1>5 DEF Lined, all

\* Pages that are asked for and answered leave the prompts alone.
LEMMA PagesLined ==
  ASSUME NEW p, NEW q, NEW gone, NEW requests, Lined(p, q, gone, requests),
         NEW r, r.type # "a", NEW more, more = requests \cup {r} \/ more = requests \ {r}
  PROVE  Lined(p, q, gone, more)
<1>1. \A i, id : [id |-> id, type |-> "a", index |-> i] # r
  OBVIOUS
<1>2. \A x \in more : x \in requests \/ x = r
  OBVIOUS
<1>3. \A x \in requests : x # r => x \in more
  OBVIOUS
<1> QED
  BY <1>1, <1>2, <1>3 DEF Lined, Awaited
-----------------------------------------------------------------------------
(* What do_prompt_and_listen does with the prompts of a session.            *)

\* The session it is called with, in a step that has changed the requests and
\* the failed prompts.
Prepared(c) ==
  /\ c \in Sessions /\ c.connected /\ Coherent(c) /\ PlayOver(c)
  /\ Lined(prompts', c.queue, heard \cup failed', hc')
  /\ \A n \in heard : 1..(n-1) \subseteq heard \cup failed'
  /\ toServer \in Seq(Commands) /\ hc' \subseteq CacheRequests /\ prompts' \in Nat

\* The command that is sent, if any, is right for the prompts of queue q.
SentRightly(q) ==
  Sends =>
    /\ Sent.type = "PLAY" =>
         \A n \in heard' \ heard : \A i \in DOMAIN q :
           q[i].n = n => q[i].bargein = Sent.bargein
    /\ Sent.type \in {"GETDIG", "RECORD", "TRANSFER"} =>
         1..prompts' \subseteq heard \cup failed'

Prompted(c) ==
  /\ Lined(prompts', fh'.queue, heard' \cup failed', hc') /\ PlayOver(fh')
  /\ PromptsInOrder' /\ SentRightly(c.queue)

\* Nothing is sent.
LEMMA NothingSent ==
  ASSUME toServer \in Seq(Commands), toServer' = toServer, NEW q
  PROVE  SentRightly(q)
<1>1. ~Sends
  BY DEF Sends
<1> QED
  BY <1>1 DEF SentRightly

LEMMA QuietPrompted ==
  ASSUME NEW c, Prepared(c), Quiet(c)
  PROVE  Prompted(c) /\ heard' = heard
<1>1. fh' = c /\ toServer' = toServer /\ heard' = heard
  BY DEF Quiet
<1>2. SentRightly(c.queue)
  BY <1>1, NothingSent DEF Prepared
<1> QED
  BY <1>1, <1>2 DEF Prepared, Prompted, PromptsInOrder

\* The request is answered once its prompts are done.
LEMMA AnswerPrompted ==
  ASSUME NEW c, Prepared(c), c.queue = <<>>, c.satcDoing = None,
         NEW reply, ReplyTo(ClearPlayAndRec(c), reply)
  PROVE  Prompted(c) /\ heard' = heard
<1>1. toServer' = toServer /\ heard' = heard
  BY DEF ReplyTo
<1>2. /\ fh'.queue = <<>> /\ fh'.vxmlDoing = None /\ fh'.satcDoing = None
      /\ ~fh'.gotDtmf /\ ~fh'.timedOut
  BY DEF ReplyTo, ClearPlayAndRec, Prepared, Sessions
<1>3. SentRightly(c.queue)
  BY <1>1, NothingSent DEF Prepared
<1>4. PlayOver(fh')
  BY <1>2 DEF PlayOver, None
<1> QED
  BY <1>1, <1>2, <1>3, <1>4 DEF Prepared, Prompted, PromptsInOrder

\* A command is sent, for a session d that differs from c in its prompts.
LEMMA CommandPrompted ==
  ASSUME NEW c, Prepared(c), NEW d \in Sessions, PlayOver(d),
         d.satcDoing = None,
         NEW command \in Commands, NEW played, SendTo(d, command, played),
         Lined(prompts', d.queue, heard \cup played \cup failed', hc'),
         \A n \in played : 1..(n-1) \subseteq heard \cup played \cup failed',
         command.type \in {"GETDIG", "RECORD"} => "play" \notin d.requested,
         command.type = "PLAY" =>
           \A n \in played : \A i \in DOMAIN c.queue :
             c.queue[i].n = n => c.queue[i].bargein = command.bargein,
         command.type \in {"GETDIG", "RECORD", "TRANSFER"} =>
           1..prompts' \subseteq heard \cup failed'
  PROVE  Prompted(c)
<1>1. toServer' = Append(toServer, command) /\ heard' = heard \cup played
  BY DEF SendTo
<1>2. /\ fh'.queue = d.queue /\ fh'.vxmlDoing = d.vxmlDoing
      /\ fh'.satcDoing = command.type /\ fh'.requested = d.requested
      /\ fh'.gotDtmf = d.gotDtmf /\ fh'.timedOut = d.timedOut
  BY DEF SendTo, Sessions
<1>3. Sent = command
  BY <1>1 DEF Sent, Prepared
<1>4. SentRightly(c.queue)
  BY <1>1, <1>3 DEF SentRightly
<1>5. PlayOver(fh')
  BY <1>2 DEF PlayOver
<1>6. PromptsInOrder'
  BY <1>1 DEF Prepared, PromptsInOrder
<1>7. heard' \cup failed' = heard \cup played \cup failed'
  BY <1>1
<1> QED
  BY <1>2, <1>4, <1>5, <1>6, <1>7 DEF Prompted

\* A command that is not a play, once the prompts are done.
LEMMA ListeningPrompted ==
  ASSUME NEW c, Prepared(c), c.queue = <<>>, c.satcDoing = None,
         "play" \notin c.requested,
         NEW type \in {"GETDIG", "RECORD", "TRANSFER"},
         SendTo(c, Command(type, FALSE), {})
  PROVE  Prompted(c) /\ heard' = heard
<1> DEFINE command == Command(type, FALSE)
<1>1. command \in Commands /\ command.type = type
  BY DEF Command, Commands, CommandTypes, Answered
<1>2. 1..prompts' \subseteq heard \cup failed'
  <2>1. prompts' - Len(c.queue) = prompts'
    BY DEF Prepared
  <2> QED
    BY <2>1 DEF Prepared, Lined, Covered
<1>3. SendTo(c, command, {}) /\ heard' = heard
  BY DEF SendTo
<1> HIDE DEF command
<1>4. heard \cup {} \cup failed' = heard \cup failed'
  OBVIOUS
<1>5. Prompted(c)
  BY <1>1, <1>2, <1>3, <1>4, CommandPrompted DEF Prepared
<1> QED
  BY <1>3, <1>5

LEMMA StartRequestPrompted ==
  ASSUME NEW c, Prepared(c), c.satcDoing = None, "play" \notin c.requested,
         StartRequest(c)
  PROVE  Prompted(c) /\ heard' = heard
<1>1. \A request \in {"wait", "recognize", "record", "transfer"} :
        request \in c.requested => c.queue = <<>>
  BY DEF Prepared, Coherent, PlayOver
<1>2. CASE "wait" \in c.requested
  BY <1>1, <1>2, AnswerPrompted DEF StartRequest
<1>3. CASE "recognize" \in c.requested /\ GetOneDigit(c)
  BY <1>1, <1>3, ListeningPrompted DEF GetOneDigit
<1>4. CASE "record" \in c.requested /\ SendTo(c, Command("RECORD", FALSE), {})
  BY <1>1, <1>4, ListeningPrompted
<1>5. CASE /\ "transfer" \in c.requested
           /\ SendTo(c, Command("TRANSFER", FALSE), {})
  BY <1>1, <1>5, ListeningPrompted
<1> QED
  BY <1>2, <1>3, <1>4, <1>5, QuietPrompted DEF StartRequest

\* Keys and timeouts only come once the prompts of the recognition are done.
LEMMA RecognizedPrompted ==
  ASSUME NEW c, Prepared(c), c.satcDoing = None, c.gotDtmf \/ c.timedOut,
         \/ MatchDigits(c)
         \/ ReplyTo(ClearPlayAndRec(c), Reply("Recognized", "noinput"))
  PROVE  Prompted(c) /\ heard' = heard
<1>1. "play" \notin c.requested /\ c.queue = <<>>
  BY DEF Prepared, Coherent, Listening, PlayOver
<1>2. \/ \E reply : ReplyTo(ClearPlayAndRec(c), reply)
      \/ SendTo(c, Command("GETDIG", FALSE), {})
  BY DEF MatchDigits, GetOneDigit
<1> QED
  BY <1>1, <1>2, AnswerPrompted, ListeningPrompted
\* The session with other prompts, and with none left to play.
LEMMA RequeuedSession ==
  ASSUME NEW c, Prepared(c), "play" \in c.requested, NEW queue \in Seq(Items)
  PROVE  LET d == [c EXCEPT !.queue = queue]
         IN  /\ d \in Sessions /\ d.queue = queue /\ d.requested = c.requested
             /\ d.satcDoing = c.satcDoing /\ PlayOver(d)
BY DEF Prepared, Sessions, PlayOver

LEMMA DoneSession ==
  ASSUME NEW c, Prepared(c)
  PROVE  LET d == DonePrompts(c)
         IN  /\ d \in Sessions /\ d.queue = <<>> /\ "play" \notin d.requested
             /\ d.satcDoing = c.satcDoing /\ PlayOver(d) /\ Coherent(d)
             /\ d.connected
<1> DEFINE d == DonePrompts(c)
<1>1. d \in Sessions
  BY ClearedType DEF Prepared
<1>2. /\ d.queue = <<>> /\ d.requested = c.requested \ {"play"}
      /\ d.satcDoing = c.satcDoing /\ d.vxmlDoing = c.vxmlDoing
      /\ d.gotDtmf = c.gotDtmf /\ d.timedOut = c.timedOut
      /\ d.gotTermchar = c.gotTermchar /\ d.digits = c.digits
      /\ d.connected
  BY DEF DonePrompts, Prepared, Sessions
<1> HIDE DEF d
<1>3. PlayOver(d)
  BY <1>2 DEF PlayOver
<1>4. Coherent(d)
  BY <1>2 DEF Prepared, Coherent, Listening
<1> QED
  BY <1>1, <1>2, <1>3, <1>4 DEF d

\* A play: what is sent is next in line, and of one bargein.
LEMMA PlayPromptsPrompted ==
  ASSUME NEW c, Prepared(c), c.satcDoing = None, "play" \in c.requested,
         PlayPrompts(c)
  PROVE  Prompted(c)
<1> DEFINE q     == c.queue
           gone  == heard \cup failed'
           batch == Batch(q)
           dtmf  == FirstDtmf(q)
           audio == [c EXCEPT !.queue = MarkPlayed(q, batch)]
           tones == [c EXCEPT !.queue = MarkPlayed(q, dtmf)]
           done  == DonePrompts(c)
           play  == Command("PLAY", \E i \in batch : q[i].bargein)
           dig   == Command("PLAYDIG", FALSE)
<1>1. q \in Seq(Items) /\ Lined(prompts', q, gone, hc') /\ prompts' \in Nat
      /\ hc' \in SUBSET CacheRequests
  BY DEF Prepared, Sessions
<1>2. /\ \A i \in batch : i \in DOMAIN q /\ Ready(q[i])
      /\ \A i \in dtmf : i \in DOMAIN q /\ Ready(q[i])
  BY DEF Batch, FirstDtmf
<1>3. /\ Lined(prompts', MarkPlayed(q, batch), gone \cup Numbers(q, batch), hc')
      /\ Lined(prompts', MarkPlayed(q, dtmf), gone \cup Numbers(q, dtmf), hc')
  <2> HIDE DEF batch, dtmf, gone, q
  <2> QED
    BY <1>1, <1>2, MarkedLined
<1>4. /\ audio \in Sessions /\ audio.queue = MarkPlayed(q, batch)
      /\ audio.satcDoing = None /\ PlayOver(audio)
      /\ tones \in Sessions /\ tones.queue = MarkPlayed(q, dtmf)
      /\ tones.satcDoing = None /\ PlayOver(tones)
  BY <1>1, MarkPlayedType, RequeuedSession
<1>5. /\ done \in Sessions /\ done.queue = <<>> /\ "play" \notin done.requested
      /\ done.satcDoing = None /\ PlayOver(done) /\ Coherent(done)
      /\ done.connected
  BY DoneSession
<1>6. ReachesEnd(q) => Lined(prompts', <<>>, gone \cup Numbers(q, batch), hc')
  BY <1>1, EndLined
<1>7. /\ \A n \in Numbers(q, batch) : 1..(n-1) \subseteq gone \cup Numbers(q, batch)
      /\ \A n \in Numbers(q, dtmf) : 1..(n-1) \subseteq gone \cup Numbers(q, dtmf)
  <2> HIDE DEF gone, q
  <2> QED
    BY <1>1, SentInOrder
<1>8. /\ play \in Commands /\ play.type = "PLAY"
      /\ play.bargein = (\E i \in batch : q[i].bargein)
      /\ dig \in Commands /\ dig.type = "PLAYDIG"
  BY DEF Command, Commands, CommandTypes, Answered
<1>9. \A n \in Numbers(q, batch) : \A i \in DOMAIN q :
        q[i].n = n => q[i].bargein = play.bargein
  <2> SUFFICES ASSUME NEW j \in batch, NEW i \in DOMAIN q, q[i].n = q[j].n
               PROVE  q[i].bargein = play.bargein
    BY DEF Numbers
  <2>1. i = j
    <3>1. j \in DOMAIN q
      BY <1>2
    <3>2. Len(q) \in Nat /\ DOMAIN q = 1..Len(q)
      BY <1>1, QueueItems
    <3> QED
      BY <1>1, <3>1, <3>2 DEF Lined, Numbered
  <2> QED
    BY <1>1, <1>8, <2>1, BatchAlike
<1>10. \A x : gone \cup x = heard \cup x \cup failed'
  OBVIOUS
<1>11. CASE SendTo(IF ReachesEnd(q) THEN done ELSE audio, play, Numbers(q, batch))
  <2> DEFINE d == IF ReachesEnd(q) THEN done ELSE audio
             played == Numbers(q, batch)
  <2>1. d \in Sessions /\ PlayOver(d) /\ d.satcDoing = None
        /\ Lined(prompts', d.queue, gone \cup played, hc')
    BY <1>3, <1>4, <1>5, <1>6
  <2>2. SendTo(d, play, played)
    BY <1>11
  <2> HIDE DEF d, played, play, done, audio, tones, dtmf
  <2> QED
    BY <1>7, <1>8, <1>9, <1>10, <2>1, <2>2, CommandPrompted DEF played
<1>12. CASE SendTo(tones, dig, Numbers(q, dtmf))
  <2> DEFINE played == Numbers(q, dtmf)
  <2>1. SendTo(tones, dig, played)
    BY <1>12
  <2>2. Lined(prompts', tones.queue, heard \cup played \cup failed', hc')
    BY <1>3, <1>4, <1>10
  <2>3. \A n \in played : 1..(n-1) \subseteq heard \cup played \cup failed'
    BY <1>7, <1>10
  <2> HIDE DEF played, play, dig, done, audio, tones, batch, dtmf
  <2> QED
    BY <1>4, <1>8, <2>1, <2>2, <2>3, CommandPrompted
<1>13. CASE ReachesEnd(q) /\ batch = {} /\ StartRequest(done)
  <2>1. Numbers(q, batch) = {}
    BY <1>13 DEF Numbers
  <2>2. Lined(prompts', done.queue, gone, hc')
    BY <1>5, <1>6, <1>13, <2>1
  <2>3. Prepared(done)
    BY <1>5, <2>2 DEF Prepared
  <2> HIDE DEF done
  <2>4. Prompted(done) /\ heard' = heard
    BY <1>5, <1>13, <2>3, StartRequestPrompted
  <2>5. SentRightly(c.queue)
    BY <2>4 DEF Prompted, SentRightly
  <2> QED
    BY <2>4, <2>5 DEF Prompted
<1>14. CASE Quiet(c)
  BY <1>14, QuietPrompted
<1> QED
  <2>1. \/ SendTo(IF ReachesEnd(q) THEN done ELSE audio, play, Numbers(q, batch))
        \/ SendTo(tones, dig, Numbers(q, dtmf))
        \/ Quiet(c)
        \/ ReachesEnd(q) /\ batch = {} /\ StartRequest(done)
    BY Zenon DEF PlayPrompts
  <2> QED
    BY <1>11, <1>12, <1>13, <1>14, <2>1

LEMMA DoPromptAndListenPrompted ==
  ASSUME NEW c, Prepared(c), DoPromptAndListen(c)
  PROVE  Prompted(c)
<1>1. CASE Quiet(c)
  BY <1>1, QuietPrompted
<1>2. CASE /\ MayAct(c) /\ c.timedOut
           /\ ReplyTo(ClearPlayAndRec(c), Reply("Recognized", "noinput"))
  BY <1>2, RecognizedPrompted DEF MayAct
<1>3. CASE MayAct(c) /\ c.gotDtmf /\ MatchDigits(c)
  BY <1>3, RecognizedPrompted DEF MayAct
<1>4. CASE MayAct(c) /\ "play" \in c.requested /\ PlayPrompts(c)
  BY <1>4, PlayPromptsPrompted DEF MayAct
<1>5. CASE MayAct(c) /\ "play" \notin c.requested /\ StartRequest(c)
  BY <1>5, StartRequestPrompted DEF MayAct
<1> QED
  BY <1>1, <1>2, <1>3, <1>4, <1>5 DEF DoPromptAndListen
-----------------------------------------------------------------------------
(* The steps of a connected call.                                           *)

Advanced ==
  /\ fh'.connected => /\ Lined(prompts', fh'.queue, heard' \cup failed', hc')
                      /\ PlayOver(fh')
  /\ PromptsInOrder' /\ SentRightly(fh.queue)
  /\ prompts' \in {prompts, prompts + 1}

\* A step that ends in do_prompt_and_listen for the queue as it is.
LEMMA ListeningStep ==
  ASSUME TypeOK, TypeOK', Prompting, fh.connected, UNCHANGED <<prompts, failed, hc>>,
         NEW c \in Sessions, c.connected, Coherent(c), PlayOver(c),
         c.queue = fh.queue, DoPromptAndListen(c)
  PROVE  Advanced
<1>1. Prepared(c)
  <2>1. \A n \in heard : 1..(n-1) \subseteq heard \cup failed'
    BY DEF Prompting, PromptsInOrder
  <2>2. toServer \in Seq(Commands) /\ hc' \subseteq CacheRequests /\ prompts' \in Nat
    BY CallAssumption DEF TypeOK
  <2> QED
    BY <2>1, <2>2 DEF Prompting, Prepared
<1> QED
  BY <1>1, DoPromptAndListenPrompted DEF Prompted, Advanced

\* A step that sends nothing and leaves the prompts alone.
LEMMA IdleStep ==
  ASSUME TypeOK, Prompting, fh.connected, UNCHANGED <<prompts, failed, heard>>,
         hc' = hc \/ (\E r \in hc' \cup hc : r.type # "a"
                        /\ (hc' = hc \cup {r} \/ hc' = hc \ {r})),
         ~Sends,
         fh'.connected => fh'.queue = fh.queue /\ PlayOver(fh')
  PROVE  Advanced
<1>1. SentRightly(fh.queue)
  BY DEF SentRightly
<1>2. PromptsInOrder'
  BY DEF Prompting, PromptsInOrder
<1>3. Lined(prompts', fh.queue, heard' \cup failed', hc')
  BY PagesLined DEF Prompting
<1> QED
  BY <1>1, <1>2, <1>3 DEF Advanced

LEMMA QuietSends ==
  ASSUME TypeOK, toServer' = toServer
  PROVE  ~Sends
BY DEF TypeOK, Sends

\* What a step leaves of the session when it changes none of these fields.
LEMMA SamePlayOver ==
  ASSUME NEW c, NEW d, PlayOver(c), d.queue = c.queue,
         d.requested = c.requested,
         d.vxmlDoing = c.vxmlDoing \/ d.vxmlDoing \in {None, "exitval"},
         d.satcDoing = c.satcDoing \/ d.satcDoing \in {None, "RETURNVAR"},
         d.gotDtmf = c.gotDtmf, d.timedOut = c.timedOut
  PROVE  PlayOver(d)
BY DEF PlayOver, None

\* Nothing is pending, so nothing was heard and nothing asked for.
LEMMA RestingPlayOver ==
  ASSUME NEW c, "play" \notin c.requested,
         c.vxmlDoing \notin {"wait", "recognize", "record", "transfer"}
  PROVE  PlayOver(c)
BY DEF PlayOver

\* A request that comes with a play starts with the play.
LEMMA StartPendingAdvances ==
  ASSUME TypeOK, TypeOK', Joint, Prompting, fh.connected, interp = "running",
         NEW request \in {"wait", "recognize", "record", "transfer"},
         NEW c \in Sessions, Alike(c), c.queue = fh.queue, StartPending(c, request),
         UNCHANGED <<prompts, failed, hc>>
  PROVE  Advanced
<1> DEFINE d == [c EXCEPT !.requested = @ \cup {"play", request},
                          !.vxmlDoing = request]
<1>1. /\ fh.vxmlDoing = None /\ fh.satcDoing = None /\ fh.requested = {}
      /\ ~Listening(fh)
  BY NothingPending DEF Joint, Requests
<1>2. d \in Sessions
  <2>1. c.requested \cup {"play", request}
          \in SUBSET {"play", "wait", "recognize", "record", "transfer"}
    BY DEF Sessions
  <2> QED
    BY <2>1 DEF Sessions, Pending
<1>3. /\ d.connected /\ d.satcDoing = None /\ d.vxmlDoing = request
      /\ d.requested = {"play", request} /\ ~Listening(d) /\ d.queue = fh.queue
  BY <1>1 DEF Sessions, Alike, Listening
<1>4. DoPromptAndListen(d)
  BY DEF StartPending
<1> HIDE DEF d
<1>5. Coherent(d)
  BY <1>3 DEF Coherent, None
<1>6. PlayOver(d)
  BY <1>3 DEF PlayOver, Listening, None
<1> QED
  BY <1>2, <1>3, <1>4, <1>5, <1>6, ListeningStep

\* The requests that are answered at once or only change the session.
LEMMA ImmediateAdvances ==
  ASSUME TypeOK, Prompting, fh.connected,
         \/ UNCHANGED fh \/ fh' = [fh EXCEPT !.vxmlDoing = None]
         \/ fh' = [fh EXCEPT !.fetchId = NoId],
         UNCHANGED <<toServer, heard, prompts, failed, hc>>
  PROVE  Advanced
<1>1. fh \in Sessions /\ PlayOver(fh)
  BY DEF TypeOK, Prompting
<1>2. /\ fh'.queue = fh.queue /\ fh'.requested = fh.requested
      /\ fh'.vxmlDoing \in {fh.vxmlDoing, None} /\ fh'.satcDoing = fh.satcDoing
      /\ fh'.gotDtmf = fh.gotDtmf /\ fh'.timedOut = fh.timedOut
  BY <1>1 DEF Sessions
<1>3. PlayOver(fh')
  BY <1>1, <1>2, SamePlayOver
<1> QED
  BY <1>2, <1>3, IdleStep, QuietSends

LEMMA CallRequestAdvances ==
  ASSUME TypeOK, TypeOK', Joint, Prompting, fh.connected,
         \/ HandlePlay \/ HandleGetLineStatus \/ HandleWait
         \/ HandleRecord \/ HandleTransfer
  PROVE  Advanced
<1>1. interp = "running" /\ UNCHANGED <<prompts, failed, hc>>
  BY DEF HandlePlay, HandleGetLineStatus, HandleWait, HandleRecord,
         HandleTransfer, Request, cacheVars
<1>2. \/ \E reply : ReplyTo(fh, reply)
      \/ \E request \in {"wait", "recognize", "record", "transfer"} :
           StartPending(fh, request)
  BY DEF HandlePlay, HandleGetLineStatus, HandleWait, HandleRecord, HandleTransfer
<1>3. fh \in Sessions /\ Alike(fh)
  BY DEF TypeOK, Alike
<1>4. CASE \E reply : ReplyTo(fh, reply)
  BY <1>1, <1>4, ImmediateAdvances DEF ReplyTo
<1> QED
  BY <1>1, <1>2, <1>3, <1>4, StartPendingAdvances

LEMMA RecognizeAdvances ==
  ASSUME TypeOK, TypeOK', Joint, Prompting, fh.connected,
         NEW t \in TermTimeouts, NEW k \in TermChars, HandleRecognize(t, k)
  PROVE  Advanced
<1> DEFINE c == [fh EXCEPT !.termtimeout = t, !.termchar = k]
<1>1. /\ interp = "running" /\ StartPending(c, "recognize")
      /\ UNCHANGED <<prompts, failed, hc>>
  BY DEF HandleRecognize, Request, cacheVars
<1>2. c \in Sessions /\ c.queue = fh.queue
  <2>1. t \in Nat /\ k \in Keys \cup {None} /\ fh \in Sessions
    BY CallAssumption DEF TypeOK
  <2> QED
    BY <2>1 DEF Sessions
<1>3. Alike(c)
  BY DEF TypeOK, Sessions, Alike, Listening
<1> HIDE DEF c
<1> QED
  BY <1>1, <1>2, <1>3, StartPendingAdvances

\* A returned variable and a hangup send commands of their own.
LEMMA OwnCommandAdvances ==
  ASSUME TypeOK, Prompting, fh.connected, UNCHANGED <<prompts, failed, hc>>,
         NEW c, NEW type \in {"RETURNVAR", "HANGUP"},
         SendTo(c, Command(type, FALSE), {}),
         \/ c = [fh EXCEPT !.vxmlDoing = "exitval"] /\ type = "RETURNVAR"
         \/ c = [fh EXCEPT !.connected = FALSE]
  PROVE  Advanced
<1> DEFINE command == Command(type, FALSE)
<1>1. command \in Commands /\ command.type = type
  BY DEF Command, Commands, CommandTypes, Answered
<1>2. fh \in Sessions /\ PlayOver(fh)
  BY DEF TypeOK, Prompting
<1>3. fh' = [c EXCEPT !.satcDoing = type] /\ toServer' = Append(toServer, command)
      /\ heard' = heard
  BY <1>1 DEF SendTo
<1> HIDE DEF command
<1>4. /\ fh'.queue = fh.queue /\ fh'.requested = fh.requested
      /\ fh'.connected => fh'.vxmlDoing = "exitval" /\ fh'.satcDoing = "RETURNVAR"
      /\ fh'.gotDtmf = fh.gotDtmf /\ fh'.timedOut = fh.timedOut
  BY <1>2, <1>3 DEF Sessions
<1>5. fh'.connected => PlayOver(fh')
  BY <1>2, <1>4, SamePlayOver
<1>6. Sent = command
  BY <1>1, <1>3 DEF Sent, TypeOK
<1>7. SentRightly(fh.queue)
  BY <1>1, <1>6 DEF SentRightly
<1> QED
  BY <1>3, <1>4, <1>5, <1>7 DEF Advanced, Prompting, PromptsInOrder
\* A prompt more.
LEMMA EnqueueAdvances ==
  ASSUME TypeOK, Joint, Prompting, fh.connected,
         \/ \E bargein \in BOOLEAN : HandleQueueAudio(bargein)
                                       \/ HandlePcmQueue(bargein)
         \/ HandleQueueDtmf
  PROVE  Advanced
<1>1. PICK type \in {"audio", "dtmf"}, bargein \in BOOLEAN, status \in {0, 1},
           request \in 0..IdSpan :
        /\ Enqueue(Item(type, bargein, status, request))
        /\ \/ request = NoId /\ status = 1 /\ hc' = hc
           \/ /\ request # NoId /\ status = 0
              /\ hc' = hc \cup {[id |-> request, type |-> "a", index |-> NextIndex]}
  <2>1. CASE \E bargein \in BOOLEAN : HandleQueueAudio(bargein)
    <3>1. PICK bargein \in BOOLEAN : HandleQueueAudio(bargein)
      BY <2>1
    <3>2. nextId \in 0..IdSpan /\ nextId # NoId
      BY DEF TypeOK, NoId
    <3>3. /\ Enqueue(Item("audio", bargein, 0, nextId))
          /\ hc' = hc \cup {[id |-> nextId, type |-> "a", index |-> NextIndex]}
      BY <3>1 DEF HandleQueueAudio
    <3> QED
      BY <3>2, <3>3, Zenon
  <2>2. NoId \in 0..IdSpan
    BY CallAssumption DEF NoId
  <2>3. CASE \E bargein \in BOOLEAN : HandlePcmQueue(bargein)
    <3>1. PICK bargein \in BOOLEAN : HandlePcmQueue(bargein)
      BY <2>3
    <3>2. Enqueue(Item("audio", bargein, 1, NoId)) /\ hc' = hc
      BY <3>1 DEF HandlePcmQueue
    <3> QED
      BY <2>2, <3>2, Zenon
  <2>4. CASE HandleQueueDtmf
    <3>1. Enqueue(Item("dtmf", FALSE, 1, NoId)) /\ hc' = hc
      BY <2>4 DEF HandleQueueDtmf
    <3>2. FALSE \in BOOLEAN
      OBVIOUS
    <3> QED
      BY <2>2, <3>1, <3>2, Zenon
  <2> QED
    BY <2>1, <2>3, <2>4
<1> DEFINE item == Item(type, bargein, status, request)
<1>2. /\ fh \in Sessions /\ fh.queue \in Seq(Items) /\ prompts \in Nat
      /\ prompts + 1 \in 1..MaxPrompts /\ Len(fh.queue) \in Nat
      /\ Lined(prompts, fh.queue, heard \cup failed, hc)
  <2>1. prompts < MaxPrompts /\ prompts \in 0..MaxPrompts /\ MaxPrompts \in Nat
    BY <1>1, CallAssumption DEF TypeOK, Enqueue
  <2>2. fh \in Sessions /\ Lined(prompts, fh.queue, heard \cup failed, hc)
    BY DEF TypeOK, Prompting
  <2>3. fh.queue \in Seq(Items)
    BY <2>2 DEF Sessions
  <2> QED
    BY <2>1, <2>2, <2>3
<1>7. fh.vxmlDoing = None /\ fh.requested = {}
  <2>1. interp = "running"
    BY DEF HandleQueueAudio, HandlePcmQueue, HandleQueueDtmf, Request
  <2> QED
    BY <2>1, NothingPending DEF Joint, Requests
<1>3. /\ item \in Items /\ item.n = prompts + 1
      /\ item.request = request /\ item.status = status
  BY <1>2 DEF Item, Items
<1>4. /\ prompts' = prompts + 1 /\ fh' = [fh EXCEPT !.queue = Append(@, item)]
      /\ UNCHANGED <<toServer, heard, failed>>
  BY <1>1 DEF Enqueue, Quiet
<1> HIDE DEF item
<1>5. Lined(prompts + 1, Append(fh.queue, item), heard \cup failed, hc')
  BY <1>1, <1>2, <1>3, EnqueuedLined DEF NextIndex
<1>6. /\ fh'.queue = Append(fh.queue, item) /\ fh'.requested = fh.requested
      /\ fh'.vxmlDoing = fh.vxmlDoing /\ fh'.satcDoing = fh.satcDoing
      /\ fh'.gotDtmf = fh.gotDtmf /\ fh'.timedOut = fh.timedOut
  BY <1>2, <1>4 DEF Sessions
<1>8. PlayOver(fh')
  BY <1>6, <1>7, RestingPlayOver DEF None
<1>9. PromptsInOrder' /\ SentRightly(fh.queue)
  BY <1>4, QuietSends DEF Prompting, PromptsInOrder, SentRightly
<1> QED
  BY <1>4, <1>5, <1>6, <1>8, <1>9 DEF Advanced
LEMMA OtherRequestAdvances ==
  ASSUME TypeOK, Prompting, fh.connected, HandleHttpGet \/ HandleVxmlParse \/ InterpRead
  PROVE  Advanced
<1>1. CASE HandleHttpGet
  <2> DEFINE r == [id |-> nextId, type |-> "v", index |-> 0]
  <2>1. UNCHANGED <<fh, toServer, heard, prompts, failed>> /\ hc' = hc \cup {r}
    BY <1>1 DEF HandleHttpGet, Quiet
  <2>2. r.type # "a" /\ PlayOver(fh)
    BY DEF Prompting
  <2> HIDE DEF r
  <2> QED
    BY <2>1, <2>2, IdleStep, QuietSends
<1>2. CASE HandleVxmlParse
  BY <1>2, ImmediateAdvances DEF HandleVxmlParse, Quiet
<1>3. CASE InterpRead
  BY <1>3, ImmediateAdvances DEF InterpRead, serverVars, cacheVars, promptVars
<1> QED
  BY <1>1, <1>2, <1>3

\* The last thing a thread sends releases its call.
LEMMA EndThreadAdvances ==
  ASSUME TypeOK, Prompting, fh.connected, EndThread
  PROVE  Advanced
<1> DEFINE command == Command("RELEASE", FALSE)
<1>1. command \in Commands /\ command.type = "RELEASE"
  BY DEF Command, Commands, CommandTypes, Answered
<1>2. /\ fh' = Idle /\ toServer' = toServer \o <<command>>
      /\ UNCHANGED <<heard, prompts, failed>>
  BY DEF EndThread, LeaveCall, promptVars
<1> HIDE DEF command
<1>3. Sent = command
  BY <1>1, <1>2 DEF Sent, TypeOK
<1>4. SentRightly(fh.queue)
  BY <1>1, <1>3 DEF SentRightly
<1>5. ~fh'.connected
  BY <1>2 DEF Idle
<1> QED
  BY <1>2, <1>4, <1>5 DEF Advanced, Prompting, PromptsInOrder

-----------------------------------------------------------------------------
(* Messages of the server and of the http cache.                            *)

\* The command an answer is to.
LEMMA AnsweredCommand ==
  ASSUME NEW command, NEW request, Serves(command, request)
  PROVE  /\ AnswerType(command) = "GOTDIG" => command = "GETDIG"
         /\ AnswerType(command) = "RECORDED" => command = "RECORD"
         /\ AnswerType(command) = "TRANSFERED" => command = "TRANSFER"
BY DEF Serves, AnswerType

\* The session once an answer is taken, with the prompts it had.
LEMMA FreePlayOver ==
  ASSUME TypeOK, Prompting, fh.connected
  PROVE  /\ Free.queue = fh.queue /\ Free.gotDtmf = fh.gotDtmf
         /\ Free.timedOut = fh.timedOut /\ PlayOver(Free)
<1>1. /\ Free.queue = fh.queue /\ Free.gotDtmf = fh.gotDtmf
      /\ Free.timedOut = fh.timedOut /\ Free.satcDoing = None
      /\ Free.vxmlDoing = fh.vxmlDoing /\ Free.requested = fh.requested
  BY DEF TypeOK, Free, Sessions
<1> QED
  BY <1>1, SamePlayOver DEF Prompting

\* The request is answered, and its prompts are gone or left where they are.
LEMMA AnswerAdvances ==
  ASSUME TypeOK, Prompting, fh.connected, NEW types, Receive(types),
         NEW c, NEW reply, ReplyTo(c, reply), c \in Sessions, c.queue = fh.queue,
         "play" \notin c.requested
  PROVE  Advanced
<1>1. UNCHANGED <<toServer, heard, prompts, failed, hc>>
  BY DEF Receive, ReplyTo, cacheVars
<1>2. /\ fh'.queue = fh.queue /\ fh'.vxmlDoing = None /\ "play" \notin fh'.requested
  BY DEF ReplyTo, Sessions
<1>3. PlayOver(fh')
  BY <1>2, RestingPlayOver DEF None
<1> QED
  BY <1>1, <1>2, <1>3, IdleStep, QuietSends

LEMMA ReceiveLeaves ==
  ASSUME NEW types, Receive(types)
  PROVE  UNCHANGED <<prompts, failed, hc>>
BY DEF Receive, cacheVars

LEMMA GotdigAdvances ==
  ASSUME TypeOK, TypeOK', Joint, Prompting, fh.connected, SatcGotdig
  PROVE  Advanced
<1>1. Receive({"GOTDIG"}) /\ fromServer # <<>>
  BY DEF SatcGotdig, Receive
<1>2. /\ Received.type = "GOTDIG" /\ fh.vxmlDoing = "recognize"
      /\ fh.satcDoing = "GETDIG"
  BY <1>1, ReceivedAnswer, AnswerTypeInverse, AnsweredCommand
<1>3. /\ fh.requested \subseteq {"play", "recognize"} /\ "play" \notin fh.requested
      /\ fh.queue = <<>>
  BY <1>2 DEF Joint, Coherent, Prompting, PlayOver
<1>4. CASE ~Received.ok
  <2> DEFINE c == ClearPlayAndRec(Free)
  <2>1. c \in Sessions /\ c.queue = <<>> /\ c.requested \subseteq {"transfer"}
    BY FreeFields, ClearedType DEF ClearPlayAndRec, Sessions
  <2>2. ReplyTo(c, Reply("Recognized", "failure"))
    BY <1>4 DEF SatcGotdig
  <2> HIDE DEF c
  <2> QED
    BY <1>1, <1>3, <2>1, <2>2, AnswerAdvances
<1>5. CASE Received.ok
  <2>1. KeyReceived \in Sessions /\ KeyReceived.connected
    BY <1>1, <1>2, <1>5, ReceivedSessions
  <2>2. /\ KeyReceived.satcDoing = None /\ KeyReceived.queue = fh.queue
        /\ KeyReceived.vxmlDoing = "recognize"
        /\ KeyReceived.requested = fh.requested
    BY <1>2, FreeFields, FreePlayOver DEF KeyReceived, Sessions
  <2>3. Coherent(KeyReceived)
    BY <1>3, <2>2 DEF Coherent, None
  <2>4. PlayOver(KeyReceived)
    BY <1>3, <2>2 DEF PlayOver
  <2>5. DoPromptAndListen(KeyReceived)
    BY <1>5 DEF SatcGotdig
  <2> QED
    BY <1>1, <2>1, <2>2, <2>3, <2>4, <2>5, ReceiveLeaves, ListeningStep
<1> QED
  BY <1>4, <1>5

LEMMA PlayedAdvances ==
  ASSUME TypeOK, TypeOK', Joint, Prompting, fh.connected, SatcPlayed
  PROVE  Advanced
<1>1. Receive({"PLAYED", "PLAYEDDIG"}) /\ DoPromptAndListen(Free)
  BY DEF SatcPlayed
<1>2. fh.vxmlDoing \in {"wait", "recognize", "record", "transfer"}
  BY <1>1, ReceivedAnswer, AnswerTypeInverse
<1>3. Coherent(Free)
  BY <1>2, FreeFields DEF Joint, Coherent, None
<1> QED
  BY <1>1, <1>3, FreeFields, FreePlayOver, ReceiveLeaves, ListeningStep

LEMMA AnsweredAdvances ==
  ASSUME TypeOK, Joint, Prompting, fh.connected,
         SatcTransfered \/ SatcRecorded \/ SatcReturnedvar
  PROVE  Advanced
<1>1. /\ Free \in Sessions /\ Free.requested = fh.requested
      /\ Free.queue = fh.queue
  BY FreeFields, FreePlayOver
<1>2. CASE SatcTransfered
  <2> DEFINE c == [Free EXCEPT !.requested = @ \ {"transfer"}]
  <2>1. Receive({"TRANSFERED"}) /\ ReplyTo(c, Reply("Transferred", None))
    BY <1>2 DEF SatcTransfered
  <2>2. "play" \notin fh.requested
    BY <2>1, ReceivedAnswer, AnsweredCommand DEF Joint, Coherent
  <2>3. c \in Sessions /\ c.queue = fh.queue /\ "play" \notin c.requested
    BY <1>1, <2>2 DEF Sessions
  <2> HIDE DEF c
  <2> QED
    BY <2>1, <2>3, AnswerAdvances
<1>3. CASE SatcRecorded
  <2> DEFINE c == ClearPlayAndRec(Free)
  <2>1. Receive({"RECORDED"}) /\ \E reply : ReplyTo(c, reply)
    BY <1>3 DEF SatcRecorded
  <2>2. fh.satcDoing = "RECORD" /\ fh.vxmlDoing = "record"
    BY <2>1, ReceivedAnswer, AnswerTypeInverse, AnsweredCommand
  <2>3. fh.queue = <<>>
    BY <2>2 DEF Prompting, PlayOver
  <2>4. c \in Sessions /\ c.queue = <<>> /\ "play" \notin c.requested
    BY <1>1, ClearedType DEF ClearPlayAndRec, Sessions
  <2> HIDE DEF c
  <2> QED
    BY <2>1, <2>3, <2>4, AnswerAdvances
<1>4. CASE SatcReturnedvar
  <2>1. Receive({"RETURNEDVAR"}) /\ ReplyTo(Free, Reply("exitedval", None))
    BY <1>4 DEF SatcReturnedvar
  <2>2. fh.vxmlDoing = "exitval"
    BY <2>1, ReceivedAnswer, AnswerTypeInverse
  <2>3. "play" \notin Free.requested
    BY <1>1, <2>2 DEF Joint, Coherent
  <2> QED
    BY <1>1, <2>1, <2>3, AnswerAdvances
<1> QED
  BY <1>2, <1>3, <1>4

\* Messages that are ignored, and the caller who goes.
LEMMA OtherMessageAdvances ==
  ASSUME TypeOK, Prompting, fh.connected,
         SatcIgnored \/ SatcUnsupported \/ SatcHungupOrReleased
  PROVE  Advanced
<1>1. CASE SatcIgnored
  BY <1>1, ImmediateAdvances DEF SatcIgnored, sessionVars, cacheVars, promptVars
<1>2. CASE SatcUnsupported
  <2>1. UNCHANGED <<toServer, heard, prompts, failed, hc>> /\ fh' = Free
    BY <1>2 DEF SatcUnsupported, Quiet, Receive, cacheVars
  <2> QED
    BY <2>1, FreePlayOver, IdleStep, QuietSends
<1>3. CASE SatcHungupOrReleased
  <2>1. UNCHANGED <<toServer, heard, prompts, failed, hc>>
    BY <1>3 DEF SatcHungupOrReleased, Quiet, ReplyTo, Receive, cacheVars
  <2>2. ~fh'.connected
    BY <1>3, FreeFields DEF SatcHungupOrReleased, Quiet, ReplyTo, Sessions
  <2> QED
    BY <2>1, <2>2, IdleStep, QuietSends
<1> QED
  BY <1>1, <1>2, <1>3

LEMMA SatcMessageAdvances ==
  ASSUME TypeOK, TypeOK', Joint, Prompting, fh.connected, SatcMessage
  PROVE  Advanced
BY GotdigAdvances, PlayedAdvances, AnsweredAdvances, OtherMessageAdvances DEF SatcMessage
\* The session once the cache has answered for the prompt of a request.
LEMMA MadeSession ==
  ASSUME TypeOK, NEW r, StillQueued(r), NEW status \in {-1, 0, 1}
  PROVE  LET c == Made(r, status)
         IN  /\ c \in Sessions /\ Len(c.queue) = Len(fh.queue)
             /\ DOMAIN c.queue = DOMAIN fh.queue
             /\ \A i \in DOMAIN fh.queue :
                  /\ c.queue[i].n = fh.queue[i].n
                  /\ c.queue[i].bargein = fh.queue[i].bargein
                  /\ IF i = r.index
                     THEN c.queue[i].status = status /\ c.queue[i].request = NoId
                     ELSE /\ c.queue[i].status = fh.queue[i].status
                          /\ c.queue[i].request = fh.queue[i].request
             /\ c.vxmlDoing = fh.vxmlDoing /\ c.requested = fh.requested
             /\ c.satcDoing = fh.satcDoing /\ c.gotDtmf = fh.gotDtmf
             /\ c.timedOut = fh.timedOut /\ c.connected = fh.connected
             /\ Listening(c) = Listening(fh)
<1> DEFINE c     == Made(r, status)
           q     == fh.queue
           item  == [q[r.index] EXCEPT !.status = status, !.request = NoId]
<1>1. fh \in Sessions /\ q \in Seq(Items) /\ r.index \in DOMAIN q
  BY DEF TypeOK, StillQueued, Sessions
<1>2. c \in Sessions
  BY <1>1, UpdatedItemType DEF Made
<1>3. q[r.index] \in Items
  BY <1>1, QueueItems
<1>4. c.queue = [q EXCEPT ![r.index] = item]
  BY <1>1, <1>3 DEF Made, Sessions, Items
<1>5. /\ item.n = q[r.index].n /\ item.bargein = q[r.index].bargein
      /\ item.status = status /\ item.request = NoId
  BY <1>3 DEF Items
<1>6. /\ c.vxmlDoing = fh.vxmlDoing /\ c.requested = fh.requested
      /\ c.satcDoing = fh.satcDoing /\ c.gotDtmf = fh.gotDtmf
      /\ c.timedOut = fh.timedOut /\ c.connected = fh.connected
      /\ Listening(c) = Listening(fh)
  BY <1>1 DEF Made, Sessions, Listening
<1> HIDE DEF item, c, q
<1>7. DOMAIN c.queue = DOMAIN q /\ c.queue \in Seq(Items)
  BY <1>2, <1>4 DEF Sessions
<1>8. Len(c.queue) = Len(q)
  BY <1>1, <1>7
<1>9. \A i \in DOMAIN q : c.queue[i] = IF i = r.index THEN item ELSE q[i]
  BY <1>1, <1>4
<1>10. \A i \in DOMAIN q :
         /\ c.queue[i].n = q[i].n /\ c.queue[i].bargein = q[i].bargein
         /\ IF i = r.index
            THEN c.queue[i].status = status /\ c.queue[i].request = NoId
            ELSE /\ c.queue[i].status = q[i].status
                 /\ c.queue[i].request = q[i].request
  BY <1>5, <1>9
<1> QED
  BY <1>2, <1>6, <1>7, <1>8, <1>10 DEF c, q

LEMMA HttpCacheAudioAdvances ==
  ASSUME TypeOK, TypeOK', Joint, Prompting, fh.connected,
         NEW r \in hc, NEW status \in {-1, 0, 1}, HttpCacheAudio(r, status)
  PROVE  Advanced
<1> DEFINE c == Made(r, status)
<1>1. /\ r.type = "a" /\ status \in AudioStatuses /\ hc' = hc \ {r}
      /\ prompts' = prompts
  BY DEF HttpCacheAudio, Done
<1>2. StillQueued(r) /\ interp # "ended"
  BY <1>1 DEF Prompting, Lined, Awaited, StillQueued, Joint, OneFetch
<1>3. DoPromptAndListen(c)
      /\ failed' = IF status = -1 THEN failed \cup {fh.queue[r.index].n} ELSE failed
  BY <1>2 DEF HttpCacheAudio
<1>4. /\ c \in Sessions /\ Len(c.queue) = Len(fh.queue)
      /\ DOMAIN c.queue = DOMAIN fh.queue
      /\ \A i \in DOMAIN fh.queue :
           /\ c.queue[i].n = fh.queue[i].n
           /\ c.queue[i].bargein = fh.queue[i].bargein
           /\ IF i = r.index
              THEN c.queue[i].status = status /\ c.queue[i].request = NoId
              ELSE /\ c.queue[i].status = fh.queue[i].status
                   /\ c.queue[i].request = fh.queue[i].request
      /\ c.vxmlDoing = fh.vxmlDoing /\ c.requested = fh.requested
      /\ c.satcDoing = fh.satcDoing /\ c.gotDtmf = fh.gotDtmf
      /\ c.timedOut = fh.timedOut /\ c.connected = fh.connected
      /\ Listening(c) = Listening(fh)
  BY <1>2, MadeSession
<1> HIDE DEF c
<1>5. Coherent(c)
  BY <1>4, AlikeCoherent DEF Joint, Alike
<1>6. PlayOver(c)
  <2>1. fh.queue = <<>> => c.queue = <<>>
    BY <1>2 DEF StillQueued
  <2> QED
    BY <1>4, <2>1 DEF Prompting, PlayOver
<1>7. Lined(prompts', c.queue, heard \cup failed', hc')
  <2> DEFINE gone == heard \cup failed
             more == IF status = -1 THEN {fh.queue[r.index].n} ELSE {}
  <2>1. /\ fh.queue \in Seq(Items) /\ c.queue \in Seq(Items) /\ prompts \in Nat
        /\ hc \in SUBSET CacheRequests
    BY <1>4, CallAssumption DEF TypeOK, Sessions
  <2>2. Lined(prompts, fh.queue, gone, hc) /\ Differ(hc)
    BY DEF Prompting
  <2>3. heard \cup failed' = gone \cup more
    BY <1>3
  <2> HIDE DEF gone
  <2>4. Lined(prompts, c.queue, gone \cup more, hc \ {r})
    <3>1. AnsweredIn(fh.queue, c.queue, r.index, status)
      BY <1>4, <2>1 DEF AnsweredIn
    <3> QED
      BY <1>1, <2>1, <2>2, <3>1, MadeLined
  <2> QED
    BY <1>1, <2>3, <2>4
<1>8. Prepared(c)
  <2>1. \A n \in heard : 1..(n-1) \subseteq heard \cup failed'
    <3>1. failed \subseteq failed'
      BY <1>3
    <3> QED
      BY <3>1 DEF Prompting, PromptsInOrder
  <2>2. toServer \in Seq(Commands) /\ hc' \subseteq CacheRequests /\ prompts' \in Nat
    BY CallAssumption DEF TypeOK
  <2> QED
    BY <1>4, <1>5, <1>6, <1>7, <2>1, <2>2 DEF Prepared
<1>9. Prompted(c)
  BY <1>3, <1>8, DoPromptAndListenPrompted
<1>10. SentRightly(fh.queue)
  BY <1>4, <1>9 DEF Prompted, SentRightly
<1> QED
  BY <1>1, <1>9, <1>10 DEF Prompted, Advanced

LEMMA HttpCachePageAdvances ==
  ASSUME TypeOK, Joint, Prompting, fh.connected,
         NEW r \in hc, NEW status \in {-1, 0, 1}, HttpCachePage(r, status)
  PROVE  Advanced
<1>1. /\ r.type # "a" /\ hc' = hc \ {r} /\ r \in CacheRequests /\ interp # "ended"
      /\ UNCHANGED <<prompts, failed>>
  BY DEF HttpCachePage, Done, TypeOK, Joint, OneFetch
<1>2. \E reply : ReplyTo(HandOver(r, status), reply)
  BY <1>1 DEF HttpCachePage
<1>3. UNCHANGED <<toServer, heard>> /\ fh' = [HandOver(r, status) EXCEPT !.vxmlDoing = None]
  BY <1>2 DEF ReplyTo
<1>4. /\ fh'.queue = fh.queue /\ fh'.requested = fh.requested
      /\ fh'.vxmlDoing = None /\ fh'.satcDoing = fh.satcDoing
      /\ fh'.gotDtmf = fh.gotDtmf /\ fh'.timedOut = fh.timedOut
  BY <1>1, <1>3 DEF TypeOK, HandOver, Sessions
<1>5. PlayOver(fh')
  BY <1>4, SamePlayOver DEF Prompting
<1> QED
  BY <1>1, <1>3, <1>4, <1>5, IdleStep, QuietSends

LEMMA ServerAdvances ==
  ASSUME TypeOK, Prompting, fh.connected, Server \/ UNCHANGED vars
  PROVE  Advanced
<1>1. UNCHANGED <<fh, hc, heard, prompts, failed>>
  BY DEF Server, sessionVars, cacheVars, promptVars, vars
<1>2. ~Sends
  BY ServerSendsNothing, QuietSends DEF Server, vars, serverVars
<1> QED
  BY <1>1, <1>2, IdleStep DEF Prompting

\* Every step while the caller is there.
LEMMA ConnectedStep ==
  ASSUME TypeOK, TypeOK', Joint, Prompting, fh.connected, [Next]_vars
  PROVE  Advanced
<1>1. CASE InterpRequest
  <2>1. CASE \E t \in TermTimeouts, k \in TermChars : HandleRecognize(t, k)
    BY <2>1, RecognizeAdvances
  <2>2. CASE HandleExitval
    <3>1. /\ SendTo([fh EXCEPT !.vxmlDoing = "exitval"], Command("RETURNVAR", FALSE), {})
          /\ UNCHANGED <<prompts, failed, hc>>
      BY <2>2 DEF HandleExitval, cacheVars
    <3> QED
      BY <3>1, OwnCommandAdvances
  <2>3. CASE HandleDisconnect
    <3>1. /\ SendTo([fh EXCEPT !.connected = FALSE], Command("HANGUP", FALSE), {})
          /\ UNCHANGED <<prompts, failed, hc>>
      BY <2>3 DEF HandleDisconnect, cacheVars
    <3> QED
      BY <3>1, OwnCommandAdvances
  <2> QED
    BY <1>1, <2>1, <2>2, <2>3, CallRequestAdvances, EnqueueAdvances,
       OtherRequestAdvances, EndThreadAdvances
    DEF InterpRequest
<1>2. CASE HttpCacheDone
  BY <1>2, HttpCacheAudioAdvances, HttpCachePageAdvances DEF HttpCacheDone
<1> QED
  BY <1>1, <1>2, OtherRequestAdvances, SatcMessageAdvances, ServerAdvances DEF Next
-----------------------------------------------------------------------------
(* The other steps, and the theorems.                                       *)

\* A call that is gone plays nothing, and its prompts no longer fail.
LEMMA GoneKeepsPrompts ==
  ASSUME TypeOK, ~fh.connected, [Next]_vars
  PROVE  heard' = heard /\ failed' = failed
<1>1. \A c, reply : Quiet(c) \/ ReplyTo(c, reply) => heard' = heard
  BY DEF Quiet, ReplyTo
<1>2. \A c : ~c.connected /\ DoPromptAndListen(c) => heard' = heard
  BY <1>1 DEF DoPromptAndListen, MayAct
<1>3. CASE InterpRequest
  <2>1. CASE HandleExitval
    BY <2>1 DEF HandleExitval, SendTo
  <2>2. CASE \E t \in TermTimeouts, k \in TermChars : HandleRecognize(t, k)
    BY <1>1, <2>2 DEF HandleRecognize
  <2>3. CASE \/ HandlePlay \/ HandleGetLineStatus \/ HandleWait
             \/ HandleRecord \/ HandleTransfer \/ HandleDisconnect
    BY <1>1, <2>3 DEF HandlePlay, HandleGetLineStatus, HandleWait, HandleRecord,
                      HandleTransfer, HandleDisconnect
  <2>4. CASE \/ \E bargein \in BOOLEAN : HandleQueueAudio(bargein)
                                           \/ HandlePcmQueue(bargein)
             \/ HandleQueueDtmf
    <3>1. PICK item : Enqueue(item)
      BY <2>4 DEF HandleQueueAudio, HandlePcmQueue, HandleQueueDtmf
    <3> QED
      BY <3>1 DEF Enqueue, Quiet
  <2>5. CASE HandleHttpGet \/ HandleVxmlParse \/ EndThread
    BY <1>1, <2>5 DEF HandleHttpGet, HandleVxmlParse, EndThread, cacheVars, promptVars
  <2> QED
    BY <1>3, <2>1, <2>2, <2>3, <2>4, <2>5 DEF InterpRequest
<1>4. CASE SatcMessage
  <2>1. failed' = failed
    BY <1>4 DEF SatcMessage, SatcIgnored, SatcUnsupported, SatcGotdig, SatcPlayed,
                SatcTransfered, SatcRecorded, SatcReturnedvar,
                SatcHungupOrReleased, Receive, promptVars
  <2>2. CASE SatcGotdig \/ SatcPlayed
    <3>1. fromServer # <<>>
      BY <2>2 DEF SatcGotdig, SatcPlayed, Receive
    <3>2. ~Free.connected /\ ~KeyReceived.connected
      BY DEF TypeOK, Free, KeyReceived, Sessions
    <3>3. CASE SatcPlayed
      <4>1. DoPromptAndListen(Free) => heard' = heard
        BY <1>2, <3>2
      <4> QED
        BY <2>1, <3>3, <4>1 DEF SatcPlayed
    <3>4. CASE SatcGotdig
      <4>1. DoPromptAndListen(KeyReceived) => heard' = heard
        BY <1>2, <3>2
      <4> QED
        BY <1>1, <2>1, <3>4, <4>1 DEF SatcGotdig
    <3> QED
      BY <2>1, <2>2, <3>3, <3>4
  <2>3. CASE SatcIgnored
    BY <2>3 DEF SatcIgnored, promptVars
  <2>4. CASE SatcTransfered \/ SatcRecorded
    BY <1>1, <2>1, <2>4 DEF SatcTransfered, SatcRecorded
  <2>5. CASE SatcReturnedvar \/ SatcUnsupported \/ SatcHungupOrReleased
    BY <1>1, <2>1, <2>5 DEF SatcReturnedvar, SatcUnsupported, SatcHungupOrReleased
  <2> QED
    BY <1>4, <2>2, <2>3, <2>4, <2>5 DEF SatcMessage
<1>5. CASE HttpCacheDone
  BY <1>1, <1>5 DEF HttpCacheDone, HttpCacheAudio, HttpCachePage
<1>6. CASE InterpRead \/ Server \/ UNCHANGED vars
  BY <1>6 DEF InterpRead, Server, vars, promptVars
<1> QED
  BY <1>3, <1>4, <1>5, <1>6 DEF Next

\* A request that is sent has an id of its own.
LEMMA DifferStep ==
  ASSUME Differ(hc), [Next]_vars
  PROVE  Differ(hc')
<1>1. CASE hc' \subseteq hc
  BY <1>1 DEF Differ
<1>2. ASSUME FreshId, NEW r, r.id = nextId, hc' = hc \cup {r}
      PROVE  Differ(hc')
  BY <1>2 DEF Differ, FreshId
<1>3. CASE InterpRequest
  <2>1. ASSUME NEW bargein \in BOOLEAN, HandleQueueAudio(bargein)
        PROVE  Differ(hc')
    <3> DEFINE r == [id |-> nextId, type |-> "a", index |-> NextIndex]
    <3>1. FreshId /\ r.id = nextId /\ hc' = hc \cup {r}
      BY <2>1 DEF HandleQueueAudio
    <3> HIDE DEF r
    <3> QED
      BY <1>2, <3>1
  <2>2. CASE HandleHttpGet
    <3> DEFINE r == [id |-> nextId, type |-> "v", index |-> 0]
    <3>1. FreshId /\ r.id = nextId /\ hc' = hc \cup {r}
      BY <2>2 DEF HandleHttpGet
    <3> HIDE DEF r
    <3> QED
      BY <1>2, <3>1
  <2>3. CASE hc' = hc
    BY <1>1, <2>3
  <2> QED
    BY <1>3, <2>1, <2>2, <2>3
    DEF InterpRequest, HandlePlay, HandleGetLineStatus, HandleWait,
        HandleRecognize, HandleRecord, HandleTransfer, HandleExitval,
        HandleDisconnect, HandlePcmQueue, HandleQueueDtmf, HandleVxmlParse,
        EndThread, cacheVars
<1>4. CASE SatcMessage
  <2>1. hc' = hc
    BY <1>4 DEF SatcMessage, SatcIgnored, SatcUnsupported, SatcGotdig, SatcPlayed,
                SatcTransfered, SatcRecorded, SatcReturnedvar,
                SatcHungupOrReleased, Receive, cacheVars
  <2> QED
    BY <1>1, <2>1
<1>5. CASE HttpCacheDone
  BY <1>1, <1>5 DEF HttpCacheDone, HttpCacheAudio, HttpCachePage, Done
<1>6. CASE InterpRead \/ Server \/ UNCHANGED vars
  <2>1. hc' = hc
    BY <1>6 DEF InterpRead, Server, vars, cacheVars
  <2> QED
    BY <1>1, <2>1
<1> QED
  BY <1>3, <1>4, <1>5, <1>6 DEF Next

LEMMA PromptingStep ==
  ASSUME TypeOK, Joint, Prompting, [Next]_vars
  PROVE  Prompting'
<1>1. Differ(hc')
  BY DifferStep DEF Prompting
<1>2. CASE ~fh.connected
  <2>1. ~fh'.connected
    BY <1>2, GoneStep DEF LastWords, Server, sessionVars
  <2>2. heard' = heard /\ failed' = failed
    BY <1>2, GoneKeepsPrompts
  <2> QED
    BY <1>1, <2>1, <2>2 DEF Prompting, PromptsInOrder
<1>3. CASE fh.connected
  BY <1>1, <1>3, TypeStep, ConnectedStep DEF Advanced, Prompting
<1> QED
  BY <1>2, <1>3

LEMMA InitPrompting == Init => Prompting
<1> SUFFICES ASSUME Init PROVE Prompting
  OBVIOUS
<1>1. /\ fh.queue = <<>> /\ fh.vxmlDoing = None /\ fh.satcDoing = None
      /\ ~fh.gotDtmf /\ ~fh.timedOut /\ prompts = 0 /\ heard = {} /\ hc = {}
  BY DEF Init, Idle
<1>2. Len(<<>>) = 0 /\ DOMAIN <<>> = {} /\ 1..(0 - 0) = {}
  OBVIOUS
<1>3. Lined(prompts, fh.queue, heard \cup failed, hc)
  BY <1>1, <1>2 DEF Lined, Numbered, Covered, Awaited
<1>4. PlayOver(fh)
  BY <1>1 DEF PlayOver, None
<1> QED
  BY <1>1, <1>3, <1>4 DEF Prompting, PromptsInOrder, Differ

\* The inductive invariant: the queue is the tail of the prompts, what is not
\* in it was sent or failed, and requests and prompts know of each other; with
\* the prompts of a request done before anything else is sent for it.
THEOREM PromptsInLine == Spec => []PInv
<1>1. Init => PInv
  BY InitType, InitJoint, InitPrompting DEF PInv, IInv
<1>2. PInv /\ [Next]_vars => PInv'
  BY TypeStep, JointStep, PromptingStep DEF PInv, IInv
<1> QED
  BY <1>1, <1>2, PTL DEF Spec

\* No prompt overtakes another, in whatever order the http cache makes them
\* (do_prompt_and_listen and its scan of play_queued).
THEOREM PromptsSentInOrder == Spec => []PromptsInOrder
<1>1. PInv => PromptsInOrder
  BY DEF PInv, Prompting
<1> QED
  BY <1>1, PromptsInLine, PTL

\* No prompt is dropped while the caller is there, whatever is answered, made
\* or cleared (clear_play_and_rec, which empties play_queued).
THEOREM PromptsAreKept == Spec => []NoPromptLost
<1>1. PInv => NoPromptLost
  <2> SUFFICES ASSUME PInv, fh.connected, NEW n \in 1..prompts
               PROVE  n \in heard \cup failed \cup Numbers(fh.queue, DOMAIN fh.queue)
    BY DEF NoPromptLost
  <2> DEFINE q == fh.queue
  <2>1. /\ q \in Seq(Items) /\ prompts \in Nat
        /\ Lined(prompts, q, heard \cup failed, hc)
    BY CallAssumption DEF PInv, IInv, TypeOK, Sessions, Prompting
  <2> HIDE DEF q
  <2>2. Len(q) \in Nat /\ DOMAIN q = 1..Len(q) /\ Len(q) <= prompts
    BY <2>1, QueueItems DEF Lined, Numbered
  <2>3. CASE n <= prompts - Len(q)
    BY <2>1, <2>2, <2>3 DEF Lined, Covered
  <2>4. CASE n > prompts - Len(q)
    <3> DEFINE i == n - (prompts - Len(q))
    <3>1. i \in DOMAIN q /\ prompts - Len(q) + i = n
      BY <2>1, <2>2, <2>4
    <3> HIDE DEF i
    <3>2. q[i].n = n
      BY <2>1, <3>1 DEF Lined, Numbered
    <3> QED
      BY <3>1, <3>2 DEF Numbers, q
  <2> QED
    BY <2>1, <2>2, <2>3, <2>4
<1> QED
  BY <1>1, PromptsInLine, PTL

\* Every prompt the queue waits for is being made, and every answer of the
\* cache finds the prompt it is for (HC_request_id_info and the places it
\* keeps).  No url is both a prompt and a page that is parsed: else the cache
\* may ask for a prompt to be parsed, and that prompt waits for nothing.
THEOREM PromptsAreAwaited ==
  ASSUME 0 \notin AudioStatuses
  PROVE  Spec => []PromptsAwaited
<1>1. PInv => PromptsAwaited
  BY DEF PInv, Prompting, Lined, Awaited, PromptsAwaited, StillQueued
<1> QED
  BY <1>1, PromptsInLine, PTL

\* What a step sends is right for the prompts: proved of any step at once.
LEMMA SendingStep ==
  ASSUME PInv, [Next]_vars, Sends
  PROVE  \/ SentRightly(fh.queue) /\ prompts' \in {prompts, prompts + 1}
         \/ Sent.type = "RETURNVAR"
<1>1. CASE fh.connected
  BY <1>1, TypeStep, ConnectedStep DEF PInv, IInv, Advanced
<1>2. CASE ~fh.connected
  <2>1. TypeOK
    BY DEF PInv, IInv
  <2>2. LastWords
    BY <1>2, <2>1, GoneStep, ServerSendsNothing DEF Server
  <2>3. toServer' # toServer
    BY <2>1, QuietSends
  <2>4. PICK command \in Commands :
          command.type = "RETURNVAR" /\ toServer' = Append(toServer, command)
    BY <2>2, <2>3 DEF LastWords
  <2>5. Sent = command
    BY <2>1, <2>4 DEF Sent, TypeOK
  <2> QED
    BY <2>4, <2>5
<1> QED
  BY <1>1, <1>2

\* The keys of the caller stop a PLAY if and only if each of its prompts
\* allows that (the bargein test of the scan in do_prompt_and_listen).
THEOREM BargeinIsKept == Spec => BargeinKept
<1>1. PInv /\ [Next]_vars
        => [Sends /\ Sent.type = "PLAY" =>
              \A n \in heard' \ heard : \A i \in DOMAIN fh.queue :
                fh.queue[i].n = n => fh.queue[i].bargein = Sent.bargein]_vars
  BY SendingStep DEF SentRightly
<1> QED
  BY <1>1, PromptsInLine, PTL DEF Spec, BargeinKept

\* Listening, recording and transferring wait until no prompt is left
\* (do_prompt_and_listen, once play_requested is reset).
THEOREM PromptsComeFirst == Spec => PromptsFirst
<1>1. PInv /\ [Next]_vars
        => [Sends /\ Sent.type \in {"GETDIG", "RECORD", "TRANSFER"} =>
              1..prompts \subseteq heard \cup failed']_vars
  <2> SUFFICES ASSUME PInv, [Next]_vars, Sends,
                      Sent.type \in {"GETDIG", "RECORD", "TRANSFER"}
               PROVE  1..prompts \subseteq heard \cup failed'
    OBVIOUS
  <2>1. 1..prompts' \subseteq heard \cup failed' /\ prompts' \in {prompts, prompts + 1}
    BY SendingStep DEF SentRightly
  <2>2. prompts \in Nat
    BY CallAssumption DEF PInv, IInv, TypeOK
  <2> QED
    BY <2>1, <2>2
<1> QED
  BY <1>1, PromptsInLine, PTL DEF Spec, PromptsFirst
=============================================================================
