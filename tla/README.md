# voiceglue in TLA+

voiceglue answers telephone calls with VoiceXML pages.  `phoneglue` speaks
Asterisk's protocols on one side and SATC, a line protocol about calls, on the
other.  `voiceglue` is a SATC client: for each call it runs a thread of the
OpenVXI interpreter, carries the interpreter's requests to phoneglue one
command at a time, and has pages and prompts fetched by a child process that
caches them.

This directory holds TLA+ modules of those programs, the configurations that
check them with TLC, and proofs checked by TLAPS.  Every definition that stands
for code is listed with its lines in `PROJECT.json` (`map`); paths below are
relative to `src/`.

    tlasany VglueCall.tla                       parse
    tlc -config Calls.cfg MCVglueCall.tla       model-check one question
    tlapm VglueCallProofs.tla                   check the proofs

## 1. The system

### Components

| Component | Where | State | Modelled in |
|---|---|---|---|
| session of a call | `voiceglue/voiceglue` 142-203, 1381-2401, 2535-3603 | `$::Clients->{fh}`: `connected`, `satc_doing`, `vxml_doing`, `play_queued`, the `*_requested` flags, keys and timeouts; `HC_request_id_info`, `Next_hcrequest_id` | `VglueCall` |
| voiceglue's start, threads and stop | `voiceglue/voiceglue` 891-937, 1378-1555, 3606, 5641-5767, 6216 | `VXML_threads`, `Stop_requested`, `Finished`, `Callid_to_vxml_fh` | `VglueLifecycle` |
| http cache process | `voiceglue/voiceglue` 3814-5640 | `Hashname_to_cacheinfo`, `Request_spec`, `Pid_to_hashname`, parse trees by address | `HttpCache` |
| interpreter client library | `libvglue/*.cc` | one socket a thread, one blocking request at a time | `VglueCall`, `Grammars` |
| OpenVXI, the interpreter loops | `openvxi-3.4+vglue/src/VXI/VXI.cpp`, `Scripter.cpp` | execution contexts, scopes, `sdParams`, `sdResult`, `sdEvent`, the current item | `Interpreter` |
| OpenVXI, grammars, with main's table | `VXI/GrammarManager.cpp`, `libvglue/vglue_rec.cc`, `voiceglue/voiceglue` 3055-3250 | `GrammarInfo` lists, enabled flags; `gram_ids`, `gram_texts`, `gram_signals` | `Grammars` |
| OpenVXI, document parser | `VXI/DocumentParser.cpp`, `DocumentConverter.cpp` | the parse tree that is cached | who uses it, in `HttpCache` |
| phoneglue, a call | `phoneglue/phoneglue` 1160-3960, 4002-4390 | callobj: `client_doing`, `agi_doing`, `agifh`, `collected`, files, `vamd_state` | `PhoneglueCall`, seen from outside `SatcCall` |
| phoneglue, routing | `phoneglue/phoneglue` 716-840, 1715-1753, 2166-2271, 2375-2416, 2685-2909, 3079-3221, 3968-4303, 4785-5007 | `Registrations`, `Ct_Client_Fhs`, `Fh_to_clientobj`, `Callid_to_callobj`, `AstMgrInfo` (`callmaking`, `awaiting`, `received`) | `PhoneglueRouting` |
| encoding, sockets, DTMF matching, configuration, Perl glue, log server, SBinet, values and ECMAScript | `Satc`, `Cam-Scom`, `SRGSDTMF`, `Voiceglue-Conf`, `Vxglue`, `dynlog`, rest of `openvxi-3.4+vglue` | little or none | no (section 5) |

### How they interact

    caller -- Asterisk -- AGI/manager -- phoneglue -- SATC -- voiceglue main
                                                               |        |
                                              one socket per thread   pipes
                                                               |        |
                                                      interpreter    http cache
                                                        threads       |  fork
                                                                    children

* The interpreter's thread blocks in `voiceglue_getipcmsg` after most requests;
  the reply may come at once, when a SATC answer arrives, when the cache is
  done, or when the caller hangs up.
* voiceglue may have one SATC command in progress for a call.  phoneglue
  refuses a second one, and refuses any for a call it no longer knows.
* The http cache may ask the thread of any call that waits for a page to parse
  it, and all others wait for that thread's `VXMLParse`.
* phoneglue gives a call that comes in to a client that registered for its
  number, and a call it made to the client that asked for it.

### What is hard, and what makes a component correct

* **The session.**  Requests, SATC answers, finished prompts and hangups arrive
  in any order, and almost every handler may start the next command.  Correct:
  one command at a time and each answer taken for its own command; replies in
  step with requests; nothing of one recognition left for the next; prompts in
  order, each played once and none lost; bargein kept; no listening before the
  prompts are done; nothing sent for a call that is gone; every blocked
  interpreter answered in the end.
* **A call in phoneglue.**  AGI results do not say which command they are of;
  signals of the analyser interrupt a command by a redirect, which closes one
  connection and opens another.  Correct: it behaves as `SatcCall` does.
* **The http cache.**  Entries are shared by calls, moved on to fallbacks,
  revalidated, purged and parsed by one of the waiting calls.  Correct: every
  request is answered once, an item is fetched once at a time, a parse tree has
  one owner and is freed once.
* **The interpreter.**  Jumps, throws and returns end content anywhere, while
  scopes, contexts and the three `sd` members are changed by hand.  Correct:
  what a subdialog is given and returns reaches the item it is for; no scope
  outlives its dialog; a stop always ends the call.
* **Grammars.**  Two tables, of the interpreter and of main, change separately
  and name grammars by reused addresses.  Correct: main listens for what the
  page asks for at this item.
* **Routing.**  The report of a call being made, its connection, a time limit
  and its hangup come in any order, while clients die.  Correct: no call lost,
  told twice, or left with nobody.

The hazards, each at its line and with the properties that cover it, are in
`PROJECT.json` under `hazards`.


## 2. The modules

| Module | What it is |
|---|---|
| `SatcCall` | the abstract SATC server: what phoneglue promises one call |
| `VglueCall` | voiceglue's session of one call, its interpreter, the cache requests of the call; EXTENDS `SatcCall`, whose steps it composes with its own |
| `PhoneglueCall` | the same server from inside; EXTENDS `SatcCall` and is shown to keep it |
| `HttpCache` | the http cache process with main and the threads that ask; implements `HttpCacheContract` |
| `Interpreter` | the loops of OpenVXI; implements `SubdialogContract` |
| `Grammars` | the grammars of a call, in the interpreter and in main |
| `PhoneglueRouting`, `VglueLifecycle` | phoneglue between its clients and Asterisk, and voiceglue as one of these clients, which EXTENDS and composes it |
| `MC*` | the grammars, pages, commands and requests TLC uses |
| `VglueCallProofs`, `VglueCallSafety`, `VgluePrompts`, `PhoneglueCallProofs`, `InterpreterProofs`, `RoutingProofs`, `HttpCacheProofs`, `GrammarsProofs` | theorems |

### SatcCall

The two directions of the SATC connection are the queues `toServer` and
`fromServer`.  `live` is `defined $::Callid_to_callobj->{callid}`, `doing` is
`callobj.client_doing`.  `Accept` and `Refuse` are the two ways out of
`check_todo_telephony`; a refusal carries the callid of the call only for the
types `generic_ct_server_error_response` gives one (`NamesCall`), and a command
refused after the call is gone may be answered with another type than it would
have had (`RefusalType`).  `Complete` answers the command in progress in any way
the AGI result handlers can.  `HangUp` is the end of the AGI connection,
`Release` the RELEASE command.

### VglueCall

`fh` is the record of the session, with the fields of the code; a field that is
undefined in Perl is `None`, `FALSE` or empty.  `requested` holds the
`*_requested` flags, `queue` is `play_queued`, `hc` is `HC_request_id_info`.
`interp` says what the thread is at: `"running"`, one of the `Requests` it
blocks on, `"parsing"` a page handed to it without a parse tree, `"exiting"`,
`"ended"`.

Each handler is an action of the same name (`HandleRecognize` is
`handle_ovxi_recognize`, `SatcGotdig` is `handle_satc_gotdig`).  A handler
computes a new session record `c` and ends in one of `Quiet(c)`, `SendTo(c, ..)`
or `ReplyTo(c, ..)`; most pass it to `DoPromptAndListen(c)`, which is
`do_prompt_and_listen` branch by branch: `MatchDigits` when keys have been
pressed, `PlayPrompts` while prompts are left, `StartRequest` when they are done.

Some choices and why they are sound:

* A request is sent and handled in one step.  Nothing else reads the thread's
  socket and voiceglue handles one message at a time, so a request that lingers
  in the socket is indistinguishable from one that is sent later.
* `InterpRead` may consume several replies at once, because
  `voiceglue_getipcmsg` reads whatever the socket holds.
* A `queue` message with several items is several steps.  Nothing in the loop
  of `handle_ovxi_queue` looks at what other handlers change.
* `Match` stands for `check_rules_match` over the active grammars.  The
  requests that only change grammars are in `Grammars`; the other requests
  voiceglue answers at once with data (`builtin`, `getpcmpath`) are left out.
* In the branch for a match that can go no further, the code waits for a
  terminator when the field `terchar` is set.  Nothing sets it, so the branch is
  left out and `MatchDigits` says so.
* After a returned variable the interpreter sends only further returned
  variables and its end.
* Requests that voiceglue cannot read are left out: prompts in bad XML change
  nothing in the session, and a returned variable always comes as `name=value`
  (`openvxi-3.4+vglue/src/VXIclient/VXIvximain.c` 320-370).
* An interpreter thread that crashes, and a voiceglue that does, are not
  modelled: nothing is persistent about a call.

Bounds of the model, all constants: `MaxPrompts` (prompts a call queues in its
life) and `IdSpan` (http cache request ids before the counter wraps; 9000 in the
code).  `FreshId` leaves out a counter that has wrapped onto an id that is
outstanding.  `prompts`, `heard`, `failed` and `parsing` are history variables:
no action reads them except to number prompts.

### PhoneglueCall

`call` is the callobj (`agifh`, `agi_doing`, `collected`, `stopkeys`, the files
left to play, `vamd_state`, the AGI command queued behind a monitor).  `conn`
has one queue of results for each AGI connection the call has had; `toAgi` is
what the last of them was sent.  A result does not say which command it is of,
but the model notes it, so that taking it for another command's is visible.
`DoPlay`, `DoGetdig`, `DoRecord` and `DoOther` are the SATC commands, `PlayResult`
to `HangupResult` the branches of the AGI result handlers, `DialStatus` the
manager's, `VamdListens` and `VamdSignals` the analyser's.  `AgiRuns`, `Leaves` and
`Redirects` are Asterisk: a command is carried out or fails, and a redirect closes
one connection and opens another.

A command can fail with the result -1 (`KeysOf`, `MinusOne`), also when the caller
is there.  phoneglue takes this for a hangup when the command is PLAYFILE,
GETDIGIT or SENDDTMF ("Handle play failures as hangups", 3395; 3500, 3719), which
is `HangupResult`; of a RECORDFILE it is a failure, unless it comes with the comment
"hangup" (`RecordResult`).  RECOGNIZE (3448) does the same, but voiceglue never
sends it and it is not modelled.

A connection that nobody awaits is an incoming call, at once or after two seconds
in `received` (`Parks`, `ReceivedTimesOut`).  A second redirect leaves one behind
that has the Uniqueid of this call: `other` is what became of it, and once it is a
call of its own the connection this call waits for goes to it (`Reattaches`).
`again` is a history variable: a redirect was asked for while another was awaited.

Assumed: `toself` is configured (else no analyser runs), a monitor command does
not fail, and the client waits for an answer before it sends its next command,
though it may RELEASE at any time -- which is what `VglueCall` does.

`KeepsSatcCall` says that each step is one of `SatcCall`'s, seen through the
variables they share; an answer given where the command is read, and a recording
ended by a hangup, are two of its steps at once.  Two answers that `SatcCall` has
not are listed: `AnswerNoDigit`, to a GETDIG sent while the call is moved for an
earlier signal, and `AnswerOutOfStep`, a failure too many once the call has
dialed.  What is written to a connection that the call has left is lost (`Written`).  The branch that queues an analyser event that comes early
(4089) cannot be reached and is left out.

### HttpCache and HttpCacheContract

`cache` is the process: `entry` is `Hashname_to_cacheinfo` (status, requests that
wait, tree, whether it is being revalidated), `spec` is `Request_spec`, `jobs` is
`Pid_to_hashname`, `out` what it has written to main.  `HandleRequest`,
`HandleParsed`, `HttpCacheChildFinished` and `Purge` are its four events.  An
item is a URL, a URL that must not be cached, or a fallback, which the code gives
a hashname of its own each time because an argument is missing in the call.  The
thread of a request is named by the request, and so is the tree it makes.
`Parse`, `Load` and `ThreadDies` are threads; `MainDone` and `MainFree` are what
main does with what it reads, among them deleting a tree.

The cache does not know whether an entry it purges is still being fetched or
parsed; it goes by `last_used` alone (5545).  `FetchAssumption` says that a fetch
with its parse is over before that: a fetch takes 7 seconds by default
(`voiceglue/voiceglue` 65), an entry is kept for 10 at least.  The model has
`FetchTime` as a bound on `Tick`.

`HttpCacheContract` says what main relies on: a request is answered once, a tree
named in an answer is the cache's at that moment, and the cache tells once, for
a tree it owns, that it is to be freed.

### Interpreter and SubdialogContract

`exe` is the running execution context, `callers` are those behind `exe->next`.
`pc` says where the loops are: `install` and `outer` in `RunDocumentLoop`,
`init`, `inner`, `phase` and `next` in `RunInnerLoop`, `event` in `DoEvent`.  A
C++ exception is the outcome of the content that throws it (`Out(c, s, thrown)`);
`Caught` is the list of `catch` clauses, with what each resets.  `carried` is
`sdParams`, `sdResult` and `sdEvent`: for each the depth of the `<subdialog>`
that it concerns, which is what tells right from wrong.  Pages are data (which
items a dialog has, which root a document names); which content is where, which
condition holds and which handler is selected is chosen freely, so a run covers
every page of that shape.  A match of a form, or for an `<initial>`, may fill any of
its input items, and every `<initial>` of the form is done with when one is filled
(`ProcessFilledElements`).  What a default handler throws on the way to the first
document is caught where a jump of a page is (`HandleEvent`, site `"load"`).
`SubdialogContract` is a stack of documents that call each other.

`RequestStop` and `InsertEvent` are only called by applications that embed the
interpreter (`VXI_api.cpp` 257, 268); voiceglue has none that does.

### Grammars

`gm` and `callers` hold the `GrammarManager` of each context, `gram_ids`,
`gram_texts` and `gram_signals` are main's table.  A grammar goes by its address;
the model allocates the lowest free one, so that an address is reused as soon as
it can be.  Loading, enabling, disabling and releasing are loops in the code and
one step a grammar here, because main may start a command (`ActiveSignals`)
between two messages.

With nothing enabled a field is an error, but a recording or a transfer goes ahead
(`pc` is `"deaf"`), with whatever signals main has cached.  Those may be of a link
that was freed while it was active, because `HandleFreeGrammar` forgets none; so
`SignalsFresh` says of every state that the cached signals lack none of an active
grammar and have too many only of links, and that they are exact when something
listens.

### PhoneglueRouting and VglueLifecycle

`pg` is what phoneglue knows: the client objects `ct`, `registrations`,
`callobj`, the state of each AGI connection (`dump` while Asterisk tells about
the call, `parked` while it may be the leg of a call being made), and the
manager's tables `callmaking`, `awaiting`, `received`.  `batch` holds the
messages read from a client at once: the code handles all of them before it
looks at anything else, also those of a client that a failed write has removed
meanwhile.  A call, its connection and its channel have one name.  Clients other
than voiceglue do anything the protocol lets them, and may die.

`VglueLifecycle` adds voiceglue: `initialize_ctserver`, which decodes all the
lines it has read as one message; a thread for each call; the stop command; the
end with the last thread.  Runs begin in one of two states, so that the two
questions need not be multiplied: voiceglue begins and is alone, or it is not
there and others are connected, some of them serving calls.

A channel carries one call and one connection (redirects are `PhoneglueCall`'s);
the choice among clients by load is any client that matches; Asterisk reports
that a call was made before it reports its hangup; what voiceglue does when
phoneglue goes is left out.  Two branches of phoneglue are for what Asterisk does
not send, and are left out: a new AGI connection that names no caller or no
Uniqueid (3135), and an OriginateResponse that reports success without a Uniqueid
(4225).  One registration stands for those of the configuration, which voiceglue
makes one after the other, each with its answer (`voiceglue/voiceglue` 5694).

## 3. What TLC checks

| Run (`.cfg`) | Properties | What it shows |
|---|---|---|
| `prompts` (`Prompts`) | `PromptsInOrder`, `NoPromptLost`, `PromptsAwaited`, `BargeinKept`, `PromptsFirst` | prompts of every kind, made or failed in any order, while the call waits, listens or is transferred |
| `calls` (`Calls`) | `TypeOK`, `OneCommand`, `InStep`, `FreshWhenAnswered`, `NothingAfterDisconnect`, `RequestsAnswered`, `CallEnds`, `ParseReported` | every request against every order of answers, refusals and hangups |
| `phoneglue` (`Phoneglue`) | `TypeOK`, `AgiInStep`, `SignalsHeard`, `KeepsSatcCall`, `HungUpTruly`, `CommandsAnswered` | commands against AGI results, redirects, signals and hangups in any order |
| `httpcache_pages` (`HttpCachePages`) | `TypeOK`, `RequestsInOnePlace`, `TreesFreedOnce`, `OneFetchPerItem`, `KeepsContract` | one page shared by requests, refetched, purged, its threads dying |
| `httpcache_answers` (`HttpCacheAnswers`) | `RequestsAnswered` | pages and prompts, fallbacks, children and forks that fail |
| `interpreter` (`Interpreter`) | `TypeOK`, `ScopesNested`, `SubdialogMatched`, `StopEnds`, `KeepsContract` | pages that call subdialogs, with any content, events, stops, hangups |
| `grammars` (`Grammars`) | `ListensForItem`, `MatchFound`, `OneOwner`, `SignalsFresh` | main listens to exactly the grammars of the item |
| `routing` (`Routing`) | `CallsMatchClients`, `MakesInOnePlace`, `CallsServed`, `LegsReachTheirMaker`, `MakesAnswered`, `VoiceglueStops` | calls coming in and being made, clients that die, voiceglue's start and stop |
| `exitval`, `hungup`, `httpcache_stale`, `routing_dead` | one each | findings 1 to 4 |

Deadlock is not checked: calls end, and then nothing is left to do.

### Bounds

* `prompts`: three prompts and four ids, the fewest with which one prompt can
  overtake another while a third separates them by kind or bargein, and with
  which the ids wrap while a prompt is awaited.
* `calls`: two keys (one the terminator), all requests, one prompt and two ids,
  with whole recognitions repeated any number of times.  The grammar accepts `1`
  and `11`, which gives every verdict `Match` can have and an input that is a
  match, but not a complete one.  Also run once with two prompts and three ids
  (6.0 million states, no error), and `IInv` below in both.
* `phoneglue` (721 thousand states): nine commands, of every kind and with and
  without the key that is a signal; three of them in a call, so that one is
  interrupted, one comes while the call is moved and one after; two signals, the
  second of which may come before the call is back.
* `httpcache_pages`: three requests for one page -- one parses, one waits for
  it, one comes when it has been purged or has expired -- and four seconds, with
  every interval of the code one second.  `httpcache_answers`: two requests for
  a page and a prompt; what goes wrong for one of several requests that wait for
  an item goes wrong for two.
* `interpreter` (308 thousand states): two documents, one the root of the other,
  with an `<initial>` beside a field; two contexts, so that a subdialog can call,
  return to and be jumped out of; two rethrows; one external event.
* `grammars`: a leaf and its root with a grammar in every place a grammar can
  be, one with an expression that is loaded at each item, and ten addresses,
  which is what two contexts can hold.
* `routing` (290 thousand states): two channels, so that a call coming in and a
  call being made meet; one made call; a client that sends five requests, which
  is START, a registration with ALLOWIN, MAKECALL and one more; one url and one
  number, as only whether they match matters.

### Fairness

* `calls`: sockets are read as long as they hold something (`SatcMessage`,
  `InterpRead`: a select loop and a blocking read), the http cache and the server
  answer what they were asked (`HttpCacheDone`, `Answering`, `HangUpAsAsked`:
  GETDIG, RECORD, the AGI commands and the fetches all have a timeout or an end
  of their own), and a thread given a page to parse parses it.  Nothing makes a
  caller hang up, or an interpreter ask for anything or end.
* `phoneglue`: everything but what the client, the caller and the analyser do of
  themselves.
* `httpcache_answers`: children end (curl has a time limit), pipes are read, and
  a thread told to parse does; nothing makes time pass.
* `interpreter`: the thread goes on.  The loops never wait but for a recognition,
  which ends.  The formula says that one of the places of the loops changes
  again and again until the call is done, which is weak fairness of `Step`.
* `routing`: phoneglue and voiceglue handle what they are sent, Asterisk reports
  and connects the calls it makes and carries out hangups, interpreters end.  No
  caller need hang up and no client need ask for anything.

### Findings

1. **A thread can wait for ever for its returned variable** (`exitval`).  The
   comment at `voiceglue/voiceglue` 1750 says an interpreter that awaits a result
   must be responded to at a hangup; the code does so for four requests and not
   for `OVXI_EXITVAL`.  When the caller hangs up while the RETURNVAR is on its
   way, phoneglue's refusal names no call and is dropped.
2. **The server speaks of a call after HUNGUP** (`hungup`).  A command that
   crosses the hangup is refused with a message naming the callid, contrary to
   `Satc/lib/Satc.pm` 517.  voiceglue then answers its interpreter twice.  This
   is why the invariants about replies are stated for a connected call.
3. **A document may be copied from a tree that is gone** (`httpcache_stale`).
   `DocumentParser.cpp` 941 copies the tree its reply named some time after the
   reply; main deletes a tree as soon as the cache says so.
4. **A dead client can be registered for ever** (`routing_dead`).  phoneglue
   handles all messages it has read of a client, also those behind the one whose
   answer failed and removed the client; a REG among them registers it again.

Facts of the code met on the way, which the models keep and no run is about:

* phoneglue leaves a command unanswered when the caller leaves while the call is
  between two connections, when the analyser stops before it listens, when
  SETCALLERID is sent without a line end (1462), when a PLAYDIG is interrupted
  or the status of a second transfer comes before its result.  `Stranded` names
  them; `CommandsAnswered` says there are no others.
* A failed play, digit or sending of digits is taken for a hangup, as the comment
  at 3397 wants it: the client may be told of a hangup while the caller is there.
  `HungUpTruly` says for which result, and that no other does this.
* A redirect that is asked for while another is awaited -- a second signal before
  the call is back -- ends in a false hangup, which `HungUpTruly` excepts; `dialing` is never deleted, so after a transfer the status of a second
  one may answer it early, and from then on results are out of step:
  `AgiInStep`, `SignalsHeard` and `AnswerOutOfStep` say so.
* The name of the application is kept when its root document does not load
  (`VXI.cpp` 968), so that the next page that names it goes without.
* The cache's loop over Cache-Control tests the array and not the value
  (`voiceglue/voiceglue` 4197): no header matters.  So `Headers` only
  distinguishes answers with and without Last-Modified.
* STOPIN ends only the registrations made before ALLOWIN, and an UNREG after
  ALLOWIN is undone by the next one (`phoneglue/phoneglue` 2248).
* An INCOMING that is read together with ALLOWEDIN is swallowed, and a call whose
  thread cannot be started is left up; `CallsServed` excepts them (`unserved`).
* The terminator timeout is never used: `do_prompt_and_listen` tests `terchar`
  (2078), the recognition handler sets `termchar` (2970).

## 4. What is proved

All theorems hold for every value of the constants that satisfies the named
assumptions: `KeysAssumption` (no key is called `"none"` or `"timeout"`) and
`CallAssumption` for a call -- any grammar, number of prompts, span of ids,
keys, terminators and subset of requests; `PhoneglueAssumption` for a call in
phoneglue -- any commands, keys and signals; `InterpreterAssumption` for the
interpreter -- any documents, dialogs, items and depth of calls;
`GrammarsAssumption` for the grammars -- any documents, roots, links, items,
addresses and depth of subdialogs;
`RoutingAssumption` and `LifecycleAssumption` for routing -- any clients,
channels and numbers; `HttpCacheAssumption` for the cache -- any requests, pages,
results of children and faults, and any times that meet `FetchAssumption`.  The
last is a real restriction: a page may ask for a longer fetch, and with
`FetchTime` 2 and `PurgeUnused` 1 TLC finds `RequestsInOnePlace` violated (a
request that waited is lost with its entry, 5559).  Otherwise the assumptions say only what type a constant
has and that `None` is none of the things it stands beside.

| Module | Theorem | Property |
|---|---|---|
| `VglueCallProofs` | `TypeCorrect` | `TypeOK` |
| `VglueCallSafety` | `InductiveInvariant` | `IInv` |
| | `OneCommandAtATime` | `OneCommand` |
| | `RepliesInStep` | `InStep` |
| | `RequestsStartFresh` | `FreshWhenAnswered` |
| | `QuietAfterDisconnect` | `NothingAfterDisconnect` |
| `VgluePrompts` | `PromptsInLine` | `PInv` |
| | `PromptsSentInOrder` | `PromptsInOrder` |
| | `PromptsAreKept` | `NoPromptLost` |
| | `PromptsAreAwaited` | `PromptsAwaited` |
| | `BargeinIsKept` | `BargeinKept` |
| | `PromptsComeFirst` | `PromptsFirst` |
| `PhoneglueCallProofs` | `InStep` | `IInv` |
| | `TypeCorrect` | `TypeOK` |
| | `ResultsInStep` | `AgiInStep` |
| | `SignalsAreHeard` | `SignalsHeard` |
| | `HangupsAreTrue` | `HungUpTruly` |
| | `SatcCallKept` | `KeepsSatcCall` |
| `InterpreterProofs` | `TypeCorrect` | `TypeOK` |
| | `ScopesAreNested` | `ScopesNested` |
| | `SubdialogsMatch` | `SubdialogMatched` |
| | `ContractKept` | `KeepsContract` |
| `RoutingProofs` | `RoutingInvariant` | `IInv` |
| | `CallsAreMatched` | `CallsMatchClients` |
| | `LegsReachMakers` | `LegsReachTheirMaker` |
| | `CallsAreServed` | `CallsServed` |
| | `MakesAreInOnePlace` | `MakesInOnePlace` |
| `HttpCacheProofs` | `Inductive` | `IInv` |
| | `Typed` | `TypeOK` |
| | `InOnePlace` | `RequestsInOnePlace` |
| | `FreedOnce` | `TreesFreedOnce` |
| | `FetchedOnce` | `OneFetchPerItem` |
| | `ContractKept` | `KeepsContract` |
| `GrammarsProofs` | `Inductive` | `IInv` |
| | `ListensOnly` | `ListensForItem` |
| | `MatchIsFound` | `MatchFound` |
| | `OneOwnerKept` | `OneOwner` |
| | `SignalsAreFresh` | `SignalsFresh` |

### The session of a call

`TypeOK` is inductive as it stands.  There is one lemma for each way a handler
can end (`QuietType`, `SendToType`, `ReplyToType`), for each part of
`do_prompt_and_listen`, and for each kind of step; `TypeStep` collects them.

`OneCommand`, `InStep` and `FreshWhenAnswered` are not inductive, alone or
together.  An answer from the server is only safe to take because the command it
answers serves the request the interpreter is blocked on, and a prompt that is
made late is only harmless because what is flagged as requested belongs to that
request.  `IInv` says so:

* `Coherent(fh)`: the `*_requested` flags, the keys collected and `satc_doing`
  all belong to the request in `vxml_doing`;
* `Wire`: the command in `satc_doing` is in exactly one place -- on its way, in
  progress, or answered -- and the server names no call that is gone except
  behind a HUNGUP;
* `OneFetch`: the thread is alive and fetches one page at a time;
* `InStep` and `TypeOK`.

`Coherent` and `Wire` are only claimed while the call is connected; after the
hangup they fail (finding 2).  The argument: `DoPromptAndListenOutcome` shows
that from a coherent session `do_prompt_and_listen` leaves the request pending,
answers it with a reply of the right kind, or, if the server is free, sends one
command that serves it.  `ServerWire` handles the server's steps,
`ReceivedAnswer` what voiceglue may conclude from a message it takes, and one
lemma per handler carries that to `IInv'`.  `GoneStep` covers calls that are no
longer connected and gives `QuietAfterDisconnect` as well.

### The prompts of a call

What is heard depends on a queue whose items are made elsewhere, in any order,
while the scan of `do_prompt_and_listen` sends its ready head, skips what failed
and empties it at its end.  `PInv` of `VgluePrompts` is `IInv` with, while the
call is connected:

* `Numbered`, `Covered`: the queue is the tail of all prompts queued, and what
  is before it, or marked in it as played or failed, was sent or failed;
* `Awaited`: a prompt that is not made yet has a request to the cache, which
  knows it by its place and id, and every request for audio has its prompt;
  with `Differ`, ids tell requests apart;
* `PlayOver`: once a request has played (`play_requested` is reset) it has left
  no prompt, and only then are keys heard, digits asked for or a record begun.

The lemmas `..Lined` say what marking, ending, failing, queueing and answering
do to a queue; `..Advances` carry them through each handler.  `PromptsAreAwaited`
assumes `0 \notin AudioStatuses`, that is, no url is both a prompt and a page:
if one is, the cache may want the prompt parsed (`HttpCache` has this, and
`voiceglue/voiceglue:4231` is the hazard), and that prompt waits in vain.  The
other theorems do not assume it.  TLC checked `PInv` first, with and without
that status, and with more prompts than the runs have.

### A call in phoneglue

A result does not say of which command it is, so `AgiInStep` can only be
inductive together with where every command is.  `IInv` of `PhoneglueCallProofs`
has three parts:

* `Talk`: types of what is said to the client, who sends one command at a time
  (`Polite`); a call that is over keeps nothing (`Dead`);
* `Line`: a connection opens with INIT, which is read before the call uses it
  (`Openings`); a connection closes only when the caller is gone or the
  connection was left (`Hangups`);
* `InOrder`, until the call dials: the command in progress is on its way to
  Asterisk, or its result is on its way back, or it is lost with its connection
  (`Outstanding`); what runs on a connection that was left does so with the line
  copied if signals may end it (`LeftBehind`); a command put off while the
  monitor starts or stops is the one the client waits for (`Changing`), and the
  analyser is asked once (`Asking`).

One lemma per handler says what it does to the call, the lines and the client
(`..Does`), then `..InOrder` carries the invariant over it, for the actions of
phoneglue and those of Asterisk.  TLC checked `IInv` on the run's instance and
on larger ones first, which is how `AnswerOutOfStep` and the exception of
`SignalsHeard` were found: before that the run's bounds hid them.  `SatcCallKept`
is the refinement: each handler answers with `Complete` of `SatcCall`, from
which the client's variables take no other step.

`HangupsAreTrue` needs one more invariant, `MovedOnce`: as long as no redirect was
asked for while another was awaited, the call is on its last connection, or on its
way there and the INIT of that one is what it will read.  A close that phoneglue
reads is then of the last connection and the caller is gone (`Hangups`); a -1 it
reads is, by `InOrder`, of the command in progress, or the call has dialed.

### The interpreter

Where a parameter or a result belongs depends on where the loops are, and the
loops leave a place by any of the exceptions their content may throw.  So the
invariant `IInv` of `InterpreterProofs` says for each value of `pc` what the
running context and its callers look like and which of `sdParams`, `sdResult`
and `sdEvent` may be set, and for whom.  It implies the three invariants.

The lemmas follow the code: those called `..Ends` and `..Runs` say what each kind of content
may change and throw, `CaughtKeeps` what is true after whichever catch clause
takes it, and one lemma per action puts them together.  `Kept` uses the same
lemmas for the refinement: seen as a stack of documents, each step of the loops
is a step of `SubdialogContract` or changes nothing.  With the initial states
this is `ContractKept`.

### Routing

`CallsMatchClients` is not inductive: Asterisk opens a connection on an idle
channel, and phoneglue must not already know a call of that name.
`LegsReachTheirMaker` is about steps, and needs that a client with `toself` was
known to have it when its call was made and still has it when the leg connects.
`IInv` of `RoutingProofs` adds this:

* `Good(pg)`: the types of phoneglue's tables, and `Matches`, which is
  `CallsMatchClients` said of any state of its knowledge;
* `RequestWire`, `ClientWires`, `BatchTyped`, `AsteriskTyped`: what is on its
  way is well-formed, and a MAKECALL comes from the client it names;
* `Unused`: phoneglue knows nothing of an idle channel, which has no leg;
* `LegsKnown`: calls are made only for clients with `toself`, a channel is
  awaited only for its own leg, and a SUCCESS event names the leg.

phoneglue handles a batch of messages, or removes a client with all its calls,
in one step, which the model computes as a composition of changes of `pg`.  The
proofs follow that: `Fine(q)` says that `q` is good, follows `pg` and gives no
call to the wrong client, each handler is shown to keep it, and an action ends
in some fine `q`.

`CallsServed` is about a call that is said to be over too early: whatever
voiceglue forgets must be over for phoneglue, or about to be.  `Serving` adds to
`IInv` what voiceglue knows (`VglueKnows`): its requests, on their way or being
read, and the messages and threads it has are of channels phoneglue has told a
client of (`AsksOfKnown`, `TellsOfKnown`), so none is about a call yet to come;
and a call that is said to be over, or whose thread knows it, is over for
phoneglue too (`TellsOfKnown`, `SessionsKnown`).

`MakesInOnePlace` counts, in four tables of two processes and of Asterisk, where
a call being made is.  `Traced` says the same without counting, and where the
call can be in Asterisk besides: its request is in a wire (`Asked`, `Read`), at
most once (`Alone`); phoneglue knows that it is made (`Making`) exactly as long
as Asterisk dials it, has a leg that was not reported (`Answered`) or a report on
its way (`Reported`), and these exclude each other and `Awaited` (`Apart`);
nothing is known of a call not yet made (`Unmade`); and the client waits for it
exactly as long as it is somewhere (`Due`).  A step leaves a call where it is
(`StaysTracked`), moves it, or settles it (`SettledTracked`).

### The http cache

Where a request is depends on which entry it waits at, and an entry is changed
by requests, children, threads and the clock.  `IInv` of `HttpCacheProofs` is
`WorldTyped` and `Sound`, of which the parts are:

* `EntriesCoherent`: a request waits only while the entry is not there yet, and
  at the item it has come to; an entry that is not there yet was used less than
  `FetchTime` ago, so a purge leaves it (`FetchAssumption`);
* `FetchesCoherent`: a child fetches an item that is not there yet, and no other
  child fetches it;
* `SpecsCoherent`: what is left of a request is its item or its fallback, and no
  entry knows a fallback before its request comes to it, so `Join` and `Answer`
  are never taken for one;
* `ParserWaits`, `OneParser`: until the thread that was given a page to parse has
  reported, the page is kept as it was, without a tree, a child or another parser;
* `Placed`, `TreePlaced`: each request, and each tree, is in one place: with a
  thread, in a queue, in an entry, or gone.

The operations of the process are functions of its state, which the code calls
one from the other, and between two calls a request may be in no table at all.
So the lemmas `..Sound` carry `Sound(c, q, F)`, where `F` are the requests at
hand: `Placed` counts them as one place more.  The loops, over the requests that
wait (`AnswerAll`) and over the entries to purge (`RemoveEntries`), are recursive
functions, and go by induction over how far they have come (`UpTo`).

`ContractKept`: `Serves(c, P, R, d)` says what an operation may write: what was
written before is still there, new messages name only trees of `P`, and `d` has
only trees of `R`.  Every operation has a lemma `..Serves`; `ServeStep` concludes
from it, with `Placed` and `TreePlaced` before and after, that the step is
`Serve` of the contract.  What main reads is `Deliver`, what it writes `Ask`, and
threads and the clock stutter.  TLC checked `IInv` first on the instances of the
runs.

### The grammars of a call

`OneOwner` compares two tables at any moment, the others say what they are like
when a recognition starts, after three loops over the grammars of a page, each
of which may be left by an error.  `IInv` of `GrammarsProofs` is:

* `Tabled`: an info that names a grammar agrees with main's entry of it, text
  and status (`Agrees`); an info of a page names one unless its source is an
  expression and it is not enabled (`Made`); each entry is named once, in one
  context (`Owned`); and the contexts that wait have nothing enabled (`Quiet`);
* `Recorded`: each entry is in `gram_texts` under its text;
* `Phase`: how far a loop has come.  Below `at` `DisableAllGrammars` has left
  nothing enabled; above it `EnableGrammars` has enabled what the item asks for
  and nothing else (`EnabledFrom`), and a context is only left for a subdialog,
  or loaded, with nothing enabled;
* `Signalled`: the cached signals are those of the active grammars, unless none
  is active or grammars are being released: links are released without being
  disabled, and `HandleFreeGrammar` forgets no signals.  Once all are released
  nothing is active, and to activate a grammar forgets what was cached.

`Signalled` gives the signals of an item that listens.  What holds of the cached
signals everywhere else is a second invariant, `Covered`: they lack none of the
active grammars, and those too many are of links.  `NextCovered` proves it, with
`IInv`, from what each of main's handlers does to the table; together they are
`SignalsAreFresh`.

Each operation changes one info and at most one entry.  `SlotKeeps` proves
`Tabled` for all of them, from what main did (`Moved`: it forgot the old name and
learned the new one); the lemmas `..Does` say this of main's handlers, and
`PageShrinks`, `PageGrows` and `PageBecomes` of the lists, with their like for
links.  `PopKeeps` and `PushKeeps` are for contexts.  TLC checked `IInv` first, on
the run's instance and on one with more grammars, links, items and contexts.

### Only model-checked

All liveness, as fairness and ENABLED are out of the prover's reach
(`RequestsAnswered` of the cache among it).

## 5. What is not modelled, and why

Most of the lines of the repository are OpenVXI: an XML schema as a string,
parsers, a binding to an ECMAScript engine, values, HTTP streams and caches that
voiceglue does not use, logging and a client shell.  They convert data or wrap
libraries, and what state they have is no one else's.  The models therefore
stand for a small share of the lines, the ones that keep state between events.

* **Data.**  The SATC encoding (`Satc`), the translation of grammars to regular
  expressions (`SRGSDTMF`; its verdict is the parameter `Match`), ECMAScript
  values and conditions (chosen freely), the conversion of pages.
* **Plumbing.**  `Cam::Scom` is taken for FIFO sockets; `Vxglue` and `dynlog`
  have no state that matters; `Voiceglue::Conf` reads a file once.
* **SBinet and SBcache.**  `SBinetChannel::open` goes to voiceglue, and the
  cache is switched off (`openvxi-3.4+vglue/src/inet/SBinetChannel.cpp`).
* **In phoneglue**: bridges, conferences, speech recognition, requests to stop
  a command, clearing digits.  voiceglue sends none of them.
* **In OpenVXI**: the prompts inside the interpreter, counters of events and the
  selection of handlers (any handler may be chosen), `<data>`, marks.
* **Several calls in one `VglueCall`.**  Sessions share only the http cache,
  which `HttpCache` has with several requests, and the id counter.
* **Records** on disk, the choice of a client by load, what voiceglue does when
  phoneglue ends.
* **Crashes.**  Nothing is kept across one: a program that starts again knows no
  call.  The end of a client of phoneglue, of a child of the cache and of an
  interpreter thread are modelled.
