----------------------------- MODULE VglueCall -----------------------------
(***************************************************************************)
(* voiceglue's session for one call: the record it keeps for the VXML      *)
(* interpreter of the call (an entry of $::Clients), the interpreter's     *)
(* requests and the replies it waits for, the SATC commands that carry the *)
(* requests to phoneglue, and the http cache requests for prompts and      *)
(* pages.                                                                  *)
(*                                                                         *)
(* An interpreter request is sent and handled in one step: nothing else    *)
(* reads that socket and voiceglue handles one message at a time, so a     *)
(* request that lingers in the socket is a request sent later.  Replies    *)
(* and both directions of the SATC connection are queues.                  *)
(*                                                                         *)
(* Grammars are those of one form: Match is check_rules_match over the     *)
(* active ones.  Which signal characters they ask for is left out.         *)
(***************************************************************************)
EXTENDS SatcCall

CONSTANTS
  Match(_),       \* keys collected -> -1 no match, 0 partial, 1 match, 2 match
                  \* that no further key can extend
  MaxPrompts,     \* prompts a call may queue (bound of the model)
  IdSpan,         \* http cache request ids before Next_hcrequest_id wraps
  Asked,          \* the requests its pages make the interpreter send
  TermChars,      \* termchar properties the pages use; None is the empty one
  TermTimeouts,   \* termtimeout properties the pages use, in ms
  AudioStatuses   \* what the http cache can say of an audio request

\* The requests that block the interpreter until voiceglue replies, and the
\* ones among them that voiceglue remembers as vxml_doing.
Requests == {"play", "getlinestatus", "wait", "recognize", "record",
             "transfer", "httpget", "exitval"}
Pending  == {"wait", "recognize", "record", "transfer", "exitval"}

ASSUME CallAssumption ==
  /\ MaxPrompts \in Nat
  /\ IdSpan \in Nat \ {0}
  /\ Asked \subseteq Requests
  /\ TermChars \subseteq Keys \cup {None}
  /\ TermTimeouts \subseteq Nat
  /\ AudioStatuses \subseteq {-1, 0, 1}

VARIABLES
  fh,             \* the session: $::Clients->{fh} of the interpreter
  interp,         \* what the interpreter thread is at
  replies,        \* messages to the interpreter it has not read
  hc,             \* HC_request_id_info: the outstanding http cache requests
  nextId,         \* Next_hcrequest_id
  prompts,        \* history: how many prompts the interpreter has queued
  heard,          \* history: the prompts that were sent to be played
  failed,         \* history: the prompts the http cache could not make
  parsing         \* history: ids whose parse the interpreter was asked for
                  \* and the http cache has not been told about

sessionVars == <<fh, interp, replies>>
cacheVars   == <<hc, nextId, parsing>>
promptVars  == <<prompts, heard, failed>>
vars == <<serverVars, sessionVars, cacheVars, promptVars>>

NoId == 0

ReplyKinds == {"Played", "LineStatus", "Waited", "Recognized", "Recorded",
               "Transferred", "Transfered", "path", "exitedval"}

ReplyResults == {None, "connected", "hungup", "match", "nomatch", "noinput",
                 "failure", "parse", "ready"}

Reply(kind, result) == [kind |-> kind, result |-> result]

Idle == [connected |-> FALSE, satcDoing |-> None, vxmlDoing |-> None,
         queue |-> <<>>, requested |-> {}, gotDtmf |-> FALSE,
         digits |-> <<>>, timedOut |-> FALSE, gotTermchar |-> FALSE,
         termtimeout |-> 0, termchar |-> None, fetchId |-> NoId]

Init ==
  /\ ServerInit
  /\ fh = [Idle EXCEPT !.connected = TRUE]
  /\ interp = "running"
  /\ replies = <<>>
  /\ hc = {}
  /\ nextId = 1
  /\ prompts = 0
  /\ heard = {}
  /\ failed = {}
  /\ parsing = {}

-----------------------------------------------------------------------------
(* What a handler does with the session record c it has computed: keep it,  *)
(* send the server a command, or reply to the interpreter.                  *)

Quiet(c) ==
  /\ fh' = c
  /\ UNCHANGED <<toServer, replies, heard>>

\* bargein: whether the keys of the caller stop a PLAY (FALSE for the others).
Command(type, bargein) == [type |-> type, bargein |-> bargein]

SendTo(c, command, played) ==
  /\ fh' = [c EXCEPT !.satcDoing = command.type]
  /\ toServer' = Append(toServer, command)
  /\ heard' = heard \cup played
  /\ UNCHANGED replies

\* Mutant of ReplyTo: vxml_doing outlives the reply.
ReplyToStillDoing(c, reply) ==
  /\ fh' = c
  /\ replies' = Append(replies, reply)
  /\ UNCHANGED <<toServer, heard>>

ReplyTo(c, reply) ==
  /\ fh' = [c EXCEPT !.vxmlDoing = None]
  /\ replies' = Append(replies, reply)
  /\ UNCHANGED <<toServer, heard>>

\* Mutant of ClearPlayAndRec: the terminator is left for the next recognition.
ClearAllButTermchar(c) ==
  [c EXCEPT !.queue = <<>>, !.requested = @ \cap {"transfer"},
            !.gotDtmf = FALSE, !.digits = <<>>, !.timedOut = FALSE]

\* A transfer that was requested is not forgotten here.
ClearPlayAndRec(c) ==
  [c EXCEPT !.queue = <<>>, !.requested = @ \cap {"transfer"},
            !.gotDtmf = FALSE, !.digits = <<>>,
            !.timedOut = FALSE, !.gotTermchar = FALSE]

-----------------------------------------------------------------------------
(* The prompt queue.                                                        *)

Ready(item) == item.status = 1

\* Mutants of Stops: a prompt that is not made yet is skipped; prompts of
\* either bargein are played together.
StopsIfReady(q, i) ==
  /\ Ready(q[i])
  /\ \/ q[i].type = "dtmf"
     \/ \E j \in 1..(i-1) : Ready(q[j]) /\ q[j].bargein # q[i].bargein
StopsUnlessAudio(q, i) == 
  \/ q[i].status = 0
  \/ Ready(q[i]) /\ q[i].type = "dtmf"

\* The scan of the queue cannot go past item i: its audio is still being
\* made, it is DTMF to play, or its bargein differs from the audio before it.
Stops(q, i) ==
  \/ q[i].status = 0
  \/ /\ Ready(q[i])
     /\ \/ q[i].type = "dtmf"
        \/ \E j \in 1..(i-1) : Ready(q[j]) /\ q[j].bargein # q[i].bargein

Reached(q, i) == \A j \in 1..(i-1) : ~Stops(q, j)

\* Mutants of ReachesEnd: DTMF and bargein do not keep the queue; nothing ready
\* counts as nothing left.
ReachesEndWhenMade(q) == \A j \in DOMAIN q : q[j].status # 0
ReachesEndOfReady(q)  == \A j \in DOMAIN q : ~Ready(q[j])

ReachesEnd(q) == \A j \in DOMAIN q : ~Stops(q, j)

\* The audio one PLAY takes, and DTMF that is first in line.
Batch(q) == {i \in DOMAIN q : Ready(q[i]) /\ Reached(q, i) /\ ~Stops(q, i)}
FirstDtmf(q) ==
  IF Batch(q) # {} THEN {}
  ELSE {i \in DOMAIN q : Ready(q[i]) /\ Reached(q, i) /\ q[i].type = "dtmf"}

Numbers(q, indices) == {q[i].n : i \in indices}
MarkPlayed(q, indices) ==
  [i \in DOMAIN q |-> IF i \in indices THEN [q[i] EXCEPT !.status = 2] ELSE q[i]]

DonePrompts(c) == [c EXCEPT !.queue = <<>>, !.requested = @ \ {"play"}]

-----------------------------------------------------------------------------
(* do_prompt_and_listen, over the session record c of its caller.           *)

GetOneDigit(c) == SendTo(c, Command("GETDIG", FALSE), {})

\* Keys have been pressed.  The terminator timeout of a match that is
\* complete is never waited for: the test of the terminator reads the field
\* terchar, which nothing sets.
MatchDigits(c) ==
  LET match   == Match(c.digits)
      over    == c.timedOut \/ c.gotTermchar
      matched == match = 2 \/ (match = 1 /\ over)
  IN
  \/ /\ matched
     /\ ReplyTo(ClearPlayAndRec(c), Reply("Recognized", "match"))
  \/ /\ ~matched
     /\ over \/ match = -1
     /\ ReplyTo(ClearPlayAndRec(c), Reply("Recognized", "nomatch"))
  \/ /\ ~matched
     /\ ~over
     /\ match # -1
     /\ GetOneDigit(c)

\* The prompts are done: answer the wait, or start what the prompts led to.
StartRequest(c) ==
  \/ /\ "wait" \in c.requested
     /\ ReplyTo(ClearPlayAndRec(c), Reply("Waited", None))
  \/ /\ "wait" \notin c.requested
     /\ "recognize" \in c.requested
     /\ GetOneDigit(c)
  \/ /\ c.requested \cap {"wait", "recognize"} = {}
     /\ "record" \in c.requested
     /\ SendTo(c, Command("RECORD", FALSE), {})
  \/ /\ c.requested \cap {"wait", "recognize", "record"} = {}
     /\ "transfer" \in c.requested
     /\ SendTo(c, Command("TRANSFER", FALSE), {})
  \/ /\ c.requested \cap {"wait", "recognize", "record", "transfer"} = {}
     /\ Quiet(c)

\* A play is pending: send the audio that is ready, else DTMF, else wait for
\* the http cache, else go on.
PlayPrompts(c) ==
  LET q     == c.queue
      batch == Batch(q)
      dtmf  == FirstDtmf(q)
      audio == [c EXCEPT !.queue = MarkPlayed(q, batch)]
  IN
  \/ /\ batch # {}
     /\ SendTo(IF ReachesEnd(q) THEN DonePrompts(c) ELSE audio,
               Command("PLAY", \E i \in batch : q[i].bargein),
               Numbers(q, batch))
  \/ /\ dtmf # {}
     /\ SendTo([c EXCEPT !.queue = MarkPlayed(q, dtmf)],
               Command("PLAYDIG", FALSE), Numbers(q, dtmf))
  \/ /\ batch = {} /\ dtmf = {} /\ ~ReachesEnd(q)
     /\ Quiet(c)
  \/ /\ ReachesEnd(q) /\ batch = {}
     /\ StartRequest(DonePrompts(c))

\* Mutant of MayAct: a caller who is gone is not noticed.
MayActIfFree(c) == c.satcDoing = None

\* The caller is there and the server is doing nothing for the call.
MayAct(c) == c.connected /\ c.satcDoing = None

DoPromptAndListen(c) ==
  \/ ~MayAct(c) /\ Quiet(c)
  \/ /\ MayAct(c)
     /\ c.timedOut /\ ~c.gotDtmf
     /\ ReplyTo(ClearPlayAndRec(c), Reply("Recognized", "noinput"))
  \/ MayAct(c) /\ c.gotDtmf /\ MatchDigits(c)
  \/ /\ MayAct(c)
     /\ ~c.timedOut /\ ~c.gotDtmf
     /\ IF "play" \in c.requested THEN PlayPrompts(c) ELSE StartRequest(c)

-----------------------------------------------------------------------------
(* Requests of the interpreter.                                             *)

\* A step of the interpreter thread that sends a request, and of voiceglue
\* that handles it: the SATC server and what it has sent are left alone.
Request(from, to) ==
  /\ interp \in from
  /\ to \in Asked \cup {"running", "ended"}
  /\ interp' = to
  /\ UNCHANGED <<fromServer, live, doing>>

\* Replied to at once with what is known.
HandlePlay ==
  /\ Request({"running"}, "play")
  /\ ReplyTo(fh, Reply("Played", None))
  /\ UNCHANGED <<cacheVars, prompts, failed>>

HandleGetLineStatus ==
  /\ Request({"running"}, "getlinestatus")
  /\ ReplyTo(fh, Reply("LineStatus",
                       IF fh.connected THEN "connected" ELSE "hungup"))
  /\ UNCHANGED <<cacheVars, prompts, failed>>

\* The answer a request gets when the caller is gone.
Disconnected(request) ==
  CASE request = "wait"      -> Reply("Waited", None)
    [] request = "recognize" -> Reply("Recognized", "noinput")
    [] request = "record"    -> Reply("Recorded", "failure")
    [] request = "transfer"  -> Reply("Transfered", None)

\* A request that comes with a play of what is queued before it.
StartPending(c, request) ==
  DoPromptAndListen([c EXCEPT !.requested = @ \cup {"play", request},
                              !.vxmlDoing = request])

HandleWait ==
  /\ Request({"running"}, "wait")
  /\ IF fh.connected /\ fh.queue # <<>>
     THEN StartPending(fh, "wait")
     ELSE ReplyTo(fh, Reply("Waited", None))
  /\ UNCHANGED <<cacheVars, prompts, failed>>

HandleRecognize(termtimeout, termchar) ==
  /\ Request({"running"}, "recognize")
  /\ IF fh.connected
     THEN StartPending([fh EXCEPT !.termtimeout = termtimeout,
                                  !.termchar = termchar], "recognize")
     ELSE ReplyTo(fh, Disconnected("recognize"))
  /\ UNCHANGED <<cacheVars, prompts, failed>>

HandleRecord ==
  /\ Request({"running"}, "record")
  /\ IF fh.connected
     THEN StartPending(fh, "record")
     ELSE ReplyTo(fh, Disconnected("record"))
  /\ UNCHANGED <<cacheVars, prompts, failed>>

HandleTransfer ==
  /\ Request({"running"}, "transfer")
  /\ IF fh.connected
     THEN StartPending(fh, "transfer")
     ELSE ReplyTo(fh, Disconnected("transfer"))
  /\ UNCHANGED <<cacheVars, prompts, failed>>

\* A returned variable goes to the server whether or not the call is still
\* connected.  The interpreter has finished the page and does nothing else.
HandleExitval ==
  /\ Request({"running", "exiting"}, "exitval")
  /\ SendTo([fh EXCEPT !.vxmlDoing = "exitval"],
            Command("RETURNVAR", FALSE), {})
  /\ UNCHANGED <<cacheVars, prompts, failed>>

HandleDisconnect ==
  /\ Request({"running"}, "running")
  /\ IF fh.connected
     THEN SendTo([fh EXCEPT !.connected = FALSE], Command("HANGUP", FALSE), {})
     ELSE Quiet(fh)
  /\ UNCHANGED <<cacheVars, prompts, failed>>

\* Mutant of AdvanceId: the counter does not come round.
AdvanceIdForever == nextId' = nextId + 1

\* The request ids of all the calls come from one counter.  The model leaves
\* out a counter that has come round to a request still outstanding.
FreshId == \A r \in hc : r.id # nextId
AdvanceId == nextId' = IF nextId + 1 > IdSpan THEN 1 ELSE nextId + 1

\* The place the next prompt takes in play_queued; a mutant that reads it once
\* the prompt is in.
IndexAfterPush == Len(fh.queue) + 2
NextIndex      == Len(fh.queue) + 1

Enqueue(item) ==
  /\ prompts < MaxPrompts
  /\ prompts' = prompts + 1
  /\ Quiet([fh EXCEPT !.queue = Append(@, item)])
  /\ UNCHANGED <<failed, parsing>>

Item(type, bargein, status, request) ==
  [n |-> prompts + 1, type |-> type, bargein |-> bargein, status |-> status,
   request |-> request]

\* One audio item of a queue message: the http cache is asked to make it.
HandleQueueAudio(bargein) ==
  /\ Request({"running"}, "running")
  /\ FreshId
  /\ Enqueue(Item("audio", bargein, 0, nextId))
  /\ hc' = hc \cup {[id |-> nextId, type |-> "a", index |-> NextIndex]}
  /\ AdvanceId

\* One DTMF item: ready at once, with no bargein of its own.  It takes an id.
HandleQueueDtmf ==
  /\ Request({"running"}, "running")
  /\ Enqueue(Item("dtmf", FALSE, 1, NoId))
  /\ AdvanceId
  /\ UNCHANGED hc

\* Audio the interpreter already has on disk.
HandlePcmQueue(bargein) ==
  /\ Request({"running"}, "running")
  /\ Enqueue(Item("audio", bargein, 1, NoId))
  /\ UNCHANGED <<hc, nextId>>

HandleHttpGet ==
  /\ Request({"running"}, "httpget")
  /\ FreshId
  /\ hc' = hc \cup {[id |-> nextId, type |-> "v", index |-> 0]}
  /\ AdvanceId
  /\ Quiet(fh)
  /\ UNCHANGED <<parsing, prompts, failed>>

\* The interpreter parsed the page it was given with no parse tree.
HandleVxmlParse ==
  /\ Request({"parsing"}, "running")
  /\ Quiet([fh EXCEPT !.fetchId = NoId])
  /\ parsing' = parsing \ {fh.fetchId}
  /\ UNCHANGED <<hc, nextId, prompts, failed>>

\* A call that is still connected is released; a mutant that leaves it.
LeaveCallAlone == <<>>
LeaveCall == IF fh.connected THEN <<Command("RELEASE", FALSE)>> ELSE <<>>

\* The interpreter thread ends (clean_up_stopped_vxml_thread, remove_client):
\* the session is gone.
EndThread ==
  /\ Request({"running", "exiting"}, "ended")
  /\ fh' = Idle
  /\ replies' = <<>>
  /\ toServer' = toServer \o LeaveCall
  /\ UNCHANGED <<cacheVars, promptVars>>

\* voiceglue_getipcmsg takes whatever the socket holds, up to the end of a
\* message: several replies are read as one, which looks like the first.  The
\* later ones may also still be on their way.
InterpRead ==
  /\ interp \in Requests
  /\ \E k \in 1..Len(replies) : replies' = SubSeq(replies, k + 1, Len(replies))
  /\ interp' =
       CASE interp = "exitval" -> "exiting"
         [] interp = "httpget" /\ Head(replies) = Reply("path", "parse")
                             -> "parsing"
         [] OTHER            -> "running"
  /\ UNCHANGED <<serverVars, fh, cacheVars, promptVars>>

-----------------------------------------------------------------------------
(* Messages of the SATC server.                                             *)

\* Take the next message, of one of these types, that names a call with a
\* session: the server is no longer doing a command for the call.
Receive(types) ==
  /\ fromServer # <<>>
  /\ Head(fromServer).type \in types
  /\ Head(fromServer).known
  /\ interp # "ended"
  /\ fromServer' = Tail(fromServer)
  /\ UNCHANGED <<live, doing, interp, cacheVars, prompts, failed>>

Received == Head(fromServer)

\* Mutant of Free: satc_doing outlives the answer.
FreeStillDoing == fh
Free == [fh EXCEPT !.satcDoing = None]

\* Nothing but the log hears of a message for a call with no session, one that
\* names no call, and the types handle_msg_from_ct_server does not handle.
SatcIgnored ==
  /\ fromServer # <<>>
  /\ interp = "ended" \/ ~Received.known
  /\ fromServer' = Tail(fromServer)
  /\ UNCHANGED <<toServer, live, doing, sessionVars, cacheVars, promptVars>>

SatcUnsupported == Receive({"BRIDGED", "RELEASE"}) /\ Quiet(Free)

\* The session with the key, the terminator or the timeout the server reports.
KeyReceived ==
  IF Received.key = "timeout" THEN [Free EXCEPT !.timedOut = TRUE]
  ELSE IF Received.key = fh.termchar
  THEN [Free EXCEPT !.gotDtmf = TRUE, !.gotTermchar = TRUE]
  ELSE [Free EXCEPT !.gotDtmf = TRUE, !.digits = Append(@, Received.key)]

SatcGotdig ==
  /\ Receive({"GOTDIG"})
  /\ IF ~Received.ok
     THEN ReplyTo(ClearPlayAndRec(Free), Reply("Recognized", "failure"))
     ELSE DoPromptAndListen(KeyReceived)

\* The result of a PLAY or a PLAYDIG is not looked at.
SatcPlayed == Receive({"PLAYED", "PLAYEDDIG"}) /\ DoPromptAndListen(Free)

SatcTransfered ==
  /\ Receive({"TRANSFERED"})
  /\ ReplyTo([Free EXCEPT !.requested = @ \ {"transfer"}],
             Reply("Transferred", None))

SatcRecorded ==
  /\ Receive({"RECORDED"})
  /\ ReplyTo(ClearPlayAndRec(Free),
             Reply("Recorded", IF Received.ok THEN "ready" ELSE "failure"))

SatcReturnedvar ==
  Receive({"RETURNEDVAR"}) /\ ReplyTo(Free, Reply("exitedval", None))

\* The requests a hangup answers; a mutant with the list of the comment at 1752.
AnsweredByComment == {"wait", "recognize", "transfer"}
AnsweredAtHangup  == {"wait", "recognize", "record", "transfer"}

\* A record in progress is answered with neither a result nor a file.
HangupReply(request) ==
  IF request = "record" THEN Reply("Recorded", None) ELSE Disconnected(request)

\* The caller is gone: an interpreter that waits for the call is answered,
\* except one that waits for a returned variable.
SatcHungupOrReleased ==
  LET gone == [Free EXCEPT !.connected = FALSE]
  IN
  /\ Receive({"HUNGUP", "RELEASED"})
  /\ IF fh.vxmlDoing \in AnsweredAtHangup
     THEN ReplyTo(gone, HangupReply(fh.vxmlDoing))
     ELSE Quiet(gone)

SatcMessage ==
  \/ SatcIgnored \/ SatcUnsupported \/ SatcGotdig \/ SatcPlayed
  \/ SatcTransfered \/ SatcRecorded \/ SatcReturnedvar
  \/ SatcHungupOrReleased

-----------------------------------------------------------------------------
(* Messages of the http cache: "done id status" for a request.  Status 0     *)
(* asks for the page to be parsed.                                          *)

Done(r) ==
  /\ r \in hc
  /\ hc' = hc \ {r}
  /\ UNCHANGED <<fromServer, live, doing, interp, nextId, prompts>>

\* The audio item the request was made for, if it is still where it was.
StillQueued(r) ==
  /\ r.index \in DOMAIN fh.queue
  /\ fh.queue[r.index].request = r.id

\* The session with the prompt of the request made, or not.
Made(r, status) == [fh EXCEPT !.queue[r.index].status = status,
                              !.queue[r.index].request = NoId]

HttpCacheAudio(r, status) ==
  /\ Done(r)
  /\ r.type = "a"
  /\ status \in AudioStatuses
  /\ UNCHANGED parsing
  /\ IF interp # "ended" /\ fh.connected /\ StillQueued(r)
     THEN /\ failed' = IF status = -1
                     THEN failed \cup {fh.queue[r.index].n}
                     ELSE failed
          /\ DoPromptAndListen(Made(r, status))
     ELSE UNCHANGED failed /\ Quiet(fh)

\* The session once a page is handed on; a mutant that does not note who asked
\* for its parse.
HandOverForgotten(r, status) == fh
HandOver(r, status) == IF status = 0 THEN [fh EXCEPT !.fetchId = r.id] ELSE fh

HttpCachePage(r, status) ==
  /\ Done(r)
  /\ r.type = "v"
  /\ status \in {-1, 0, 1}
  /\ UNCHANGED failed
  /\ IF interp = "ended"
     THEN UNCHANGED parsing /\ Quiet(fh)
     ELSE /\ parsing' = IF status = 0 THEN parsing \cup {r.id} ELSE parsing
          /\ ReplyTo(HandOver(r, status),
                     Reply("path", CASE status = -1 -> "failure"
                                     [] status = 0  -> "parse"
                                     [] status = 1  -> "ready"))

HttpCacheDone ==
  \E r \in hc, status \in {-1, 0, 1} :
    HttpCacheAudio(r, status) \/ HttpCachePage(r, status)

-----------------------------------------------------------------------------
InterpRequest ==
  \/ HandlePlay \/ HandleGetLineStatus \/ HandleWait
  \/ \E t \in TermTimeouts, k \in TermChars : HandleRecognize(t, k)
  \/ HandleRecord \/ HandleTransfer \/ HandleExitval \/ HandleDisconnect
  \/ \E bargein \in BOOLEAN : HandleQueueAudio(bargein)
                                \/ HandlePcmQueue(bargein)
  \/ HandleQueueDtmf \/ HandleHttpGet \/ HandleVxmlParse \/ EndThread

Server == ServerStep /\ UNCHANGED <<sessionVars, cacheVars, promptVars>>

Next == InterpRequest \/ InterpRead \/ SatcMessage \/ HttpCacheDone \/ Server

Spec == Init /\ [][Next]_vars

\* The sockets are read as long as they hold something, the http cache and the
\* server answer what they were asked (each of their waits has a timeout), a
\* thread with a page to parse parses it.  Nothing makes the caller hang up or
\* the interpreter ask for anything.
HangUpAsAsked == doing = "HANGUP" /\ HangUp
                   /\ UNCHANGED <<sessionVars, cacheVars, promptVars>>
Answering ==
  /\ Accept \/ Refuse \/ Release \/ Complete
  /\ UNCHANGED <<sessionVars, cacheVars, promptVars>>

Fairness ==
  /\ WF_vars(Answering)
  /\ WF_vars(HangUpAsAsked)
  /\ WF_vars(SatcMessage)
  /\ WF_vars(HttpCacheDone)
  /\ WF_vars(InterpRead)
  /\ WF_vars(HandleVxmlParse)

FairSpec == Spec /\ Fairness

-----------------------------------------------------------------------------
Commands      == [type : CommandTypes, bargein : BOOLEAN]
ReplyMessages == [kind : ReplyKinds, result : ReplyResults]

Items == [n : 1..MaxPrompts, type : {"audio", "dtmf"}, bargein : BOOLEAN,
          status : {-1, 0, 1, 2}, request : 0..IdSpan]

Sessions == [connected : BOOLEAN, satcDoing : CommandTypes \cup {None},
             vxmlDoing : Pending \cup {None}, queue : Seq(Items),
             requested : SUBSET {"play", "wait", "recognize", "record",
                                 "transfer"},
             gotDtmf : BOOLEAN, digits : Seq(Keys), timedOut : BOOLEAN,
             gotTermchar : BOOLEAN, termtimeout : Nat,
             termchar : Keys \cup {None}, fetchId : 0..IdSpan]

CacheRequests == [id : 1..IdSpan, type : {"a", "v"}, index : Nat]

\* The type invariant.
TypeOK ==
  /\ toServer \in Seq(Commands)
  /\ fromServer \in Seq(Messages)
  /\ live \in BOOLEAN
  /\ doing \in Answered \cup {None}
  /\ fh \in Sessions
  /\ interp \in Requests \cup {"running", "parsing", "exiting", "ended"}
  /\ replies \in Seq(ReplyMessages)
  /\ hc \subseteq CacheRequests
  /\ nextId \in 1..IdSpan
  /\ prompts \in 0..MaxPrompts
  /\ heard \subseteq 1..MaxPrompts
  /\ failed \subseteq 1..MaxPrompts
  /\ parsing \subseteq 1..IdSpan

\* While the call is connected satc_doing is the command the server has: at
\* most one is on its way or in progress, it is the one recorded, what comes
\* back answers it, and the field is empty once the answer has been taken.
OneCommand ==
  fh.connected =>
    /\ Len(toServer) + (IF doing = None THEN 0 ELSE 1) <= 1
    /\ \A i \in DOMAIN toServer : toServer[i].type = fh.satcDoing
    /\ doing \in {None, fh.satcDoing}
    /\ \A i \in DOMAIN fromServer :
         \/ fromServer[i].type = "HUNGUP"
         \/ /\ fh.satcDoing # None
            /\ fromServer[i].type \in {AnswerType(fh.satcDoing),
                                       RefusalType(fh.satcDoing)}
    /\ fh.satcDoing # None =>
         toServer # <<>> \/ doing # None \/ fromServer # <<>>

AnswerKinds(request) ==
  CASE request = "play"          -> {"Played"}
    [] request = "getlinestatus" -> {"LineStatus"}
    [] request = "wait"          -> {"Waited"}
    [] request = "recognize"     -> {"Recognized"}
    [] request = "record"        -> {"Recorded"}
    [] request = "transfer"      -> {"Transferred", "Transfered"}
    [] request = "httpget"       -> {"path"}
    [] request = "exitval"       -> {"exitedval"}

\* While the call is connected the replies keep in step with the requests: a
\* blocked interpreter has its own answer waiting, or voiceglue or the http
\* cache still owes it one and only one of them does; an interpreter that
\* runs has no reply in its socket that it would take for the next answer.
InStep ==
  fh.connected =>
    LET fetches == {r \in hc : r.type = "v"}
    IN
    IF interp \notin Requests
    THEN replies = <<>> /\ fh.vxmlDoing = None /\ fetches = {}
    ELSE \/ /\ Len(replies) = 1
            /\ replies[1].kind \in AnswerKinds(interp)
            /\ fh.vxmlDoing = None /\ fetches = {}
         \/ replies = <<>> /\ fh.vxmlDoing = interp /\ fetches = {}
         \/ /\ interp = "httpget"
            /\ replies = <<>> /\ fh.vxmlDoing = None /\ fetches # {}

\* A request starts from nothing: no key, timeout, terminator or request is
\* left from the one before, which the next recognition would count as its own.
FreshWhenAnswered ==
  fh.connected /\ fh.vxmlDoing = None =>
    /\ fh.requested = {}
    /\ ~fh.gotDtmf /\ ~fh.timedOut /\ ~fh.gotTermchar
    /\ fh.digits = <<>>

\* A prompt is sent to the caller only after every prompt queued before it was
\* sent or could not be made, in whatever order the http cache makes them.
PromptsInOrder == \A n \in heard : 1..(n-1) \subseteq heard \cup failed

\* As long as the caller is there no queued prompt is dropped: it was sent, it
\* could not be made, or it is still in the queue.
NoPromptLost ==
  fh.connected =>
    1..prompts \subseteq heard \cup failed \cup Numbers(fh.queue, DOMAIN fh.queue)

\* While the caller is there every prompt the queue waits for has a request in
\* the http cache, recorded for the place the prompt has in the queue, and no
\* request is out for a prompt that is gone.
PromptsAwaited ==
  fh.connected =>
    /\ \A i \in DOMAIN fh.queue :
         fh.queue[i].status = 0 =>
           [id |-> fh.queue[i].request, type |-> "a", index |-> i] \in hc
    /\ \A r \in hc : r.type = "a" => StillQueued(r)

Sends == Len(toServer') = Len(toServer) + 1
Sent  == toServer'[Len(toServer')]

\* The caller's keys stop a PLAY if and only if every prompt in it allows
\* bargein: prompts that must be heard are never sent with ones that need not.
BargeinKept ==
  [][Sends /\ Sent.type = "PLAY" =>
       \A n \in heard' \ heard : \A i \in DOMAIN fh.queue :
         fh.queue[i].n = n => fh.queue[i].bargein = Sent.bargein]_vars

\* Listening, recording and transferring begin when no prompt is left to play.
PromptsFirst ==
  [][Sends /\ Sent.type \in {"GETDIG", "RECORD", "TRANSFER"} =>
       1..prompts \subseteq heard \cup failed']_vars

\* A call that is hung up, by either side, gets no command but the returned
\* variables of its page, whatever arrives late from the cache or the server.
NothingAfterDisconnect ==
  [][Sends /\ ~fh.connected => Sent.type = "RETURNVAR"]_vars

\* Every request but a returned variable is answered in the end, whatever the
\* caller, the server and the http cache do.
RequestsAnswered ==
  \A request \in Requests \ {"exitval"} :
    interp = request ~> interp # request

\* A call does not outlive its interpreter: it is released or hung up.
CallEnds == interp = "ended" ~> ~live

\* The http cache is told the outcome of each parse it asked for while the
\* caller is there, so that the others waiting for the page are answered.
ParseReported ==
  \A id \in 1..IdSpan :
    id \in parsing /\ fh.connected ~> id \notin parsing \/ ~fh.connected

\* "If a vxml interpreter is awaiting a result, it must now be responsed to"
\* (src/voiceglue/voiceglue:1750), said of a call that is hung up.
ExitvalAnswered == interp = "exitval" ~> interp # "exitval"

\* "No further activity can occur for this callid" after hungup
\* (src/Satc/lib/Satc.pm:519): once the call is gone the server sends nothing
\* more that names it.
SilentAfterHungup ==
  [][~live /\ Len(fromServer') > Len(fromServer)
       => ~fromServer'[Len(fromServer')].known]_vars
=============================================================================
