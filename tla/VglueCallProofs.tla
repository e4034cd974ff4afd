-------------------------- MODULE VglueCallProofs --------------------------
(***************************************************************************)
(* What holds of VglueCall for every grammar, every number of prompts and  *)
(* request ids, and every set of keys, terminators and pages.              *)
(***************************************************************************)
EXTENDS VglueCall, SequenceTheorems, TLAPS

-----------------------------------------------------------------------------
(* The parts of a handler keep the types of what they change.               *)

\* What every helper that ends a handler establishes.
Typed ==
  /\ fh \in Sessions
  /\ toServer \in Seq(Commands)
  /\ replies \in Seq(ReplyMessages)
  /\ heard \subseteq 1..MaxPrompts

\* Marking prompts as played leaves a queue of prompts.
LEMMA MarkPlayedType ==
  ASSUME NEW q \in Seq(Items), NEW indices
  PROVE  MarkPlayed(q, indices) \in Seq(Items)
<1>1. \A i \in DOMAIN q : q[i] \in Items
  BY ElementOfSeq
<1>2. \A i \in DOMAIN q : [q[i] EXCEPT !.status = 2] \in Items
  BY <1>1 DEF Items
<1> QED
  BY <1>1, <1>2 DEF MarkPlayed

\* A session whose recognition or prompts are cleared is a session.
LEMMA ClearedType ==
  ASSUME NEW c \in Sessions
  PROVE  ClearPlayAndRec(c) \in Sessions /\ DonePrompts(c) \in Sessions
<1>1. <<>> \in Seq(Items) /\ <<>> \in Seq(Keys)
  OBVIOUS
<1>2. ClearPlayAndRec(c) \in Sessions
  <2>1. c.requested \cap {"transfer"}
          \in SUBSET {"play", "wait", "recognize", "record", "transfer"}
    OBVIOUS
  <2> QED
    BY <1>1, <2>1 DEF ClearPlayAndRec, Sessions
<1>3. DonePrompts(c) \in Sessions
  <2>1. c.requested \ {"play"}
          \in SUBSET {"play", "wait", "recognize", "record", "transfer"}
    BY DEF Sessions
  <2> QED
    BY <1>1, <2>1 DEF DonePrompts, Sessions
<1> QED
  BY <1>2, <1>3

\* The prompts at some places of a queue are prompts of the call.
LEMMA NumbersType ==
  ASSUME NEW q \in Seq(Items), NEW indices \in SUBSET DOMAIN q
  PROVE  Numbers(q, indices) \subseteq 1..MaxPrompts
<1>1. \A i \in DOMAIN q : q[i] \in Items
  BY ElementOfSeq
<1> QED
  BY <1>1 DEF Numbers, Items

\* Keeping a session keeps the types.
LEMMA QuietType ==
  ASSUME Typed, NEW c \in Sessions, Quiet(c)
  PROVE  Typed'
BY DEF Typed, Quiet

\* So does sending the server a command,
LEMMA SendToType ==
  ASSUME Typed, NEW c \in Sessions, NEW command \in Commands,
         NEW played \in SUBSET (1..MaxPrompts), SendTo(c, command, played)
  PROVE  Typed'
<1>1. [c EXCEPT !.satcDoing = command.type] \in Sessions
  BY DEF Sessions, Commands
<1> QED
  BY <1>1 DEF Typed, SendTo

\* and replying to the interpreter.
LEMMA ReplyToType ==
  ASSUME Typed, NEW c \in Sessions, NEW reply \in ReplyMessages,
         ReplyTo(c, reply)
  PROVE  Typed'
<1>1. [c EXCEPT !.vxmlDoing = None] \in Sessions
  BY DEF Sessions
<1> QED
  BY <1>1 DEF Typed, ReplyTo

\* Getting one digit is a command like any other.
LEMMA GetOneDigitType ==
  ASSUME Typed, NEW c \in Sessions, GetOneDigit(c)
  PROVE  Typed'
<1>1. Command("GETDIG", FALSE) \in Commands
  BY DEF Command, Commands, CommandTypes, Answered
<1> QED
  BY <1>1, SendToType DEF GetOneDigit

\* The digits are answered, or one more is asked for.
LEMMA MatchDigitsType ==
  ASSUME Typed, NEW c \in Sessions, MatchDigits(c)
  PROVE  Typed'
<1>1. /\ Reply("Recognized", "match") \in ReplyMessages
      /\ Reply("Recognized", "nomatch") \in ReplyMessages
  BY DEF Reply, ReplyMessages, ReplyKinds, ReplyResults
<1>2. ClearPlayAndRec(c) \in Sessions
  BY ClearedType
<1>3. \/ ReplyTo(ClearPlayAndRec(c), Reply("Recognized", "match"))
      \/ ReplyTo(ClearPlayAndRec(c), Reply("Recognized", "nomatch"))
      \/ GetOneDigit(c)
  BY DEF MatchDigits
<1> QED
  BY <1>1, <1>2, <1>3, ReplyToType, GetOneDigitType

\* The request is answered or its command sent.
LEMMA StartRequestType ==
  ASSUME Typed, NEW c \in Sessions, StartRequest(c)
  PROVE  Typed'
<1>1. Reply("Waited", None) \in ReplyMessages
  BY DEF Reply, ReplyMessages, ReplyKinds, ReplyResults
<1>2. /\ Command("RECORD", FALSE) \in Commands
      /\ Command("TRANSFER", FALSE) \in Commands
  BY DEF Command, Commands, CommandTypes, Answered
<1>3. ClearPlayAndRec(c) \in Sessions
  BY ClearedType
<1>4. \/ ReplyTo(ClearPlayAndRec(c), Reply("Waited", None))
      \/ GetOneDigit(c)
      \/ SendTo(c, Command("RECORD", FALSE), {})
      \/ SendTo(c, Command("TRANSFER", FALSE), {})
      \/ Quiet(c)
  BY DEF StartRequest
<1> QED
  BY <1>1, <1>2, <1>3, <1>4, ReplyToType, GetOneDigitType, SendToType, QuietType

\* Prompts that are sent are prompts of the call, and stay in the queue.
LEMMA PlayPromptsType ==
  ASSUME Typed, NEW c \in Sessions, PlayPrompts(c)
  PROVE  Typed'
<1> DEFINE q     == c.queue
           batch == Batch(q)
           dtmf  == FirstDtmf(q)
           audio == [c EXCEPT !.queue = MarkPlayed(q, batch)]
           tones == [c EXCEPT !.queue = MarkPlayed(q, dtmf)]
<1>1. q \in Seq(Items)
  BY DEF Sessions
<1>2. batch \in SUBSET DOMAIN q /\ dtmf \in SUBSET DOMAIN q
  BY DEF Batch, FirstDtmf
<1>3. /\ Numbers(q, batch) \in SUBSET (1..MaxPrompts)
      /\ Numbers(q, dtmf) \in SUBSET (1..MaxPrompts)
  BY <1>1, <1>2, NumbersType
<1>4. /\ MarkPlayed(q, batch) \in Seq(Items)
      /\ MarkPlayed(q, dtmf) \in Seq(Items)
  BY <1>1, MarkPlayedType
<1>5. audio \in Sessions /\ tones \in Sessions /\ DonePrompts(c) \in Sessions
  BY <1>4, ClearedType DEF Sessions
<1>6. /\ Command("PLAY", \E i \in batch : q[i].bargein) \in Commands
      /\ Command("PLAYDIG", FALSE) \in Commands
  BY DEF Command, Commands, CommandTypes, Answered
<1> HIDE DEF q, batch, dtmf, audio, tones
<1>7. CASE SendTo(IF ReachesEnd(q) THEN DonePrompts(c) ELSE audio,
                  Command("PLAY", \E i \in batch : q[i].bargein),
                  Numbers(q, batch))
  BY <1>3, <1>5, <1>6, <1>7, SendToType
<1>8. CASE SendTo(tones, Command("PLAYDIG", FALSE), Numbers(q, dtmf))
  BY <1>3, <1>5, <1>6, <1>8, SendToType
<1>9. CASE Quiet(c)
  BY <1>9, QuietType
<1>10. CASE StartRequest(DonePrompts(c))
  BY <1>5, <1>10, StartRequestType
<1> QED
  BY <1>7, <1>8, <1>9, <1>10 DEF PlayPrompts, q, batch, dtmf, audio, tones

\* do_prompt_and_listen, whatever it finds to do, keeps the types.
LEMMA DoPromptAndListenType ==
  ASSUME Typed, NEW c \in Sessions, DoPromptAndListen(c)
  PROVE  Typed'
<1>1. Reply("Recognized", "noinput") \in ReplyMessages
  BY DEF Reply, ReplyMessages, ReplyKinds, ReplyResults
<1>2. ClearPlayAndRec(c) \in Sessions
  BY ClearedType
<1>3. \/ Quiet(c)
      \/ ReplyTo(ClearPlayAndRec(c), Reply("Recognized", "noinput"))
      \/ MatchDigits(c)
      \/ PlayPrompts(c)
      \/ StartRequest(c)
  BY DEF DoPromptAndListen
<1> QED
  BY <1>1, <1>2, <1>3, QuietType, ReplyToType, MatchDigitsType,
     PlayPromptsType, StartRequestType

-----------------------------------------------------------------------------
(* The type invariant, one lemma for each kind of step.                     *)

\* Messages the server makes are messages.
LEMMA MessageType ==
  ASSUME NEW type \in MessageTypes, NEW known \in BOOLEAN, NEW ok \in BOOLEAN,
         NEW key \in Keys \cup {None, "timeout"},
         type # "GOTDIG" \/ ~ok \/ key # None
  PROVE  Message(type, known, ok, key) \in Messages
BY DEF Message, Messages

\* Every command has an answer, and a refusal, among the message types.
LEMMA AnswerTypes ==
  /\ \A type \in Answered : AnswerType(type) \in MessageTypes
  /\ \A type \in CommandTypes : RefusalType(type) \in MessageTypes
BY DEF AnswerType, RefusalType, MessageTypes, Answered, CommandTypes

\* A result of a command is a message.
LEMMA ResultsType ==
  ASSUME NEW type \in Answered \ {"HANGUP"}, NEW m \in Results(type)
  PROVE  m \in Messages
<1>1. CASE type = "GETDIG"
  <2>1. PICK key \in Keys \cup {None, "timeout"}, ok \in BOOLEAN :
          /\ m = Message("GOTDIG", TRUE, ok, key)
          /\ ~ok \/ key # None
    BY <1>1, KeysAssumption DEF Results, None
  <2>2. "GOTDIG" \in MessageTypes
    BY DEF MessageTypes
  <2> QED
    BY <2>1, <2>2, MessageType
<1>2. CASE type # "GETDIG"
  <2>1. AnswerType(type) # "GOTDIG"
    BY <1>2 DEF AnswerType, Answered
  <2>2. PICK ok \in BOOLEAN : m = Message(AnswerType(type), TRUE, ok, None)
    BY <1>2 DEF Results
  <2> QED
    BY <2>1, <2>2, AnswerTypes, MessageType
<1> QED
  BY <1>1, <1>2

\* What a step of the SATC server may do to what voiceglue shares with it.
ServerTyped ==
  /\ toServer \in Seq(Commands)
  /\ fromServer \in Seq(Messages)
  /\ live \in BOOLEAN
  /\ doing \in Answered \cup {None}

\* The server keeps the types of its own variables.
LEMMA ServerStepType ==
  ASSUME ServerTyped, ServerStep
  PROVE  ServerTyped'
<1> USE DEF ServerTyped
<1>a. toServer # <<>> =>
        Head(toServer) \in Commands /\ Tail(toServer) \in Seq(Commands)
  BY HeadTailProperties
<1>b. \A command \in Commands : command.type \in CommandTypes
  BY DEF Commands
<1>1. toServer # <<>> =>
        /\ Head(toServer).type \in CommandTypes
        /\ Tail(toServer) \in Seq(Commands)
  BY <1>a, <1>b
<1>2. CASE Accept
  BY <1>1, <1>2 DEF Accept
<1>3. CASE Refuse
  <2> DEFINE refusal == RefusalType(Head(toServer).type)
             m       == Message(refusal, NamesCall(refusal), FALSE, None)
  <2>1. m \in Messages
    <3>1. refusal \in MessageTypes
      BY <1>1, <1>3, AnswerTypes DEF Refuse
    <3>2. NamesCall(refusal) \in BOOLEAN
      BY DEF NamesCall
    <3> HIDE DEF refusal
    <3> QED
      BY <3>1, <3>2, MessageType
  <2>2. fromServer' = Append(fromServer, m) /\ doing' \in {doing, None}
    BY <1>3 DEF Refuse
  <2> HIDE DEF m
  <2>3. fromServer' \in Seq(Messages)
    BY <2>1, <2>2
  <2> QED
    BY <1>1, <1>3, <2>2, <2>3 DEF Refuse
<1>4. CASE Release
  <2> DEFINE m == Message("RELEASED", TRUE, TRUE, None)
  <2>1. m \in Messages
    BY MessageType DEF MessageTypes
  <2>2. fromServer' = Append(fromServer, m)
    BY <1>4 DEF Release
  <2> HIDE DEF m
  <2>3. fromServer' \in Seq(Messages)
    BY <2>1, <2>2
  <2> QED
    BY <1>1, <1>4, <2>3 DEF Release
<1>5. CASE Complete
  <2>1. PICK m \in Messages : fromServer' = Append(fromServer, m)
    BY <1>5, ResultsType DEF Complete
  <2>2. fromServer' \in Seq(Messages)
    BY <2>1
  <2> QED
    BY <1>5, <2>2 DEF Complete
<1>6. CASE HangUp
  <2> DEFINE m == Message("HUNGUP", TRUE, TRUE, None)
  <2>1. m \in Messages
    BY MessageType DEF MessageTypes
  <2>2. fromServer' = Append(fromServer, m)
    BY <1>6 DEF HangUp
  <2> HIDE DEF m
  <2>3. fromServer' \in Seq(Messages)
    BY <2>1, <2>2
  <2> QED
    BY <1>6, <2>3 DEF HangUp
<1> QED
  BY <1>2, <1>3, <1>4, <1>5, <1>6 DEF ServerStep

\* The steps of the SATC server.
LEMMA ServerType ==
  ASSUME TypeOK, Server
  PROVE  TypeOK'
<1>1. ServerTyped'
  BY ServerStepType DEF TypeOK, ServerTyped, Server
<1>2. UNCHANGED <<fh, interp, replies, hc, nextId, parsing, prompts, heard,
                  failed>>
  BY DEF Server, sessionVars, cacheVars, promptVars
<1> QED
  BY <1>1, <1>2 DEF TypeOK, ServerTyped

\* A key is added to the digits, or a timeout or terminator noted.
LEMMA KeyReceivedType ==
  ASSUME TypeOK, Received.key \in Keys \cup {"timeout"}
  PROVE  KeyReceived \in Sessions
<1>1. Free \in Sessions
  BY DEF TypeOK, Free, Sessions
<1>2. CASE Received.key = "timeout"
  BY <1>1, <1>2 DEF KeyReceived, Sessions
<1>3. CASE Received.key # "timeout"
  <2>1. Append(Free.digits, Received.key) \in Seq(Keys)
    BY <1>1, <1>3 DEF Sessions
  <2> QED
    BY <1>1, <1>3, <2>1 DEF KeyReceived, Sessions
<1> QED
  BY <1>2, <1>3

\* The messages voiceglue takes from the SATC server.
LEMMA SatcMessageType ==
  ASSUME TypeOK, SatcMessage
  PROVE  TypeOK'
<1>1. Typed
  BY DEF TypeOK, Typed
<1>2. fromServer # <<>> =>
        /\ Received \in Messages
        /\ Tail(fromServer) \in Seq(Messages)
  BY HeadTailProperties DEF TypeOK, Received
<1>3. Free \in Sessions /\ ClearPlayAndRec(Free) \in Sessions
  <2>1. Free \in Sessions
    BY DEF TypeOK, Free, Sessions
  <2> QED
    BY <2>1, ClearedType
<1>4. CASE SatcIgnored
  BY <1>2, <1>4
  DEF TypeOK, SatcIgnored, sessionVars, cacheVars, promptVars
<1>5. SUFFICES ASSUME NEW types, Receive(types), Typed'
               PROVE  TypeOK'
  <2>1. CASE SatcUnsupported
    BY <1>1, <1>3, <1>5, <2>1, QuietType DEF SatcUnsupported
  <2>2. CASE SatcGotdig
    <3>1. CASE ~Received.ok
      <4>1. Reply("Recognized", "failure") \in ReplyMessages
        BY DEF Reply, ReplyMessages, ReplyKinds, ReplyResults
      <4> QED
        BY <1>1, <1>3, <1>5, <2>2, <3>1, <4>1, ReplyToType DEF SatcGotdig
    <3>2. CASE Received.ok
      <4>1. KeyReceived \in Sessions
        BY <1>2, <2>2, <3>2, KeyReceivedType
        DEF SatcGotdig, Receive, Received, Messages
      <4>2. DoPromptAndListen(KeyReceived)
        BY <2>2, <3>2 DEF SatcGotdig
      <4> QED
        BY <1>1, <1>5, <2>2, <4>1, <4>2, DoPromptAndListenType DEF SatcGotdig
    <3> QED
      BY <3>1, <3>2
  <2>3. CASE SatcPlayed
    BY <1>1, <1>3, <1>5, <2>3, DoPromptAndListenType DEF SatcPlayed
  <2>4. CASE SatcTransfered
    <3>1. [Free EXCEPT !.requested = @ \ {"transfer"}] \in Sessions
      BY <1>3 DEF Sessions
    <3>2. Reply("Transferred", None) \in ReplyMessages
      BY DEF Reply, ReplyMessages, ReplyKinds, ReplyResults
    <3> QED
      BY <1>1, <1>5, <2>4, <3>1, <3>2, ReplyToType DEF SatcTransfered
  <2>5. CASE SatcRecorded
    <3>1. /\ Reply("Recorded", "ready") \in ReplyMessages
          /\ Reply("Recorded", "failure") \in ReplyMessages
      BY DEF Reply, ReplyMessages, ReplyKinds, ReplyResults
    <3> QED
      BY <1>1, <1>3, <1>5, <2>5, <3>1, ReplyToType DEF SatcRecorded
  <2>6. CASE SatcReturnedvar
    <3>1. Reply("exitedval", None) \in ReplyMessages
      BY DEF Reply, ReplyMessages, ReplyKinds, ReplyResults
    <3> QED
      BY <1>1, <1>3, <1>5, <2>6, <3>1, ReplyToType DEF SatcReturnedvar
  <2>7. CASE SatcHungupOrReleased
    <3>1. [Free EXCEPT !.connected = FALSE] \in Sessions
      BY <1>3 DEF Sessions
    <3>2. \A request \in AnsweredAtHangup :
            HangupReply(request) \in ReplyMessages
      BY DEF AnsweredAtHangup, HangupReply, Disconnected, Reply,
             ReplyMessages, ReplyKinds, ReplyResults
    <3> QED
      BY <1>1, <1>5, <2>7, <3>1, <3>2, ReplyToType, QuietType
      DEF SatcHungupOrReleased
  <2> QED
    BY <1>4, <2>1, <2>2, <2>3, <2>4, <2>5, <2>6, <2>7 DEF SatcMessage
<1> QED
  BY <1>2, <1>5 DEF Receive, TypeOK, Typed, cacheVars

\* An item of a queue can be given a new status and lose its request.
LEMMA UpdatedItemType ==
  ASSUME NEW c \in Sessions, NEW i \in DOMAIN c.queue,
         NEW status \in {-1, 0, 1}
  PROVE  [c EXCEPT !.queue[i].status = status, !.queue[i].request = NoId]
            \in Sessions
<1> DEFINE item  == [c.queue[i] EXCEPT !.status = status, !.request = NoId]
           queue == [c.queue EXCEPT ![i] = item]
<1>1. c.queue \in Seq(Items)
  BY DEF Sessions
<1>2. c.queue[i] \in Items
  BY <1>1, ElementOfSeq
<1>3. item \in Items
  <2>1. NoId \in 0..IdSpan
    BY CallAssumption DEF NoId
  <2> QED
    BY <1>2, <2>1 DEF Items
<1>4. queue \in Seq(Items)
  BY <1>1, <1>3, ExceptSeq
<1>5. [c EXCEPT !.queue[i].status = status, !.queue[i].request = NoId]
        = [c EXCEPT !.queue = queue]
  BY <1>1, <1>2 DEF Sessions, Items
<1> QED
  BY <1>4, <1>5 DEF Sessions

\* The messages voiceglue takes from the http cache.
LEMMA HttpCacheType ==
  ASSUME TypeOK, HttpCacheDone
  PROVE  TypeOK'
<1>1. Typed
  BY DEF TypeOK, Typed
<1>2. PICK r \in hc, status \in {-1, 0, 1} :
        HttpCacheAudio(r, status) \/ HttpCachePage(r, status)
  BY DEF HttpCacheDone
<1>3. r \in CacheRequests
  BY DEF TypeOK
<1>4. fh \in Sessions
  BY DEF TypeOK
<1>5. CASE HttpCacheAudio(r, status)
  <2>1. Typed' /\ failed' \subseteq 1..MaxPrompts
    <3>1. CASE interp # "ended" /\ fh.connected /\ StillQueued(r)
      <4>1. fh.queue[r.index].n \in 1..MaxPrompts
        <5>1. fh.queue \in Seq(Items) /\ r.index \in DOMAIN fh.queue
          BY <1>4, <3>1 DEF Sessions, StillQueued
        <5>2. fh.queue[r.index] \in Items
          BY <5>1, ElementOfSeq
        <5> QED
          BY <5>2 DEF Items
      <4>2. Made(r, status) \in Sessions
        BY <1>4, <3>1, UpdatedItemType DEF StillQueued, Made
      <4>3. Typed'
        BY <1>1, <1>5, <3>1, <4>2, DoPromptAndListenType DEF HttpCacheAudio
      <4>4. failed' \subseteq 1..MaxPrompts
        BY <1>5, <3>1, <4>1 DEF HttpCacheAudio, TypeOK
      <4> QED
        BY <4>3, <4>4
    <3>2. CASE ~(interp # "ended" /\ fh.connected /\ StillQueued(r))
      BY <1>1, <1>4, <1>5, <3>2, QuietType DEF HttpCacheAudio, TypeOK
    <3> QED
      BY <3>1, <3>2
  <2> QED
    BY <1>5, <2>1 DEF HttpCacheAudio, Done, TypeOK, Typed
<1>6. CASE HttpCachePage(r, status)
  <2>1. HandOver(r, status) \in Sessions
    <3>1. r.id \in 0..IdSpan
      BY <1>3 DEF CacheRequests
    <3> QED
      BY <1>4, <3>1 DEF HandOver, Sessions
  <2> DEFINE reply == Reply("path", CASE status = -1 -> "failure"
                                      [] status = 0  -> "parse"
                                      [] status = 1  -> "ready")
  <2>2. reply \in ReplyMessages
    BY DEF Reply, ReplyMessages, ReplyKinds, ReplyResults
  <2>3. Quiet(fh) \/ ReplyTo(HandOver(r, status), reply)
    BY <1>6 DEF HttpCachePage
  <2>4. Typed'
    BY <1>1, <1>4, <2>1, <2>2, <2>3, QuietType, ReplyToType
  <2>5. parsing' \subseteq 1..IdSpan
    BY <1>3, <1>6 DEF HttpCachePage, TypeOK, CacheRequests
  <2> QED
    BY <1>6, <2>4, <2>5 DEF HttpCachePage, Done, TypeOK, Typed
<1> QED
  BY <1>2, <1>5, <1>6

\* The interpreter reads replies and voiceglue is not involved.
LEMMA InterpReadType ==
  ASSUME TypeOK, InterpRead
  PROVE  TypeOK'
<1>1. replies' \in Seq(ReplyMessages)
  <2>1. PICK k \in 1..Len(replies) :
          replies' = SubSeq(replies, k + 1, Len(replies))
    BY DEF InterpRead
  <2> QED
    BY <2>1, SubSeqProperties DEF TypeOK
<1> QED
  BY <1>1 DEF TypeOK, InterpRead, serverVars, cacheVars, promptVars

-----------------------------------------------------------------------------
(* The requests of the interpreter.                                         *)

\* Where a request leaves the interpreter, and what it leaves alone.
LEMMA RequestType ==
  ASSUME TypeOK, NEW from, NEW to, Request(from, to)
  PROVE  /\ interp' \in Requests \cup {"running", "parsing", "exiting", "ended"}
         /\ ServerTyped
         /\ fromServer' = fromServer /\ live' = live /\ doing' = doing
BY CallAssumption DEF TypeOK, ServerTyped, Request

\* A pending request is one of those a session can hold.
LEMMA StartPendingType ==
  ASSUME Typed, NEW c \in Sessions,
         NEW request \in {"wait", "recognize", "record", "transfer"},
         StartPending(c, request)
  PROVE  Typed'
<1> DEFINE next == [c EXCEPT !.requested = @ \cup {"play", request},
                             !.vxmlDoing = request]
<1>1. c.requested \cup {"play", request}
        \in SUBSET {"play", "wait", "recognize", "record", "transfer"}
  BY DEF Sessions
<1>2. request \in Pending \cup {None}
  BY DEF Pending
<1>3. next \in Sessions
  BY <1>1, <1>2 DEF Sessions
<1>4. DoPromptAndListen(next)
  BY DEF StartPending
<1> QED
  BY <1>3, <1>4, DoPromptAndListenType

\* The answers given at once.
LEMMA ImmediateReplyType ==
  /\ Reply("Played", None) \in ReplyMessages
  /\ Reply("Waited", None) \in ReplyMessages
  /\ Reply("LineStatus", "connected") \in ReplyMessages
  /\ Reply("LineStatus", "hungup") \in ReplyMessages
  /\ \A request \in {"wait", "recognize", "record", "transfer"} :
       Disconnected(request) \in ReplyMessages
BY DEF Disconnected, Reply, ReplyMessages, ReplyKinds, ReplyResults

\* A request that does not touch the http cache or the prompts.
LEMMA CallRequestType ==
  ASSUME TypeOK,
         \/ HandlePlay \/ HandleGetLineStatus \/ HandleWait
         \/ HandleRecord \/ HandleTransfer \/ HandleExitval
         \/ HandleDisconnect
  PROVE  TypeOK'
<1>1. Typed /\ fh \in Sessions
  BY DEF TypeOK, Typed
<1>2. UNCHANGED <<cacheVars, prompts, failed>>
  BY DEF HandlePlay, HandleGetLineStatus, HandleWait, HandleRecord,
         HandleTransfer, HandleExitval, HandleDisconnect
<1>3. /\ interp' \in Requests \cup {"running", "parsing", "exiting", "ended"}
      /\ ServerTyped
      /\ fromServer' = fromServer /\ live' = live /\ doing' = doing
  BY RequestType
  DEF HandlePlay, HandleGetLineStatus, HandleWait, HandleRecord,
      HandleTransfer, HandleExitval, HandleDisconnect
<1>4. Typed'
  <2>1. CASE HandlePlay
    BY <1>1, <2>1, ImmediateReplyType, ReplyToType DEF HandlePlay
  <2>2. CASE HandleGetLineStatus
    BY <1>1, <2>2, ImmediateReplyType, ReplyToType DEF HandleGetLineStatus
  <2>3. CASE HandleWait
    BY <1>1, <2>3, ImmediateReplyType, ReplyToType, StartPendingType
    DEF HandleWait
  <2>4. CASE HandleRecord
    BY <1>1, <2>4, ImmediateReplyType, ReplyToType, StartPendingType
    DEF HandleRecord
  <2>5. CASE HandleTransfer
    BY <1>1, <2>5, ImmediateReplyType, ReplyToType, StartPendingType
    DEF HandleTransfer
  <2>6. CASE HandleExitval
    <3>1. [fh EXCEPT !.vxmlDoing = "exitval"] \in Sessions
      BY <1>1 DEF Sessions, Pending
    <3>2. Command("RETURNVAR", FALSE) \in Commands
      BY DEF Command, Commands, CommandTypes, Answered
    <3>3. {} \in SUBSET (1..MaxPrompts)
      OBVIOUS
    <3> QED
      BY <1>1, <2>6, <3>1, <3>2, <3>3, SendToType DEF HandleExitval
  <2>7. CASE HandleDisconnect
    <3>1. [fh EXCEPT !.connected = FALSE] \in Sessions
      BY <1>1 DEF Sessions
    <3>2. Command("HANGUP", FALSE) \in Commands
      BY DEF Command, Commands, CommandTypes, Answered
    <3>3. {} \in SUBSET (1..MaxPrompts)
      OBVIOUS
    <3> QED
      BY <1>1, <2>7, <3>1, <3>2, <3>3, SendToType, QuietType
      DEF HandleDisconnect
  <2> QED
    BY <2>1, <2>2, <2>3, <2>4, <2>5, <2>6, <2>7
<1> QED
  BY <1>2, <1>3, <1>4 DEF TypeOK, Typed, ServerTyped, cacheVars

\* A recognition also takes the terminator the page asks for.
LEMMA RecognizeType ==
  ASSUME TypeOK, NEW t \in TermTimeouts, NEW k \in TermChars,
         HandleRecognize(t, k)
  PROVE  TypeOK'
<1> DEFINE next == [fh EXCEPT !.termtimeout = t, !.termchar = k]
<1>1. Typed /\ fh \in Sessions
  BY DEF TypeOK, Typed
<1>2. next \in Sessions
  BY <1>1, CallAssumption DEF Sessions
<1>3. /\ Request({"running"}, "recognize")
      /\ UNCHANGED <<cacheVars, prompts, failed>>
      /\ \/ StartPending(next, "recognize")
         \/ ReplyTo(fh, Disconnected("recognize"))
  BY DEF HandleRecognize
<1> HIDE DEF next
<1>4. Typed'
  BY <1>1, <1>2, <1>3, ImmediateReplyType, ReplyToType, StartPendingType
<1>5. /\ interp' \in Requests \cup {"running", "parsing", "exiting", "ended"}
      /\ ServerTyped
      /\ fromServer' = fromServer /\ live' = live /\ doing' = doing
  BY <1>3, RequestType
<1> QED
  BY <1>3, <1>4, <1>5 DEF TypeOK, Typed, ServerTyped, cacheVars

\* The counter of request ids stays in its range.
LEMMA AdvanceIdType ==
  ASSUME nextId \in 1..IdSpan, AdvanceId
  PROVE  nextId' \in 1..IdSpan
BY CallAssumption DEF AdvanceId

\* Queueing one more prompt.
LEMMA EnqueueType ==
  ASSUME TypeOK, NEW type \in {"audio", "dtmf"}, NEW bargein \in BOOLEAN,
         NEW status \in {0, 1}, NEW request \in 0..IdSpan,
         Enqueue(Item(type, bargein, status, request))
  PROVE  /\ Typed'
         /\ prompts' \in 0..MaxPrompts
         /\ UNCHANGED <<failed, parsing>>
<1> DEFINE item == Item(type, bargein, status, request)
           next == [fh EXCEPT !.queue = Append(@, item)]
<1>1. Typed /\ fh \in Sessions
  BY DEF TypeOK, Typed
<1>2. prompts + 1 \in 1..MaxPrompts
  BY CallAssumption DEF TypeOK, Enqueue
<1>3. item \in Items
  BY <1>2 DEF Item, Items
<1> HIDE DEF item
<1>4. Append(fh.queue, item) \in Seq(Items)
  BY <1>1, <1>3 DEF Sessions
<1>5. next \in Sessions
  BY <1>1, <1>4 DEF Sessions
<1>6. Quiet(next) /\ prompts' = prompts + 1 /\ UNCHANGED <<failed, parsing>>
  BY DEF Enqueue, item
<1> HIDE DEF next
<1>7. Typed'
  BY <1>1, <1>5, <1>6, QuietType
<1> QED
  BY <1>2, <1>6, <1>7

\* A request that queues a prompt or asks the http cache for a page.
LEMMA QueueRequestType ==
  ASSUME TypeOK, NEW bargein \in BOOLEAN,
         \/ HandleQueueAudio(bargein) \/ HandlePcmQueue(bargein)
         \/ HandleQueueDtmf \/ HandleHttpGet
  PROVE  TypeOK'
<1>1. Typed /\ fh \in Sessions /\ nextId \in 1..IdSpan
  BY DEF TypeOK, Typed
<1>2. nextId \in 0..IdSpan /\ NoId \in 0..IdSpan
  BY <1>1, CallAssumption DEF NoId
<1>3. /\ interp' \in Requests \cup {"running", "parsing", "exiting", "ended"}
      /\ ServerTyped
      /\ fromServer' = fromServer /\ live' = live /\ doing' = doing
  BY RequestType
  DEF HandleQueueAudio, HandlePcmQueue, HandleQueueDtmf, HandleHttpGet
<1>4. nextId' \in 1..IdSpan
  BY <1>1, AdvanceIdType
  DEF HandleQueueAudio, HandlePcmQueue, HandleQueueDtmf, HandleHttpGet
<1>5. /\ Typed'
      /\ prompts' \in 0..MaxPrompts
      /\ UNCHANGED <<failed, parsing>>
  <2>1. CASE HandleQueueAudio(bargein)
    BY <1>2, <2>1, EnqueueType DEF HandleQueueAudio
  <2>2. CASE HandlePcmQueue(bargein)
    BY <1>2, <2>2, EnqueueType DEF HandlePcmQueue
  <2>3. CASE HandleQueueDtmf
    BY <1>2, <2>3, EnqueueType DEF HandleQueueDtmf
  <2>4. CASE HandleHttpGet
    BY <1>1, <2>4, QuietType DEF HandleHttpGet, TypeOK
  <2> QED
    BY <2>1, <2>2, <2>3, <2>4
<1>6. hc' \subseteq CacheRequests
  <2> DEFINE audio == [id |-> nextId, type |-> "a", index |-> NextIndex]
             page  == [id |-> nextId, type |-> "v", index |-> 0]
  <2>1. NextIndex \in Nat
    BY <1>1, LenProperties DEF NextIndex, Sessions
  <2>2. audio \in CacheRequests /\ page \in CacheRequests
    BY <1>1, <2>1 DEF CacheRequests
  <2>3. \/ hc' = hc \cup {audio}
        \/ hc' = hc \cup {page}
        \/ hc' = hc
    BY DEF HandleQueueAudio, HandlePcmQueue, HandleQueueDtmf, HandleHttpGet
  <2>4. hc \subseteq CacheRequests
    BY DEF TypeOK
  <2> HIDE DEF audio, page
  <2> QED
    BY <2>2, <2>3, <2>4
<1> QED
  BY <1>3, <1>4, <1>5, <1>6 DEF TypeOK, Typed, ServerTyped

\* The page is parsed.
LEMMA VxmlParseType ==
  ASSUME TypeOK, HandleVxmlParse
  PROVE  TypeOK'
<1>1. [fh EXCEPT !.fetchId = NoId] \in Sessions
  <2>1. NoId \in 0..IdSpan
    BY CallAssumption DEF NoId
  <2> QED
    BY <2>1 DEF TypeOK, Sessions
<1>2. Typed'
  BY <1>1, QuietType DEF TypeOK, Typed, HandleVxmlParse
<1>3. /\ interp' \in Requests \cup {"running", "parsing", "exiting", "ended"}
      /\ ServerTyped
      /\ fromServer' = fromServer /\ live' = live /\ doing' = doing
  BY RequestType DEF HandleVxmlParse
<1> QED
  BY <1>2, <1>3 DEF TypeOK, Typed, ServerTyped, HandleVxmlParse

\* A session with nothing in it is a session.
LEMMA IdleType == Idle \in Sessions
<1>1. NoId \in 0..IdSpan
  BY CallAssumption DEF NoId
<1>2. <<>> \in Seq(Items) /\ <<>> \in Seq(Keys)
  OBVIOUS
<1> QED
  BY <1>1, <1>2 DEF Idle, Sessions

\* The interpreter thread ends and the session goes with it.
LEMMA EndThreadType ==
  ASSUME TypeOK, EndThread
  PROVE  TypeOK'
<1>1. LeaveCall \in Seq(Commands)
  <2> DEFINE release == Command("RELEASE", FALSE)
  <2>1. release \in Commands
    BY DEF Command, Commands, CommandTypes
  <2>2. LeaveCall = <<release>> \/ LeaveCall = <<>>
    BY DEF LeaveCall
  <2> HIDE DEF release
  <2>3. <<release>> \in Seq(Commands) /\ <<>> \in Seq(Commands)
    BY <2>1
  <2> QED
    BY <2>2, <2>3
<1>2. toServer' \in Seq(Commands)
  BY <1>1, ConcatProperties DEF TypeOK, EndThread
<1>3. fh' \in Sessions /\ replies' \in Seq(ReplyMessages)
  BY IdleType DEF EndThread
<1>4. /\ interp' \in Requests \cup {"running", "parsing", "exiting", "ended"}
      /\ ServerTyped
      /\ fromServer' = fromServer /\ live' = live /\ doing' = doing
  BY RequestType DEF EndThread
<1> QED
  BY <1>2, <1>3, <1>4
  DEF TypeOK, ServerTyped, EndThread, cacheVars, promptVars

\* The requests of the interpreter.
LEMMA InterpRequestType ==
  ASSUME TypeOK, InterpRequest
  PROVE  TypeOK'
<1>1. CASE \E t \in TermTimeouts, k \in TermChars : HandleRecognize(t, k)
  BY <1>1, RecognizeType
<1>2. CASE \E bargein \in BOOLEAN : HandleQueueAudio(bargein)
                                      \/ HandlePcmQueue(bargein)
  BY <1>2, QueueRequestType
<1>3. CASE HandleQueueDtmf \/ HandleHttpGet
  BY <1>3, QueueRequestType
<1>4. CASE HandleVxmlParse \/ EndThread
  BY <1>4, VxmlParseType, EndThreadType
<1> QED
  BY <1>1, <1>2, <1>3, <1>4, CallRequestType DEF InterpRequest

-----------------------------------------------------------------------------
(* Type correctness.                                                        *)

\* A call that comes in.
LEMMA InitType ==
  ASSUME Init
  PROVE  TypeOK
<1>1. [Idle EXCEPT !.connected = TRUE] \in Sessions
  BY IdleType DEF Sessions
<1> QED
  BY <1>1, CallAssumption DEF Init, ServerInit, TypeOK

\* Every step of the call.
LEMMA TypeStep ==
  ASSUME TypeOK, [Next]_vars
  PROVE  TypeOK'
<1>1. CASE InterpRequest
  BY <1>1, InterpRequestType
<1>2. CASE InterpRead
  BY <1>2, InterpReadType
<1>3. CASE SatcMessage
  BY <1>3, SatcMessageType
<1>4. CASE HttpCacheDone
  BY <1>4, HttpCacheType
<1>5. CASE Server
  BY <1>5, ServerType
<1>6. CASE UNCHANGED vars
  BY <1>6 DEF vars, serverVars, sessionVars, cacheVars, promptVars, TypeOK
<1> QED
  BY <1>1, <1>2, <1>3, <1>4, <1>5, <1>6 DEF Next

\* Every variable of the call keeps its type, whatever the caller, the pages,
\* the SATC server and the http cache do: in particular the session record
\* never holds a field value that do_prompt_and_listen does not expect.
THEOREM TypeCorrect == Spec => []TypeOK
<1>1. Init => TypeOK
  BY InitType
<1>2. TypeOK /\ [Next]_vars => TypeOK'
  BY TypeStep
<1> QED
  BY <1>1, <1>2, PTL DEF Spec

=============================================================================
