-------------------------- MODULE VglueCallSafety --------------------------
(***************************************************************************)
(* While a call is connected its requests, commands and replies stay in    *)
(* step, for every grammar, every number of prompts and request ids, and   *)
(* every set of keys, terminators and pages.                               *)
(*                                                                         *)
(* OneCommand, InStep and FreshWhenAnswered are not inductive.  IInv adds  *)
(* why they hold: what is requested of the call, the command sent for it   *)
(* and what is on the wire all belong to the one request the interpreter   *)
(* is blocked on.                                                          *)
(***************************************************************************)
EXTENDS VglueCallProofs

-----------------------------------------------------------------------------
(* The inductive invariant.                                                 *)

\* The commands that carry out a request.
Serves(command, request) ==
  \/ /\ command \in {"PLAY", "PLAYDIG"}
     /\ request \in {"wait", "recognize", "record", "transfer"}
  \/ command = "GETDIG" /\ request = "recognize"
  \/ command = "RECORD" /\ request = "record"
  \/ command = "TRANSFER" /\ request = "transfer"
  \/ command = "RETURNVAR" /\ request = "exitval"

Listening(c) ==
  c.gotDtmf \/ c.timedOut \/ c.gotTermchar \/ c.digits # <<>>

\* The fields of a session record all speak of the same request.
Coherent(c) ==
  /\ c.requested \subseteq {"play", c.vxmlDoing}
  /\ c.vxmlDoing \in {None, "exitval"} => c.requested = {}
  /\ Listening(c) => c.vxmlDoing = "recognize"
  /\ c.satcDoing # None => Serves(c.satcDoing, c.vxmlDoing)
  /\ c.satcDoing = "TRANSFER" => "play" \notin c.requested
  /\ c.vxmlDoing = "exitval" => c.satcDoing = "RETURNVAR"

HungUp(i) == fromServer[i].type = "HUNGUP" /\ fromServer[i].known

\* Message i answers the command satc_doing, which has left nothing else
\* behind.  It is a refusal of a call that is gone only behind a HUNGUP.
Answers(i) ==
  /\ fh.satcDoing # None
  /\ \/ \E j \in 1..(i-1) : HungUp(j) /\ fromServer[i].type = RefusalType(fh.satcDoing)
     \/ fromServer[i].known /\ fromServer[i].type = AnswerType(fh.satcDoing)
  /\ toServer = <<>> /\ doing = None
  /\ \A j \in DOMAIN fromServer : j # i => HungUp(j)

\* The command satc_doing is in one place: on its way, in progress, answered.
Wire ==
  /\ Len(toServer) <= 1
  /\ toServer # <<>> => doing = None /\ toServer[1].type = fh.satcDoing
  /\ doing \in {None, fh.satcDoing}
  /\ \A i \in DOMAIN fromServer : HungUp(i) \/ Answers(i)
  /\ live \/ \E i \in DOMAIN fromServer : HungUp(i)
  /\ fh.satcDoing # None => toServer # <<>> \/ doing # None \/ fromServer # <<>>

Fetches == {r \in hc : r.type = "v"}

\* One page is fetched at a time, and the thread is there to get it.
OneFetch == interp # "ended" /\ \A r1, r2 \in Fetches : r1 = r2

Joint ==
  /\ InStep
  /\ fh.connected => Coherent(fh) /\ Wire /\ OneFetch

IInv == TypeOK /\ Joint

-----------------------------------------------------------------------------
(* What do_prompt_and_listen may do to a coherent session.                  *)

\* It leaves the request pending, answers it, or sends a command for it.
Continued(c) ==
  /\ toServer' = toServer /\ replies' = replies
  /\ fh'.satcDoing = c.satcDoing /\ fh'.vxmlDoing = c.vxmlDoing

AnsweredTo(c) ==
  /\ c.vxmlDoing # None /\ c.satcDoing = None
  /\ fh'.satcDoing = None /\ fh'.vxmlDoing = None
  /\ toServer' = toServer
  /\ \E reply \in ReplyMessages :
       reply.kind \in AnswerKinds(c.vxmlDoing) /\ replies' = Append(replies, reply)

Commanded(c) ==
  /\ c.satcDoing = None
  /\ fh'.vxmlDoing = c.vxmlDoing
  /\ replies' = replies
  /\ \E command \in Commands :
       command.type = fh'.satcDoing /\ toServer' = Append(toServer, command)

Outcome(c) ==
  /\ fh'.connected /\ Coherent(fh')
  /\ Continued(c) \/ AnsweredTo(c) \/ Commanded(c)

\* Nothing is done for the request.
LEMMA QuietOutcome ==
  ASSUME NEW c \in Sessions, c.connected, Coherent(c), Quiet(c)
  PROVE  Outcome(c)
BY DEF Quiet, Outcome, Continued

\* A command that serves the pending request.
LEMMA SendToOutcome ==
  ASSUME NEW c \in Sessions, c.connected, Coherent(c), c.satcDoing = None,
         NEW command \in Commands, Serves(command.type, c.vxmlDoing),
         command.type = "TRANSFER" => "play" \notin c.requested,
         NEW played, SendTo(c, command, played)
  PROVE  Outcome(c)
<1> DEFINE d == [c EXCEPT !.satcDoing = command.type]
<1>1. fh' = d /\ toServer' = Append(toServer, command) /\ replies' = replies
  BY DEF SendTo
<1>2. /\ d.connected = c.connected /\ d.requested = c.requested
      /\ d.vxmlDoing = c.vxmlDoing /\ d.satcDoing = command.type
      /\ d.gotDtmf = c.gotDtmf /\ d.timedOut = c.timedOut
      /\ d.gotTermchar = c.gotTermchar /\ d.digits = c.digits
  BY DEF Sessions
<1> HIDE DEF d
<1>3. c.vxmlDoing # "exitval"
  BY DEF Coherent, None
<1>4. Coherent(d)
  BY <1>2, <1>3 DEF Coherent, Listening
<1> QED
  BY <1>1, <1>2, <1>4 DEF Outcome, Commanded

\* The answer to the pending request, with what led to it cleared.
LEMMA ReplyToOutcome ==
  ASSUME NEW c \in Sessions, c.connected, Coherent(c), c.satcDoing = None,
         c.vxmlDoing \in {"wait", "recognize", "record"},
         NEW reply \in ReplyMessages, reply.kind \in AnswerKinds(c.vxmlDoing),
         ReplyTo(ClearPlayAndRec(c), reply)
  PROVE  Outcome(c)
<1> DEFINE d == [ClearPlayAndRec(c) EXCEPT !.vxmlDoing = None]
<1>1. fh' = d /\ toServer' = toServer /\ replies' = Append(replies, reply)
  BY DEF ReplyTo
<1>2. /\ d.connected = c.connected /\ d.requested = c.requested \cap {"transfer"}
      /\ d.vxmlDoing = None /\ d.satcDoing = c.satcDoing
      /\ d.gotDtmf = FALSE /\ d.timedOut = FALSE
      /\ d.gotTermchar = FALSE /\ d.digits = <<>>
  BY DEF Sessions, ClearPlayAndRec
<1> HIDE DEF d
<1>3. d.requested = {}
  BY <1>2 DEF Coherent
<1>4. Coherent(d)
  BY <1>2, <1>3 DEF Coherent, Listening, None
<1> QED
  BY <1>1, <1>2, <1>4 DEF Outcome, AnsweredTo, None

\* Keys have been pressed: the interpreter is in a recognition.
LEMMA MatchDigitsOutcome ==
  ASSUME NEW c \in Sessions, c.connected, Coherent(c), c.satcDoing = None,
         c.gotDtmf, MatchDigits(c)
  PROVE  Outcome(c)
<1>1. c.vxmlDoing = "recognize"
  BY DEF Coherent, Listening
<1>2. \A result \in {"match", "nomatch"} :
        /\ Reply("Recognized", result) \in ReplyMessages
        /\ Reply("Recognized", result).kind \in AnswerKinds(c.vxmlDoing)
  BY <1>1 DEF Reply, ReplyMessages, ReplyKinds, ReplyResults, AnswerKinds
<1>3. CASE \E result \in {"match", "nomatch"} :
             ReplyTo(ClearPlayAndRec(c), Reply("Recognized", result))
  BY <1>1, <1>2, <1>3, ReplyToOutcome
<1>4. CASE GetOneDigit(c)
  <2> DEFINE getdig == Command("GETDIG", FALSE)
  <2>1. /\ getdig \in Commands
        /\ Serves(getdig.type, c.vxmlDoing)
        /\ getdig.type # "TRANSFER"
    BY <1>1 DEF Command, Commands, CommandTypes, Answered, Serves
  <2>2. SendTo(c, getdig, {})
    BY <1>4 DEF GetOneDigit
  <2> HIDE DEF getdig
  <2> QED
    BY <2>1, <2>2, SendToOutcome
<1> QED
  BY <1>3, <1>4 DEF MatchDigits

\* The prompts are done: what is started is what was requested.
LEMMA StartRequestOutcome ==
  ASSUME NEW c \in Sessions, c.connected, Coherent(c), c.satcDoing = None,
         "play" \notin c.requested, StartRequest(c)
  PROVE  Outcome(c)
<1>1. \A request \in {"wait", "recognize", "record", "transfer"} :
        request \in c.requested => c.vxmlDoing = request
  BY DEF Coherent
<1>2. CASE "wait" \in c.requested
  <2>1. c.vxmlDoing = "wait"
    BY <1>1, <1>2
  <2>2. /\ Reply("Waited", None) \in ReplyMessages
        /\ Reply("Waited", None).kind \in AnswerKinds(c.vxmlDoing)
    BY <2>1 DEF Reply, ReplyMessages, ReplyKinds, ReplyResults, AnswerKinds
  <2>3. ReplyTo(ClearPlayAndRec(c), Reply("Waited", None))
    BY <1>2 DEF StartRequest
  <2> QED
    BY <2>1, <2>2, <2>3, ReplyToOutcome
<1>3. ASSUME NEW type \in {"GETDIG", "RECORD", "TRANSFER"},
             Serves(type, c.vxmlDoing),
             SendTo(c, Command(type, FALSE), {})
      PROVE  Outcome(c)
  <2> DEFINE command == Command(type, FALSE)
  <2>1. /\ command \in Commands
        /\ command.type = type
    BY DEF Command, Commands, CommandTypes, Answered
  <2>2. SendTo(c, command, {})
    BY <1>3
  <2> HIDE DEF command
  <2> QED
    BY <1>3, <2>1, <2>2, SendToOutcome
<1>4. CASE "recognize" \in c.requested /\ GetOneDigit(c)
  BY <1>1, <1>3, <1>4 DEF GetOneDigit, Serves
<1>5. CASE "record" \in c.requested /\ SendTo(c, Command("RECORD", FALSE), {})
  BY <1>1, <1>3, <1>5 DEF Serves
<1>6. CASE /\ "transfer" \in c.requested
           /\ SendTo(c, Command("TRANSFER", FALSE), {})
  BY <1>1, <1>3, <1>6 DEF Serves
<1> QED
  BY <1>2, <1>4, <1>5, <1>6, QuietOutcome DEF StartRequest

\* Prompts are played for the request that came with the play.
LEMMA PlayPromptsOutcome ==
  ASSUME NEW c \in Sessions, c.connected, Coherent(c), c.satcDoing = None,
         "play" \in c.requested, PlayPrompts(c)
  PROVE  Outcome(c)
<1> DEFINE q     == c.queue
           batch == Batch(q)
           dtmf  == FirstDtmf(q)
           audio == [c EXCEPT !.queue = MarkPlayed(q, batch)]
           tones == [c EXCEPT !.queue = MarkPlayed(q, dtmf)]
           done  == DonePrompts(c)
<1>1. c.vxmlDoing \in {"wait", "recognize", "record", "transfer"}
  BY DEF Coherent, Sessions, Pending
<1>2. q \in Seq(Items)
  BY DEF Sessions
<1>3. /\ MarkPlayed(q, batch) \in Seq(Items)
      /\ MarkPlayed(q, dtmf) \in Seq(Items)
  BY <1>2, MarkPlayedType
<1>4. \A next \in {audio, tones, done} :
        /\ next \in Sessions /\ next.connected
        /\ next.satcDoing = c.satcDoing /\ next.vxmlDoing = c.vxmlDoing
        /\ Coherent(next)
  <2>1. ASSUME NEW queue \in Seq(Items)
        PROVE  LET next == [c EXCEPT !.queue = queue]
               IN  /\ next \in Sessions /\ next.connected
                   /\ next.satcDoing = c.satcDoing
                   /\ next.vxmlDoing = c.vxmlDoing
                   /\ Coherent(next)
    BY DEF Sessions, Coherent, Listening
  <2>2. /\ done \in Sessions /\ done.connected
        /\ done.satcDoing = c.satcDoing /\ done.vxmlDoing = c.vxmlDoing
        /\ Coherent(done)
    <3>1. done \in Sessions
      BY ClearedType
    <3> QED
      BY <3>1 DEF DonePrompts, Sessions, Coherent, Listening
  <2> QED
    BY <1>3, <2>1, <2>2
<1>5. "play" \notin done.requested
  BY DEF DonePrompts, Sessions
<1>6. ASSUME NEW next \in {audio, tones, done}, NEW bargein \in BOOLEAN,
             NEW type \in {"PLAY", "PLAYDIG"}, NEW played,
             SendTo(next, Command(type, bargein), played)
      PROVE  Outcome(c)
  <2> DEFINE command == Command(type, bargein)
  <2>1. /\ command \in Commands
        /\ command.type = type
    BY DEF Command, Commands, CommandTypes, Answered
  <2>2. Serves(type, next.vxmlDoing)
    BY <1>1, <1>4 DEF Serves
  <2>3. SendTo(next, command, played)
    BY <1>6
  <2> HIDE DEF command, audio, tones, done
  <2>4. Outcome(next)
    BY <1>4, <2>1, <2>2, <2>3, SendToOutcome
  <2> QED
    BY <1>4, <2>4 DEF Outcome, Continued, AnsweredTo, Commanded
<1>7. ASSUME StartRequest(done)
      PROVE  Outcome(c)
  <2> HIDE DEF audio, tones, done
  <2>1. Outcome(done)
    BY <1>4, <1>5, <1>7, StartRequestOutcome
  <2> QED
    BY <1>4, <2>1 DEF Outcome, Continued, AnsweredTo, Commanded
<1>8. \A i \in DOMAIN q : q[i] \in Items
  BY <1>2, ElementOfSeq
<1>9. (\E i \in batch : q[i].bargein) \in BOOLEAN
  BY DEF Batch
<1> QED
  <2>1. \/ SendTo(done, Command("PLAY", \E i \in batch : q[i].bargein),
                  Numbers(q, batch))
        \/ SendTo(audio, Command("PLAY", \E i \in batch : q[i].bargein),
                  Numbers(q, batch))
        \/ SendTo(tones, Command("PLAYDIG", FALSE), Numbers(q, dtmf))
        \/ Quiet(c)
        \/ StartRequest(done)
    BY Zenon DEF PlayPrompts
  <2> HIDE DEF audio, tones, done, batch, dtmf
  <2> QED
    BY <1>6, <1>7, <1>9, <2>1, QuietOutcome

\* do_prompt_and_listen keeps a coherent session coherent, and does at most
\* one thing for the request that is pending.
LEMMA DoPromptAndListenOutcome ==
  ASSUME NEW c \in Sessions, c.connected, Coherent(c), DoPromptAndListen(c)
  PROVE  Outcome(c)
<1>1. CASE Quiet(c)
  BY <1>1, QuietOutcome
<1>2. CASE /\ MayAct(c) /\ c.timedOut
           /\ ReplyTo(ClearPlayAndRec(c), Reply("Recognized", "noinput"))
  <2>1. c.vxmlDoing = "recognize" /\ c.satcDoing = None
    BY <1>2 DEF MayAct, Coherent, Listening
  <2>2. /\ Reply("Recognized", "noinput") \in ReplyMessages
        /\ Reply("Recognized", "noinput").kind \in AnswerKinds(c.vxmlDoing)
    BY <2>1 DEF Reply, ReplyMessages, ReplyKinds, ReplyResults, AnswerKinds
  <2> QED
    BY <1>2, <2>1, <2>2, ReplyToOutcome
<1>3. CASE MayAct(c) /\ c.gotDtmf /\ MatchDigits(c)
  BY <1>3, MatchDigitsOutcome DEF MayAct
<1>4. CASE MayAct(c) /\ "play" \in c.requested /\ PlayPrompts(c)
  BY <1>4, PlayPromptsOutcome DEF MayAct
<1>5. CASE MayAct(c) /\ "play" \notin c.requested /\ StartRequest(c)
  BY <1>5, StartRequestOutcome DEF MayAct
<1> QED
  BY <1>1, <1>2, <1>3, <1>4, <1>5 DEF DoPromptAndListen

-----------------------------------------------------------------------------
(* Where the command of the call is.                                        *)

\* Nothing of a command is left with the server or on the way back.
Rest ==
  /\ doing = None
  /\ \A i \in DOMAIN fromServer : HungUp(i)
  /\ live \/ \E i \in DOMAIN fromServer : HungUp(i)

\* A sequence with something in it.
LEMMA NonEmptySeq ==
  ASSUME NEW S, NEW s \in Seq(S), s # <<>>
  PROVE  /\ Len(s) \in Nat /\ Len(s) > 0 /\ 1 \in DOMAIN s
         /\ DOMAIN s = 1..Len(s)
         /\ s[1] \in S /\ Head(s) = s[1]
         /\ Len(s) = 1 => Tail(s) = <<>>
         /\ Tail(s) \in Seq(S)
         /\ DOMAIN Tail(s) = 1..(Len(s) - 1)
         /\ \A i \in DOMAIN Tail(s) : i + 1 \in DOMAIN s /\ Tail(s)[i] = s[i+1]
<1>1. Len(s) \in Nat \ {0} /\ DOMAIN s = 1..Len(s)
  BY EmptySeq, LenProperties
<1>2. s[1] \in S
  BY <1>1, ElementOfSeq
<1>3. /\ Tail(s) \in Seq(S) /\ Len(Tail(s)) = Len(s) - 1
      /\ \A i \in 1..Len(Tail(s)) : Tail(s)[i] = s[i+1]
  BY HeadTailProperties
<1>4. DOMAIN Tail(s) = 1..(Len(s) - 1)
  BY <1>3, LenProperties
<1>5. Len(s) = 1 => Tail(s) = <<>>
  <2> DEFINE t == Tail(s)
  <2>1. t \in Seq(S) /\ (Len(s) = 1 => Len(t) = 0)
    BY <1>3
  <2>2. t # <<>> => Len(t) \in Nat \ {0}
    BY <2>1, EmptySeq
  <2> HIDE DEF t
  <2>3. Len(s) = 1 => t = <<>>
    BY <2>1, <2>2
  <2> QED
    BY <2>3 DEF t
<1>6. Head(s) = s[1]
  BY <1>1
<1> QED
  BY <1>1, <1>2, <1>3, <1>4, <1>5, <1>6

\* With no command in satc_doing the server has none.
LEMMA WireAtRest ==
  ASSUME TypeOK, Wire, fh.satcDoing = None
  PROVE  toServer = <<>> /\ Rest
<1>1. toServer # <<>> => toServer[1].type # None
  <2> SUFFICES ASSUME toServer # <<>> PROVE toServer[1].type # None
    OBVIOUS
  <2>1. toServer[1] \in Commands
    BY NonEmptySeq DEF TypeOK
  <2> QED
    BY <2>1 DEF Commands, CommandTypes, Answered, None
<1> QED
  BY <1>1 DEF Wire, Rest, Answers

\* A step that leaves the connection and satc_doing alone.
LEMMA WireUnchanged ==
  ASSUME Wire, fh'.satcDoing = fh.satcDoing,
         UNCHANGED <<toServer, fromServer, live, doing>>
  PROVE  Wire'
BY DEF Wire, Answers, HungUp

\* A call at rest stays at rest or gets one command.
LEMMA WireFromRest ==
  ASSUME TypeOK, toServer = <<>>, Rest',
         \/ fh'.satcDoing = None /\ toServer' = toServer
         \/ \E command \in Commands :
              /\ command.type = fh'.satcDoing
              /\ toServer' = Append(toServer, command)
  PROVE  Wire'
<1>1. CASE fh'.satcDoing = None /\ toServer' = toServer
  BY <1>1 DEF Wire, Rest
<1>2. ASSUME NEW command \in Commands, command.type = fh'.satcDoing,
             toServer' = Append(toServer, command)
      PROVE  Wire'
  <2>1. toServer' = <<command>>
    BY <1>2
  <2>2. Len(toServer') = 1 /\ toServer'[1] = command
    BY <2>1
  <2> QED
    BY <1>2, <2>1, <2>2 DEF Wire, Rest
<1> QED
  BY <1>1, <1>2

\* A step that leaves the server alone and ends in do_prompt_and_listen.
LEMMA OutcomeWire ==
  ASSUME TypeOK, Wire, NEW c, c.satcDoing = fh.satcDoing, Outcome(c),
         UNCHANGED <<fromServer, live, doing>>
  PROVE  Wire'
<1>1. CASE Continued(c)
  BY <1>1, WireUnchanged DEF Continued
<1>2. CASE AnsweredTo(c) \/ Commanded(c)
  <2>1. fh.satcDoing = None
    BY <1>2 DEF AnsweredTo, Commanded
  <2>2. toServer = <<>> /\ Rest
    BY <2>1, WireAtRest
  <2>3. Rest'
    BY <2>2 DEF Rest, HungUp
  <2> QED
    BY <1>2, <2>2, <2>3, WireFromRest DEF AnsweredTo, Commanded
<1> QED
  BY <1>1, <1>2 DEF Outcome

\* A message the server adds is the last one, and the others stay.
LEMMA AppendMessage ==
  ASSUME TypeOK, NEW m, fromServer' = Append(fromServer, m)
  PROVE  /\ fromServer' # <<>>
         /\ DOMAIN fromServer' = 1 .. Len(fromServer) + 1
         /\ DOMAIN fromServer = 1 .. Len(fromServer)
         /\ Len(fromServer) \in Nat
         /\ \A i \in DOMAIN fromServer : fromServer'[i] = fromServer[i]
         /\ fromServer'[Len(fromServer) + 1] = m
BY DEF TypeOK

\* The steps of the server.
LEMMA ServerWire ==
  ASSUME TypeOK, Coherent(fh), Wire, ServerStep, fh' = fh
  PROVE  Wire'
<1>1. toServer # <<>> =>
        /\ Tail(toServer) = <<>> /\ Head(toServer) = toServer[1]
        /\ fh.satcDoing = Head(toServer).type /\ fh.satcDoing # None
        /\ fh.satcDoing # "RELEASE"
        /\ doing = None /\ \A i \in DOMAIN fromServer : HungUp(i)
  <2> SUFFICES ASSUME toServer # <<>>
               PROVE  /\ Tail(toServer) = <<>> /\ Head(toServer) = toServer[1]
                      /\ fh.satcDoing = Head(toServer).type
                      /\ fh.satcDoing # None /\ fh.satcDoing # "RELEASE"
                      /\ doing = None
                      /\ \A i \in DOMAIN fromServer : HungUp(i)
    OBVIOUS
  <2>1. toServer \in Seq(Commands)
    BY DEF TypeOK
  <2>2. Tail(toServer) = <<>> /\ Head(toServer) = toServer[1]
    BY <2>1, NonEmptySeq DEF Wire
  <2>3. toServer[1] \in Commands
    BY <2>1, NonEmptySeq
  <2>4. fh.satcDoing = toServer[1].type /\ fh.satcDoing # None
    BY <2>3 DEF Wire, Commands, CommandTypes, Answered, None
  <2>5. fh.satcDoing # "RELEASE"
    BY <2>4 DEF Coherent, Serves
  <2> QED
    BY <2>2, <2>4, <2>5 DEF Wire, Answers
<1>2. CASE Accept
  BY <1>1, <1>2 DEF Accept, Wire, HungUp
<1>3. CASE Refuse
  <2> DEFINE refusal == RefusalType(fh.satcDoing)
             m       == Message(refusal, NamesCall(refusal), FALSE, None)
  <2> PICK n \in Int : n = Len(fromServer) + 1
    BY LenProperties DEF TypeOK
  <2>1. /\ toServer # <<>> /\ ~live /\ live' = live
        /\ toServer' = <<>> /\ doing' = None
        /\ fromServer' = Append(fromServer, m)
    BY <1>1, <1>3 DEF Refuse
  <2>2. m.type = refusal
    BY DEF Message
  <2> HIDE DEF m
  <2>3. \A i \in DOMAIN fromServer : HungUp(i)'
    BY <1>1, <2>1, AppendMessage DEF HungUp
  <2>4. \E j \in 1..(n-1) : HungUp(j)'
    BY <2>1, <2>3, AppendMessage DEF Wire
  <2>5. fromServer'[n].type = RefusalType(fh'.satcDoing)
    BY <2>1, <2>2, AppendMessage
  <2>6. Answers(n)'
    BY <1>1, <2>1, <2>3, <2>4, <2>5, AppendMessage DEF Answers
  <2> QED
    BY <1>1, <2>1, <2>3, <2>4, <2>6, AppendMessage DEF Wire
<1>4. CASE Release
  BY <1>1, <1>4 DEF Release
<1>5. CASE Complete
  <2>1. PICK m \in Results(doing) : fromServer' = Append(fromServer, m)
    BY <1>5 DEF Complete
  <2>2. m.known /\ m.type = AnswerType(doing)
    <3>1. CASE doing = "GETDIG"
      <4>1. m.known /\ m.type = "GOTDIG"
        BY <2>1, <3>1 DEF Results, Message
      <4> QED
        BY <3>1, <4>1 DEF AnswerType
    <3>2. CASE doing # "GETDIG"
      BY <2>1, <3>2 DEF Results, Message
    <3> QED
      BY <3>1, <3>2
  <2> PICK n \in Int : n = Len(fromServer) + 1
    BY LenProperties DEF TypeOK
  <2>3. /\ doing # None /\ doing = fh.satcDoing
        /\ toServer = <<>> /\ toServer' = <<>>
        /\ doing' = None /\ live' /\ \A i \in DOMAIN fromServer : HungUp(i)
    BY <1>1, <1>5 DEF Complete, Wire, Answers, Answered, None
  <2>4. \A i \in DOMAIN fromServer : HungUp(i)'
    BY <2>1, <2>3, AppendMessage DEF HungUp
  <2>5. Answers(n)'
    BY <2>1, <2>2, <2>3, <2>4, AppendMessage DEF Answers
  <2> QED
    BY <2>1, <2>3, <2>4, <2>5, AppendMessage DEF Wire
<1>6. CASE HangUp
  <2> DEFINE m == Message("HUNGUP", TRUE, TRUE, None)
  <2> PICK n \in Int : n = Len(fromServer) + 1
    BY LenProperties DEF TypeOK
  <2>1. /\ fromServer' = Append(fromServer, m)
        /\ live' = FALSE /\ doing' = None /\ toServer' = toServer
    BY <1>6 DEF HangUp
  <2>2. m.type = "HUNGUP" /\ m.known
    BY DEF Message
  <2> HIDE DEF m
  <2>3. HungUp(n)'
    BY <2>1, <2>2, AppendMessage DEF HungUp
  <2>4. \A i \in DOMAIN fromServer : HungUp(i) => HungUp(i)'
    BY <2>1, AppendMessage DEF HungUp
  <2>5. \A i \in DOMAIN fromServer : Answers(i) => Answers(i)'
    <3> SUFFICES ASSUME NEW i \in DOMAIN fromServer, Answers(i)
                 PROVE  Answers(i)'
      OBVIOUS
    <3>1. \A j \in DOMAIN fromServer' : j # i => HungUp(j)'
      BY <2>1, <2>3, <2>4, AppendMessage DEF Answers
    <3>2. (\E j \in 1..(i-1) : HungUp(j)) => (\E j \in 1..(i-1) : HungUp(j)')
      BY <2>1, <2>4, AppendMessage
    <3> QED
      BY <2>1, <3>1, <3>2, AppendMessage DEF Answers
  <2> QED
    BY <1>1, <2>1, <2>3, <2>4, <2>5, AppendMessage DEF Wire
<1> QED
  BY <1>2, <1>3, <1>4, <1>5, <1>6 DEF ServerStep

-----------------------------------------------------------------------------
(* Requests and replies.                                                    *)

\* A request that is pending is the one the interpreter is blocked on.
LEMMA PendingBlocked ==
  ASSUME InStep, fh.connected, fh.vxmlDoing # None
  PROVE  interp = fh.vxmlDoing /\ replies = <<>> /\ Fetches = {}
BY DEF InStep, Fetches

\* An interpreter that is not blocked has nothing pending and nothing to read.
LEMMA NothingPending ==
  ASSUME InStep, fh.connected, interp \notin Requests, Coherent(fh)
  PROVE  /\ replies = <<>> /\ fh.vxmlDoing = None /\ Fetches = {}
         /\ fh.satcDoing = None /\ fh.requested = {} /\ ~Listening(fh)
<1>1. replies = <<>> /\ fh.vxmlDoing = None /\ Fetches = {}
  BY DEF InStep, Fetches
<1> QED
  BY <1>1 DEF Coherent, Serves, None

\* The request is pending and its interpreter blocked on it.
LEMMA StillBlocked ==
  ASSUME interp' \in Requests, fh'.vxmlDoing = interp',
         replies' = <<>>, Fetches' = {}
  PROVE  InStep'
BY DEF InStep, Fetches

\* The request has its reply.
LEMMA Replied ==
  ASSUME interp' \in Requests, fh'.vxmlDoing = None, Fetches' = {},
         NEW reply \in ReplyMessages, replies' = Append(<<>>, reply),
         reply.kind \in AnswerKinds(interp')
  PROVE  InStep'
<1>1. replies' = <<reply>>
  OBVIOUS
<1>2. Len(replies') = 1 /\ replies'[1] = reply
  BY <1>1
<1> QED
  BY <1>2 DEF InStep, Fetches

\* A step that ends in do_prompt_and_listen for the request of a blocked
\* interpreter.
LEMMA OutcomeInStep ==
  ASSUME NEW c \in Sessions, Outcome(c), c.vxmlDoing # None,
         interp' = c.vxmlDoing, replies = <<>>, Fetches' = {}
  PROVE  InStep'
<1>1. interp' \in Requests
  BY DEF Sessions, Pending, Requests
<1>2. CASE Continued(c) \/ Commanded(c)
  BY <1>1, <1>2, StillBlocked DEF Continued, Commanded
<1>3. CASE AnsweredTo(c)
  BY <1>1, <1>3, Replied DEF AnsweredTo
<1> QED
  BY <1>2, <1>3 DEF Outcome

\* With no request pending do_prompt_and_listen does nothing.
LEMMA OutcomeIdle ==
  ASSUME NEW c, Outcome(c), c.vxmlDoing = None
  PROVE  Continued(c)
<1>1. ~AnsweredTo(c)
  BY DEF AnsweredTo
<1>2. ~Commanded(c)
  <2> SUFFICES ASSUME Commanded(c) PROVE FALSE
    OBVIOUS
  <2>1. fh'.satcDoing # None
    BY DEF Commanded, Commands, CommandTypes, Answered, None
  <2> QED
    BY <2>1 DEF Commanded, Outcome, Coherent, Serves, None
<1> QED
  BY <1>1, <1>2 DEF Outcome

-----------------------------------------------------------------------------
(* A call whose caller is gone stays so, and is sent returned variables only. *)

\* What a handler may do for a call that is gone.
LastWords ==
  /\ ~fh'.connected
  /\ \/ toServer' = toServer
     \/ \E command \in Commands :
          command.type = "RETURNVAR" /\ toServer' = Append(toServer, command)

\* Keeping the session or replying sends the server nothing.
LEMMA GoneQuiet ==
  ASSUME NEW c \in Sessions, ~c.connected,
         Quiet(c) \/ \E reply \in ReplyMessages : ReplyTo(c, reply)
  PROVE  LastWords
BY DEF Quiet, ReplyTo, LastWords, Sessions

\* do_prompt_and_listen returns at once for a call that is gone.
LEMMA GonePrompt ==
  ASSUME NEW c \in Sessions, ~c.connected, DoPromptAndListen(c)
  PROVE  LastWords
<1>1. Quiet(c)
  BY DEF DoPromptAndListen, MayAct
<1> QED
  BY <1>1, GoneQuiet

\* The requests about the call are answered as if it were over, but for a
\* returned variable.
LEMMA GoneRequest ==
  ASSUME TypeOK, ~fh.connected,
         \/ HandlePlay \/ HandleGetLineStatus \/ HandleWait
         \/ HandleRecord \/ HandleTransfer \/ HandleExitval
         \/ HandleDisconnect
  PROVE  LastWords
<1>1. fh \in Sessions
  BY DEF TypeOK
<1>2. CASE HandlePlay \/ HandleGetLineStatus \/ HandleWait
  BY <1>1, <1>2, GoneQuiet, ImmediateReplyType
  DEF HandlePlay, HandleGetLineStatus, HandleWait
<1>3. CASE HandleRecord \/ HandleTransfer
  BY <1>1, <1>3, GoneQuiet, ImmediateReplyType DEF HandleRecord, HandleTransfer
<1>4. CASE HandleExitval
  <2> DEFINE command == Command("RETURNVAR", FALSE)
             c       == [fh EXCEPT !.vxmlDoing = "exitval"]
  <2>1. SendTo(c, command, {})
    BY <1>4 DEF HandleExitval
  <2>2. command \in Commands /\ command.type = "RETURNVAR"
    BY DEF Command, Commands, CommandTypes, Answered
  <2>3. ~c.connected /\ c \in Sessions
    BY <1>1 DEF Sessions, Pending
  <2> HIDE DEF command, c
  <2> QED
    BY <2>1, <2>2, <2>3 DEF SendTo, LastWords, Sessions
<1>5. CASE HandleDisconnect
  BY <1>1, <1>5, GoneQuiet DEF HandleDisconnect
<1> QED
  BY <1>2, <1>3, <1>4, <1>5

\* The same for a recognition.
LEMMA GoneRecognize ==
  ASSUME TypeOK, ~fh.connected, NEW t, NEW k, HandleRecognize(t, k)
  PROVE  LastWords
BY GoneQuiet, ImmediateReplyType DEF TypeOK, HandleRecognize

\* Queueing a prompt plays nothing.
LEMMA GoneEnqueue ==
  ASSUME TypeOK, ~fh.connected, NEW item, Enqueue(item)
  PROVE  LastWords
BY DEF TypeOK, Sessions, Enqueue, Quiet, LastWords

\* Nor do the requests that fetch or make something.
LEMMA GoneQueueRequest ==
  ASSUME TypeOK, ~fh.connected,
         \/ \E bargein \in BOOLEAN : HandleQueueAudio(bargein)
                                       \/ HandlePcmQueue(bargein)
         \/ HandleQueueDtmf \/ HandleHttpGet \/ HandleVxmlParse
  PROVE  LastWords
<1>1. ASSUME NEW bargein \in BOOLEAN,
             HandleQueueAudio(bargein) \/ HandlePcmQueue(bargein)
      PROVE  LastWords
  BY <1>1, GoneEnqueue DEF HandleQueueAudio, HandlePcmQueue
<1>2. CASE HandleQueueDtmf
  BY <1>2, GoneEnqueue DEF HandleQueueDtmf
<1>3. CASE HandleHttpGet \/ HandleVxmlParse
  BY <1>3 DEF HandleHttpGet, HandleVxmlParse, Quiet, LastWords, TypeOK, Sessions
<1> QED
  BY <1>1, <1>2, <1>3

\* An interpreter that ends has no call to release.
LEMMA GoneEndThread ==
  ASSUME TypeOK, ~fh.connected, EndThread
  PROVE  LastWords
<1>1. toServer' = toServer
  BY ConcatEmptySeq DEF TypeOK, EndThread, LeaveCall
<1> QED
  BY <1>1 DEF EndThread, LastWords, Idle

\* The records handlers of SATC messages pass on.
LEMMA ReceivedSessions ==
  ASSUME TypeOK, fromServer # <<>>
  PROVE  /\ Free \in Sessions /\ ClearPlayAndRec(Free) \in Sessions
         /\ Free.connected = fh.connected
         /\ ClearPlayAndRec(Free).connected = fh.connected
         /\ Received \in Messages
         /\ Received.type = "GOTDIG" /\ Received.ok =>
              KeyReceived \in Sessions /\ KeyReceived.connected = fh.connected
<1>1. Free \in Sessions /\ Free.connected = fh.connected
  BY DEF TypeOK, Free, Sessions
<1>2. /\ ClearPlayAndRec(Free) \in Sessions
      /\ ClearPlayAndRec(Free).connected = fh.connected
  BY <1>1, ClearedType DEF ClearPlayAndRec, Sessions
<1>3. Received \in Messages
  BY HeadTailProperties DEF TypeOK, Received
<1>4. ASSUME Received.type = "GOTDIG", Received.ok
      PROVE  KeyReceived \in Sessions /\ KeyReceived.connected = fh.connected
  <2>1. KeyReceived \in Sessions
    BY <1>3, <1>4, KeyReceivedType DEF Messages
  <2>2. KeyReceived.connected = fh.connected
    BY <1>1 DEF KeyReceived, Sessions
  <2> QED
    BY <2>1, <2>2
<1> QED
  BY <1>1, <1>2, <1>3, <1>4

\* Late messages of the server.
LEMMA GoneSatcMessage ==
  ASSUME TypeOK, ~fh.connected, SatcMessage
  PROVE  LastWords
<1>1. fromServer # <<>>
  BY DEF SatcMessage, SatcIgnored, SatcUnsupported, SatcGotdig, SatcPlayed,
         SatcTransfered, SatcRecorded, SatcReturnedvar, SatcHungupOrReleased,
         Receive
<1>2. /\ Free \in Sessions /\ ClearPlayAndRec(Free) \in Sessions
      /\ ~Free.connected /\ ~ClearPlayAndRec(Free).connected
      /\ Received.type = "GOTDIG" /\ Received.ok =>
           KeyReceived \in Sessions /\ ~KeyReceived.connected
  BY <1>1, ReceivedSessions
<1>3. CASE SatcIgnored
  BY <1>3 DEF SatcIgnored, sessionVars, LastWords
<1>4. CASE SatcUnsupported
  BY <1>2, <1>4, GoneQuiet DEF SatcUnsupported
<1>5. CASE SatcGotdig
  <2>1. Reply("Recognized", "failure") \in ReplyMessages
    BY DEF Reply, ReplyMessages, ReplyKinds, ReplyResults
  <2>2. Received.type = "GOTDIG"
    BY <1>5 DEF SatcGotdig, Receive, Received
  <2>3. \/ ReplyTo(ClearPlayAndRec(Free), Reply("Recognized", "failure"))
        \/ Received.ok /\ DoPromptAndListen(KeyReceived)
    BY <1>5 DEF SatcGotdig
  <2> QED
    BY <1>2, <2>1, <2>2, <2>3, GoneQuiet, GonePrompt
<1>6. CASE SatcPlayed
  BY <1>2, <1>6, GonePrompt DEF SatcPlayed
<1>7. CASE SatcTransfered
  <2> DEFINE c == [Free EXCEPT !.requested = @ \ {"transfer"}]
  <2>1. c \in Sessions /\ ~c.connected
    BY <1>2 DEF Sessions
  <2>2. Reply("Transferred", None) \in ReplyMessages
    BY DEF Reply, ReplyMessages, ReplyKinds, ReplyResults
  <2>3. ReplyTo(c, Reply("Transferred", None))
    BY <1>7 DEF SatcTransfered
  <2> HIDE DEF c
  <2> QED
    BY <2>1, <2>2, <2>3, GoneQuiet
<1>8. CASE SatcRecorded
  <2>1. /\ Reply("Recorded", "ready") \in ReplyMessages
        /\ Reply("Recorded", "failure") \in ReplyMessages
    BY DEF Reply, ReplyMessages, ReplyKinds, ReplyResults
  <2> QED
    BY <1>2, <1>8, <2>1, GoneQuiet DEF SatcRecorded
<1>9. CASE SatcReturnedvar
  <2>1. Reply("exitedval", None) \in ReplyMessages
    BY DEF Reply, ReplyMessages, ReplyKinds, ReplyResults
  <2> QED
    BY <1>2, <1>9, <2>1, GoneQuiet DEF SatcReturnedvar
<1>10. CASE SatcHungupOrReleased
  <2> DEFINE c == [Free EXCEPT !.connected = FALSE]
  <2>1. c \in Sessions /\ ~c.connected
    BY <1>2 DEF Sessions
  <2>2. \A request \in AnsweredAtHangup :
          HangupReply(request) \in ReplyMessages
    BY DEF AnsweredAtHangup, HangupReply, Disconnected, Reply,
           ReplyMessages, ReplyKinds, ReplyResults
  <2>3. \/ Quiet(c)
        \/ /\ fh.vxmlDoing \in AnsweredAtHangup
           /\ ReplyTo(c, HangupReply(fh.vxmlDoing))
    BY <1>10 DEF SatcHungupOrReleased
  <2> HIDE DEF c
  <2> QED
    BY <2>1, <2>2, <2>3, GoneQuiet
<1> QED
  BY <1>3, <1>4, <1>5, <1>6, <1>7, <1>8, <1>9, <1>10 DEF SatcMessage

\* A session that is handed a page changes in fetchId only.
LEMMA HandOverType ==
  ASSUME NEW r \in CacheRequests, NEW status, fh \in Sessions
  PROVE  /\ HandOver(r, status) \in Sessions
         /\ HandOver(r, status).connected = fh.connected
         /\ HandOver(r, status).satcDoing = fh.satcDoing
         /\ HandOver(r, status).vxmlDoing = fh.vxmlDoing
         /\ HandOver(r, status).requested = fh.requested
         /\ Listening(HandOver(r, status)) = Listening(fh)
<1>1. r.id \in 0..IdSpan
  BY DEF CacheRequests
<1> QED
  BY <1>1 DEF HandOver, Sessions, Listening

\* Late prompts and pages.
LEMMA GoneHttpCache ==
  ASSUME TypeOK, ~fh.connected, HttpCacheDone
  PROVE  LastWords
<1>1. PICK r \in hc, status \in {-1, 0, 1} :
        HttpCacheAudio(r, status) \/ HttpCachePage(r, status)
  BY DEF HttpCacheDone
<1>2. fh \in Sessions /\ r \in CacheRequests
  BY DEF TypeOK
<1>3. CASE HttpCacheAudio(r, status)
  BY <1>2, <1>3, GoneQuiet DEF HttpCacheAudio
<1>4. CASE HttpCachePage(r, status)
  <2> DEFINE reply == Reply("path", CASE status = -1 -> "failure"
                                      [] status = 0  -> "parse"
                                      [] status = 1  -> "ready")
  <2>1. HandOver(r, status) \in Sessions /\ ~HandOver(r, status).connected
    BY <1>2, HandOverType
  <2>2. reply \in ReplyMessages
    BY DEF Reply, ReplyMessages, ReplyKinds, ReplyResults
  <2>3. Quiet(fh) \/ ReplyTo(HandOver(r, status), reply)
    BY <1>4 DEF HttpCachePage
  <2> HIDE DEF reply
  <2> QED
    BY <1>2, <2>1, <2>2, <2>3, GoneQuiet
<1> QED
  BY <1>1, <1>3, <1>4

\* Every step of voiceglue for a call that is gone.
LEMMA GoneStep ==
  ASSUME TypeOK, ~fh.connected, [Next]_vars
  PROVE  LastWords \/ Server
<1>1. CASE InterpRequest
  <2>1. CASE \E t \in TermTimeouts, k \in TermChars : HandleRecognize(t, k)
    BY <2>1, GoneRecognize
  <2>2. CASE EndThread
    BY <2>2, GoneEndThread
  <2> QED
    BY <1>1, <2>1, <2>2, GoneRequest, GoneQueueRequest DEF InterpRequest
<1>2. CASE InterpRead
  BY <1>2 DEF InterpRead, serverVars, LastWords
<1>3. CASE SatcMessage
  BY <1>3, GoneSatcMessage
<1>4. CASE HttpCacheDone
  BY <1>4, GoneHttpCache
<1>5. CASE UNCHANGED vars
  BY <1>5 DEF vars, serverVars, sessionVars, LastWords
<1> QED
  BY <1>1, <1>2, <1>3, <1>4, <1>5 DEF Next

\* The server takes commands and sends none.
LEMMA ServerSendsNothing ==
  ASSUME TypeOK, ServerStep
  PROVE  ~Sends
<1>1. toServer' = toServer \/ (toServer # <<>> /\ toServer' = Tail(toServer))
  BY DEF ServerStep, Accept, Refuse, Release, Complete, HangUp
<1> QED
  BY <1>1, HeadTailProperties, LenProperties DEF TypeOK, Sends

\* A call that is hung up gets no command but the returned variables of its
\* page, whatever a late prompt, a late answer of the server or the interpreter
\* makes voiceglue do.
THEOREM QuietAfterDisconnect == Spec => NothingAfterDisconnect
<1>1. TypeOK /\ [Next]_vars
        => [Sends /\ ~fh.connected => Sent.type = "RETURNVAR"]_vars
  <2> SUFFICES ASSUME TypeOK, [Next]_vars, Sends, ~fh.connected
               PROVE  Sent.type = "RETURNVAR"
    OBVIOUS
  <2>1. LastWords
    BY GoneStep, ServerSendsNothing DEF Server
  <2>2. toServer' # toServer
    BY LenProperties DEF Sends, TypeOK
  <2>3. PICK command \in Commands :
          command.type = "RETURNVAR" /\ toServer' = Append(toServer, command)
    BY <2>1, <2>2 DEF LastWords
  <2>4. Sent = command
    BY <2>3 DEF Sent, TypeOK
  <2> QED
    BY <2>3, <2>4
<1> QED
  BY <1>1, TypeCorrect, PTL DEF Spec, NothingAfterDisconnect

-----------------------------------------------------------------------------
(* Steps of a connected call.                                               *)

\* The part of IInv beyond the types holds of a call that is gone.
LEMMA JointGone ==
  ASSUME ~fh'.connected
  PROVE  Joint'
BY DEF Joint, InStep

\* A session that differs from fh in its prompts or terminator only.
Alike(c) ==
  /\ c.connected = fh.connected
  /\ c.satcDoing = fh.satcDoing /\ c.vxmlDoing = fh.vxmlDoing
  /\ c.requested = fh.requested /\ Listening(c) = Listening(fh)

\* What makes a session coherent is the same in both.
LEMMA AlikeCoherent ==
  ASSUME NEW c, Alike(c), Coherent(fh)
  PROVE  Coherent(c)
BY DEF Alike, Coherent

\* A step that changes prompts, terminator or the request ids only.
LEMMA AlikeStep ==
  ASSUME Joint, fh.connected, Alike(fh'), Fetches' = Fetches,
         UNCHANGED <<toServer, fromServer, live, doing, replies>>,
         \/ interp' = interp
         \/ {interp, interp'} \cap Requests = {} /\ interp' # "ended"
  PROVE  Joint'
<1>1. Coherent(fh')
  BY AlikeCoherent DEF Joint
<1>2. Wire'
  BY WireUnchanged DEF Joint, Alike
<1>3. OneFetch'
  BY DEF Joint, OneFetch
<1>4. InStep'
  BY DEF Joint, InStep, Fetches, Alike
<1> QED
  BY <1>1, <1>2, <1>3, <1>4 DEF Joint

\* A reply to the request the interpreter is blocked on.
LEMMA RepliedStep ==
  ASSUME NEW c \in Sessions, c.connected, c.satcDoing = None,
         c.requested = {}, ~Listening(c),
         NEW reply \in ReplyMessages, ReplyTo(c, reply),
         interp' \in Requests, reply.kind \in AnswerKinds(interp'),
         replies = <<>>, Fetches' = {}, Wire'
  PROVE  Joint'
<1>1. /\ fh'.connected = c.connected /\ fh'.satcDoing = c.satcDoing
      /\ fh'.vxmlDoing = None /\ fh'.requested = c.requested
      /\ Listening(fh') = Listening(c)
  BY DEF ReplyTo, Sessions, Listening
<1>2. Coherent(fh')
  BY <1>1 DEF Coherent, None
<1>3. InStep'
  BY <1>1, Replied DEF ReplyTo
<1>4. OneFetch'
  BY DEF OneFetch, Requests
<1> QED
  BY <1>2, <1>3, <1>4 DEF Joint

\* A step that ends in do_prompt_and_listen for the pending request.
LEMMA PendingStep ==
  ASSUME NEW c \in Sessions, Outcome(c), c.vxmlDoing # None,
         interp' = c.vxmlDoing, replies = <<>>, Fetches' = {}, Wire'
  PROVE  Joint'
<1>1. InStep'
  BY OutcomeInStep
<1>2. OneFetch'
  BY DEF OneFetch, Sessions, Pending
<1> QED
  BY <1>1, <1>2 DEF Joint, Outcome

\* A request of an interpreter that runs, left pending.
LEMMA StartPendingStep ==
  ASSUME TypeOK, Joint, fh.connected, interp = "running",
         NEW request \in {"wait", "recognize", "record", "transfer"},
         interp' = request,
         NEW c \in Sessions, Alike(c), StartPending(c, request),
         UNCHANGED <<fromServer, live, doing, hc>>
  PROVE  Joint'
<1> DEFINE d == [c EXCEPT !.requested = @ \cup {"play", request},
                          !.vxmlDoing = request]
<1>1. /\ replies = <<>> /\ fh.vxmlDoing = None /\ Fetches = {}
      /\ fh.satcDoing = None /\ fh.requested = {} /\ ~Listening(fh)
  BY NothingPending DEF Joint, Requests
<1>2. d \in Sessions
  <2>1. c.requested \cup {"play", request}
          \in SUBSET {"play", "wait", "recognize", "record", "transfer"}
    BY DEF Sessions
  <2> QED
    BY <2>1 DEF Sessions, Pending
<1>3. /\ d.connected /\ d.satcDoing = None /\ d.vxmlDoing = request
      /\ d.requested = {"play", request} /\ ~Listening(d)
  BY <1>1 DEF Sessions, Alike, Listening
<1>4. DoPromptAndListen(d)
  BY DEF StartPending
<1> HIDE DEF d
<1>5. Coherent(d)
  BY <1>3 DEF Coherent, None
<1>6. Outcome(d)
  BY <1>2, <1>3, <1>4, <1>5, DoPromptAndListenOutcome
<1>7. Wire'
  BY <1>1, <1>3, <1>6, OutcomeWire DEF Joint
<1>8. Fetches' = {}
  BY <1>1 DEF Fetches
<1>9. d.vxmlDoing # None /\ interp' = d.vxmlDoing
  BY <1>3 DEF None
<1> QED
  BY <1>1, <1>2, <1>6, <1>7, <1>8, <1>9, PendingStep

\* A request of an interpreter that runs, replied to at once.
LEMMA ImmediateStep ==
  ASSUME TypeOK, Joint, fh.connected, interp = "running", interp' \in Requests,
         NEW reply \in ReplyMessages, reply.kind \in AnswerKinds(interp'),
         ReplyTo(fh, reply), UNCHANGED <<fromServer, live, doing, hc>>
  PROVE  Joint'
<1>1. /\ replies = <<>> /\ fh.vxmlDoing = None /\ Fetches = {}
      /\ fh.satcDoing = None /\ fh.requested = {} /\ ~Listening(fh)
  BY NothingPending DEF Joint, Requests
<1>2. fh \in Sessions
  BY DEF TypeOK
<1>3. fh'.satcDoing = fh.satcDoing /\ toServer' = toServer
  BY <1>2 DEF ReplyTo, Sessions
<1>4. Wire'
  BY <1>3, WireUnchanged DEF Joint
<1>5. Fetches' = {}
  BY <1>1 DEF Fetches
<1> QED
  BY <1>1, <1>2, <1>4, <1>5, RepliedStep

\* Replies given at once, and requests a hangup answers.
LEMMA ReplyKindsMatch ==
  /\ Reply("Played", None).kind \in AnswerKinds("play")
  /\ \A result \in ReplyResults :
       Reply("LineStatus", result).kind \in AnswerKinds("getlinestatus")
  /\ Reply("Waited", None).kind \in AnswerKinds("wait")
BY DEF Reply, AnswerKinds

\* The requests about the call, but for those with a lemma of their own.
LEMMA CallRequestStep ==
  ASSUME TypeOK, Joint, fh.connected,
         \/ HandlePlay \/ HandleGetLineStatus \/ HandleWait
         \/ HandleRecord \/ HandleTransfer
  PROVE  Joint'
<1>1. fh \in Sessions /\ Alike(fh)
  BY DEF TypeOK, Alike
<1>2. CASE HandlePlay
  <2>1. /\ interp = "running" /\ interp' = "play"
        /\ ReplyTo(fh, Reply("Played", None))
        /\ UNCHANGED <<fromServer, live, doing, hc>>
    BY <1>2 DEF HandlePlay, Request, cacheVars
  <2> QED
    BY <2>1, ImmediateReplyType, ReplyKindsMatch, ImmediateStep DEF Requests
<1>3. CASE HandleGetLineStatus
  <2>1. /\ interp = "running" /\ interp' = "getlinestatus"
        /\ ReplyTo(fh, Reply("LineStatus", "connected"))
        /\ UNCHANGED <<fromServer, live, doing, hc>>
    BY <1>3 DEF HandleGetLineStatus, Request, cacheVars
  <2>2. "connected" \in ReplyResults
    BY DEF ReplyResults
  <2> QED
    BY <2>1, <2>2, ImmediateReplyType, ReplyKindsMatch, ImmediateStep
    DEF Requests
<1>4. CASE HandleWait
  <2>1. /\ interp = "running" /\ interp' = "wait"
        /\ StartPending(fh, "wait") \/ ReplyTo(fh, Reply("Waited", None))
        /\ UNCHANGED <<fromServer, live, doing, hc>>
    BY <1>4 DEF HandleWait, Request, cacheVars
  <2>2. CASE StartPending(fh, "wait")
    BY <1>1, <2>1, <2>2, StartPendingStep
  <2>3. CASE ReplyTo(fh, Reply("Waited", None))
    BY <2>1, <2>3, ImmediateReplyType, ReplyKindsMatch, ImmediateStep
    DEF Requests
  <2> QED
    BY <2>1, <2>2, <2>3
<1>5. CASE HandleRecord
  <2>1. /\ interp = "running" /\ interp' = "record"
        /\ StartPending(fh, "record")
        /\ UNCHANGED <<fromServer, live, doing, hc>>
    BY <1>5 DEF HandleRecord, Request, cacheVars
  <2> QED
    BY <1>1, <2>1, StartPendingStep
<1>6. CASE HandleTransfer
  <2>1. /\ interp = "running" /\ interp' = "transfer"
        /\ StartPending(fh, "transfer")
        /\ UNCHANGED <<fromServer, live, doing, hc>>
    BY <1>6 DEF HandleTransfer, Request, cacheVars
  <2> QED
    BY <1>1, <2>1, StartPendingStep
<1> QED
  BY <1>2, <1>3, <1>4, <1>5, <1>6

\* A recognition starts from an empty session.
LEMMA RecognizeStep ==
  ASSUME TypeOK, Joint, fh.connected,
         NEW t \in TermTimeouts, NEW k \in TermChars, HandleRecognize(t, k)
  PROVE  Joint'
<1> DEFINE c == [fh EXCEPT !.termtimeout = t, !.termchar = k]
<1>1. /\ interp = "running" /\ interp' = "recognize"
      /\ StartPending(c, "recognize")
      /\ UNCHANGED <<fromServer, live, doing, hc>>
  BY DEF HandleRecognize, Request, cacheVars
<1>2. c \in Sessions
  <2>1. t \in Nat /\ k \in Keys \cup {None} /\ fh \in Sessions
    BY CallAssumption DEF TypeOK
  <2> QED
    BY <2>1 DEF Sessions
<1>3. Alike(c)
  BY DEF TypeOK, Sessions, Alike, Listening
<1> HIDE DEF c
<1> QED
  BY <1>1, <1>2, <1>3, StartPendingStep

\* A returned variable is the only request that sends a command of its own.
LEMMA ExitvalStep ==
  ASSUME TypeOK, Joint, fh.connected, HandleExitval
  PROVE  Joint'
<1> DEFINE command == Command("RETURNVAR", FALSE)
           c       == [fh EXCEPT !.vxmlDoing = "exitval"]
<1>1. /\ interp \in {"running", "exiting"} /\ interp' = "exitval"
      /\ SendTo(c, command, {})
      /\ UNCHANGED <<fromServer, live, doing, hc>>
  BY DEF HandleExitval, Request, cacheVars
<1>2. command \in Commands /\ command.type = "RETURNVAR"
  BY DEF Command, Commands, CommandTypes, Answered
<1>3. /\ replies = <<>> /\ fh.vxmlDoing = None /\ Fetches = {}
      /\ fh.satcDoing = None /\ fh.requested = {} /\ ~Listening(fh)
  BY <1>1, NothingPending DEF Joint, Requests
<1>4. /\ fh'.connected /\ fh'.satcDoing = "RETURNVAR"
      /\ fh'.vxmlDoing = "exitval" /\ fh'.requested = {} /\ ~Listening(fh')
      /\ toServer' = Append(toServer, command) /\ replies' = <<>>
  BY <1>1, <1>2, <1>3 DEF TypeOK, SendTo, Sessions, Listening
<1> HIDE DEF command, c
<1>5. Coherent(fh')
  BY <1>4 DEF Coherent, Serves, None
<1>6. Wire'
  <2>1. toServer = <<>> /\ Rest
    BY <1>3, WireAtRest DEF Joint
  <2>2. Rest'
    BY <1>1, <2>1 DEF Rest, HungUp
  <2> QED
    BY <1>2, <1>4, <2>1, <2>2, WireFromRest
<1>7. Fetches' = {}
  BY <1>1, <1>3 DEF Fetches
<1>8. InStep' /\ OneFetch'
  BY <1>1, <1>4, <1>7, StillBlocked DEF OneFetch, Requests
<1> QED
  BY <1>5, <1>6, <1>8 DEF Joint

\* Queueing prompts leaves everything else alone.
LEMMA QueueStep ==
  ASSUME TypeOK, Joint, fh.connected,
         \/ \E bargein \in BOOLEAN : HandleQueueAudio(bargein)
                                       \/ HandlePcmQueue(bargein)
         \/ HandleQueueDtmf
  PROVE  Joint'
<1>1. PICK item : Enqueue(item)
  BY DEF HandleQueueAudio, HandlePcmQueue, HandleQueueDtmf
<1>2. Alike(fh') /\ UNCHANGED <<toServer, replies>>
  BY <1>1 DEF TypeOK, Enqueue, Quiet, Alike, Sessions, Listening
<1>3. interp' = "running" /\ interp = "running"
      /\ UNCHANGED <<fromServer, live, doing>>
  BY DEF HandleQueueAudio, HandlePcmQueue, HandleQueueDtmf, Request
<1>4. Fetches' = Fetches
  <2>1. hc' = hc \/ \E r : r.type = "a" /\ hc' = hc \cup {r}
    <3>1. ASSUME NEW bargein \in BOOLEAN, HandleQueueAudio(bargein)
          PROVE  \E r : r.type = "a" /\ hc' = hc \cup {r}
      BY <3>1 DEF HandleQueueAudio
    <3> QED
      BY <3>1 DEF HandlePcmQueue, HandleQueueDtmf
  <2> QED
    BY <2>1 DEF Fetches
<1> QED
  BY <1>2, <1>3, <1>4, AlikeStep

\* A page is asked for: the http cache owes the reply.
LEMMA HttpGetStep ==
  ASSUME TypeOK, Joint, fh.connected, HandleHttpGet
  PROVE  Joint'
<1> DEFINE r == [id |-> nextId, type |-> "v", index |-> 0]
<1>1. /\ interp = "running" /\ interp' = "httpget"
      /\ UNCHANGED <<fh, toServer, replies, fromServer, live, doing>>
      /\ hc' = hc \cup {r}
  BY DEF HandleHttpGet, Request, Quiet
<1>2. /\ replies = <<>> /\ fh.vxmlDoing = None /\ Fetches = {}
  BY <1>1, NothingPending DEF Joint, Requests
<1>3. Fetches' = {r}
  BY <1>1, <1>2 DEF Fetches
<1> HIDE DEF r
<1>4. Coherent(fh') /\ Wire'
  BY <1>1, WireUnchanged DEF Joint
<1>5. OneFetch'
  BY <1>1, <1>3 DEF OneFetch
<1>6. InStep'
  BY <1>1, <1>2, <1>3 DEF InStep, Fetches, Requests
<1> QED
  BY <1>4, <1>5, <1>6 DEF Joint

\* A parse that is reported leaves the call alone.
LEMMA VxmlParseStep ==
  ASSUME TypeOK, Joint, fh.connected, HandleVxmlParse
  PROVE  Joint'
<1>1. Alike(fh')
  BY DEF HandleVxmlParse, Quiet, TypeOK, Sessions, Alike, Listening
<1>2. /\ interp = "parsing" /\ interp' = "running"
      /\ UNCHANGED <<toServer, replies, fromServer, live, doing>>
      /\ Fetches' = Fetches
  BY DEF HandleVxmlParse, Request, Quiet, Fetches
<1> QED
  BY <1>1, <1>2, AlikeStep DEF Requests

\* Every request of the interpreter.
LEMMA InterpRequestStep ==
  ASSUME TypeOK, Joint, fh.connected, InterpRequest
  PROVE  Joint'
<1>1. CASE \E t \in TermTimeouts, k \in TermChars : HandleRecognize(t, k)
  BY <1>1, RecognizeStep
<1>2. CASE HandleExitval
  BY <1>2, ExitvalStep
<1>3. CASE HandleDisconnect
  BY <1>3, JointGone
  DEF HandleDisconnect, SendTo, TypeOK, Sessions
<1>4. CASE EndThread
  BY <1>4, JointGone DEF EndThread, Idle
<1> QED
  BY <1>1, <1>2, <1>3, <1>4, CallRequestStep, QueueStep, HttpGetStep,
     VxmlParseStep
  DEF InterpRequest

\* An interpreter that reads its reply has read all of them.
LEMMA InterpReadStep ==
  ASSUME TypeOK, Joint, fh.connected, InterpRead
  PROVE  Joint'
<1>1. PICK k \in 1..Len(replies) :
        replies' = SubSeq(replies, k + 1, Len(replies))
  BY DEF InterpRead
<1>2. /\ interp \in Requests
      /\ interp' \in {"exiting", "parsing", "running"}
      /\ UNCHANGED <<serverVars, fh, hc>>
  BY DEF InterpRead, cacheVars
<1>3. replies # <<>>
  BY <1>1
<1>4. Len(replies) = 1 /\ fh.vxmlDoing = None /\ Fetches = {}
  BY <1>2, <1>3 DEF Joint, InStep, Fetches
<1>5. replies' = <<>>
  BY <1>1, <1>4, SubSeqEmpty
<1>6. Wire'
  BY <1>2, WireUnchanged DEF Joint, serverVars
<1>7. InStep' /\ OneFetch' /\ Coherent(fh')
  BY <1>2, <1>4, <1>5 DEF Joint, InStep, OneFetch, Fetches, Requests
<1> QED
  BY <1>6, <1>7 DEF Joint

-----------------------------------------------------------------------------
(* Messages of the server and the http cache for a connected call.          *)

\* Which command a message answers.
LEMMA AnswerTypeInverse ==
  ASSUME NEW command, NEW request, Serves(command, request)
  PROVE  /\ AnswerType(command) \notin {"HUNGUP", "RELEASED", "BRIDGED", "RELEASE"}
         /\ AnswerType(command) = "GOTDIG" => request = "recognize"
         /\ AnswerType(command) \in {"PLAYED", "PLAYEDDIG"}
              => request \in {"wait", "recognize", "record", "transfer"}
         /\ AnswerType(command) = "RECORDED" => request = "record"
         /\ AnswerType(command) = "TRANSFERED"
              => request = "transfer" /\ command = "TRANSFER"
         /\ AnswerType(command) = "RETURNEDVAR" => request = "exitval"
BY DEF Serves, AnswerType

\* A message that is not a hangup answers satc_doing and leaves nothing behind.
LEMMA ReceivedAnswer ==
  ASSUME TypeOK, Joint, fh.connected, NEW types, "HUNGUP" \notin types,
         Receive(types)
  PROVE  /\ Received.type \in types
         /\ Received.type = AnswerType(fh.satcDoing)
         /\ Serves(fh.satcDoing, fh.vxmlDoing)
         /\ toServer = <<>> /\ Rest'
<1>1. /\ fromServer # <<>> /\ fromServer' = Tail(fromServer)
      /\ Received.type \in types /\ live' = live /\ doing' = doing
  BY DEF Receive, Received
<1>2. /\ 1 \in DOMAIN fromServer /\ Received = fromServer[1]
      /\ DOMAIN fromServer = 1..Len(fromServer) /\ Len(fromServer) \in Nat
      /\ DOMAIN fromServer' = 1..(Len(fromServer) - 1)
      /\ \A i \in DOMAIN fromServer' :
           i + 1 \in DOMAIN fromServer /\ fromServer'[i] = fromServer[i+1]
  BY <1>1, NonEmptySeq DEF TypeOK, Received
<1>3. ~HungUp(1)
  BY <1>1, <1>2 DEF HungUp
<1>4. Answers(1)
  BY <1>2, <1>3 DEF Joint, Wire
<1>5. fromServer[1].type = AnswerType(fh.satcDoing)
  BY <1>4 DEF Answers
<1>6. \A i \in DOMAIN fromServer' : HungUp(i)'
  BY <1>2, <1>4 DEF Answers, HungUp
<1>7. live' \/ \E i \in DOMAIN fromServer' : HungUp(i)'
  <2> SUFFICES ASSUME ~live PROVE \E i \in DOMAIN fromServer' : HungUp(i)'
    BY <1>1
  <2>1. PICK j \in DOMAIN fromServer : HungUp(j)
    BY DEF Joint, Wire
  <2>2. j # 1 /\ j - 1 \in DOMAIN fromServer'
    BY <1>2, <1>3, <2>1
  <2> QED
    BY <1>6, <2>2
<1>8. doing' = None
  BY <1>1, <1>4 DEF Answers
<1>9. Serves(fh.satcDoing, fh.vxmlDoing)
  BY <1>4 DEF Joint, Coherent, Answers
<1> QED
  BY <1>1, <1>2, <1>4, <1>5, <1>6, <1>7, <1>8, <1>9 DEF Rest, Answers

\* An answer the interpreter gets a reply for.
LEMMA AnswerReplied ==
  ASSUME TypeOK, Joint, fh.connected, NEW types, "HUNGUP" \notin types,
         Receive(types), NEW c \in Sessions, c.connected, c.satcDoing = None,
         c.requested = {}, ~Listening(c),
         NEW reply \in ReplyMessages, reply.kind \in AnswerKinds(fh.vxmlDoing),
         ReplyTo(c, reply)
  PROVE  Joint'
<1>1. /\ toServer = <<>> /\ Rest' /\ Serves(fh.satcDoing, fh.vxmlDoing)
  BY ReceivedAnswer
<1>2. fh.vxmlDoing # None /\ fh.vxmlDoing \in Requests
  BY <1>1 DEF Serves, Requests, None
<1>3. interp = fh.vxmlDoing /\ replies = <<>> /\ Fetches = {}
  BY <1>2, PendingBlocked DEF Joint
<1>4. interp' = interp /\ Fetches' = {}
  BY <1>3 DEF Receive, cacheVars, Fetches
<1>5. fh'.satcDoing = None /\ toServer' = toServer
  BY DEF ReplyTo, Sessions
<1>6. Wire'
  BY <1>1, <1>5, WireFromRest
<1> QED
  BY <1>2, <1>3, <1>4, <1>6, RepliedStep

\* An answer after which do_prompt_and_listen goes on.
LEMMA AnswerContinued ==
  ASSUME TypeOK, Joint, fh.connected, NEW types, "HUNGUP" \notin types,
         Receive(types), NEW c \in Sessions, c.connected, c.satcDoing = None,
         Coherent(c), c.vxmlDoing = fh.vxmlDoing, DoPromptAndListen(c)
  PROVE  Joint'
<1>1. /\ toServer = <<>> /\ Rest' /\ Serves(fh.satcDoing, fh.vxmlDoing)
  BY ReceivedAnswer
<1>2. fh.vxmlDoing # None
  BY <1>1 DEF Serves, None
<1>3. interp = fh.vxmlDoing /\ replies = <<>> /\ Fetches = {}
  BY <1>2, PendingBlocked DEF Joint
<1>4. interp' = interp /\ Fetches' = {}
  BY <1>3 DEF Receive, cacheVars, Fetches
<1>5. Outcome(c)
  BY DoPromptAndListenOutcome
<1>6. Wire'
  BY <1>1, <1>5, WireFromRest DEF Outcome, Continued, AnsweredTo, Commanded
<1> QED
  BY <1>2, <1>3, <1>4, <1>5, <1>6, PendingStep

\* The session once an answer is taken.
LEMMA FreeFields ==
  ASSUME TypeOK
  PROVE  /\ Free \in Sessions /\ Free.connected = fh.connected
         /\ Free.satcDoing = None /\ Free.vxmlDoing = fh.vxmlDoing
         /\ Free.requested = fh.requested /\ Listening(Free) = Listening(fh)
BY DEF TypeOK, Free, Sessions, Listening

\* What clear_play_and_rec leaves.
LEMMA ClearedFields ==
  ASSUME NEW c \in Sessions
  PROVE  LET d == ClearPlayAndRec(c)
         IN  /\ d \in Sessions /\ d.connected = c.connected
             /\ d.satcDoing = c.satcDoing /\ d.vxmlDoing = c.vxmlDoing
             /\ d.requested = c.requested \cap {"transfer"} /\ ~Listening(d)
<1>1. ClearPlayAndRec(c) \in Sessions
  BY ClearedType
<1> QED
  BY <1>1 DEF ClearPlayAndRec, Sessions, Listening

\* A digit, a timeout or a failure of the recognition in progress.
LEMMA GotdigStep ==
  ASSUME TypeOK, Joint, fh.connected, SatcGotdig
  PROVE  Joint'
<1>1. Receive({"GOTDIG"})
  BY DEF SatcGotdig
<1>2. Received.type = "GOTDIG" /\ fh.vxmlDoing = "recognize"
  BY <1>1, ReceivedAnswer, AnswerTypeInverse
<1>3. fh.requested \subseteq {"play", "recognize"}
  BY <1>2 DEF Joint, Coherent
<1>4. CASE ~Received.ok
  <2> DEFINE c == ClearPlayAndRec(Free)
  <2>1. /\ c \in Sessions /\ c.connected /\ c.satcDoing = None
        /\ c.requested = {} /\ ~Listening(c)
    BY <1>3, FreeFields, ClearedFields
  <2>2. /\ Reply("Recognized", "failure") \in ReplyMessages
        /\ Reply("Recognized", "failure").kind \in AnswerKinds(fh.vxmlDoing)
    BY <1>2 DEF Reply, ReplyMessages, ReplyKinds, ReplyResults, AnswerKinds
  <2>3. ReplyTo(c, Reply("Recognized", "failure"))
    BY <1>4 DEF SatcGotdig
  <2> HIDE DEF c
  <2> QED
    BY <1>1, <2>1, <2>2, <2>3, AnswerReplied
<1>5. CASE Received.ok
  <2>1. fromServer # <<>>
    BY <1>1 DEF Receive
  <2>2. KeyReceived \in Sessions /\ KeyReceived.connected
    BY <1>2, <1>5, <2>1, ReceivedSessions
  <2>3. /\ KeyReceived.satcDoing = None
        /\ KeyReceived.vxmlDoing = "recognize"
        /\ KeyReceived.requested = fh.requested
    BY <1>2, FreeFields DEF KeyReceived, Sessions
  <2>4. Coherent(KeyReceived)
    BY <1>3, <2>3 DEF Coherent, None
  <2>5. DoPromptAndListen(KeyReceived)
    BY <1>5 DEF SatcGotdig
  <2> QED
    BY <1>1, <1>2, <2>2, <2>3, <2>4, <2>5, AnswerContinued
<1> QED
  BY <1>4, <1>5

\* Prompts that were played: the request they came with goes on.
LEMMA PlayedStep ==
  ASSUME TypeOK, Joint, fh.connected, SatcPlayed
  PROVE  Joint'
<1>1. Receive({"PLAYED", "PLAYEDDIG"}) /\ DoPromptAndListen(Free)
  BY DEF SatcPlayed
<1>2. fh.vxmlDoing \in {"wait", "recognize", "record", "transfer"}
  BY <1>1, ReceivedAnswer, AnswerTypeInverse
<1>3. Coherent(Free)
  BY <1>2, FreeFields DEF Joint, Coherent, None
<1> QED
  BY <1>1, <1>3, FreeFields, AnswerContinued

\* A recording that is done.
LEMMA RecordedStep ==
  ASSUME TypeOK, Joint, fh.connected, SatcRecorded
  PROVE  Joint'
<1> DEFINE c     == ClearPlayAndRec(Free)
           reply == Reply("Recorded", IF Received.ok THEN "ready" ELSE "failure")
<1>1. Receive({"RECORDED"}) /\ ReplyTo(c, reply)
  BY DEF SatcRecorded
<1>2. fh.vxmlDoing = "record"
  BY <1>1, ReceivedAnswer, AnswerTypeInverse
<1>3. fh.requested \subseteq {"play", "record"}
  BY <1>2 DEF Joint, Coherent
<1>4. /\ c \in Sessions /\ c.connected /\ c.satcDoing = None
      /\ c.requested = {} /\ ~Listening(c)
  BY <1>3, FreeFields, ClearedFields
<1>5. reply \in ReplyMessages /\ reply.kind \in AnswerKinds(fh.vxmlDoing)
  BY <1>2 DEF Reply, ReplyMessages, ReplyKinds, ReplyResults, AnswerKinds
<1> HIDE DEF c, reply
<1> QED
  BY <1>1, <1>4, <1>5, AnswerReplied

\* A transfer that is done: no other request is left.
LEMMA TransferedStep ==
  ASSUME TypeOK, Joint, fh.connected, SatcTransfered
  PROVE  Joint'
<1> DEFINE c     == [Free EXCEPT !.requested = @ \ {"transfer"}]
           reply == Reply("Transferred", None)
<1>1. Receive({"TRANSFERED"}) /\ ReplyTo(c, reply)
  BY DEF SatcTransfered
<1>2. fh.vxmlDoing = "transfer" /\ fh.satcDoing = "TRANSFER"
  BY <1>1, ReceivedAnswer, AnswerTypeInverse
<1>3. fh.requested \subseteq {"transfer"} /\ ~Listening(fh)
  BY <1>2 DEF Joint, Coherent
<1>4. /\ c \in Sessions /\ c.connected /\ c.satcDoing = None
      /\ c.requested = {} /\ ~Listening(c)
  <2>1. c \in Sessions
    BY FreeFields DEF Sessions
  <2> QED
    BY <1>3, <2>1, FreeFields DEF Sessions, Listening
<1>5. reply \in ReplyMessages /\ reply.kind \in AnswerKinds(fh.vxmlDoing)
  BY <1>2 DEF Reply, ReplyMessages, ReplyKinds, ReplyResults, AnswerKinds
<1> HIDE DEF c, reply
<1> QED
  BY <1>1, <1>4, <1>5, AnswerReplied

\* A returned variable that was taken.
LEMMA ReturnedvarStep ==
  ASSUME TypeOK, Joint, fh.connected, SatcReturnedvar
  PROVE  Joint'
<1> DEFINE reply == Reply("exitedval", None)
<1>1. Receive({"RETURNEDVAR"}) /\ ReplyTo(Free, reply)
  BY DEF SatcReturnedvar
<1>2. fh.vxmlDoing = "exitval"
  BY <1>1, ReceivedAnswer, AnswerTypeInverse
<1>3. fh.requested = {} /\ ~Listening(fh)
  BY <1>2 DEF Joint, Coherent
<1>4. reply \in ReplyMessages /\ reply.kind \in AnswerKinds(fh.vxmlDoing)
  BY <1>2 DEF Reply, ReplyMessages, ReplyKinds, ReplyResults, AnswerKinds
<1> HIDE DEF reply
<1> QED
  BY <1>1, <1>3, <1>4, FreeFields, AnswerReplied

\* Every message of the server: none is one voiceglue cannot attribute.
LEMMA SatcMessageStep ==
  ASSUME TypeOK, Joint, fh.connected, SatcMessage
  PROVE  Joint'
<1>1. ~SatcIgnored
  <2> SUFFICES ASSUME SatcIgnored PROVE FALSE
    OBVIOUS
  <2>1. fromServer # <<>> /\ (interp = "ended" \/ ~Received.known)
    BY DEF SatcIgnored
  <2>2. 1 \in DOMAIN fromServer /\ Received = fromServer[1]
    BY <2>1, NonEmptySeq DEF TypeOK, Received
  <2>3. Received.known
    BY <2>2 DEF Joint, Wire, HungUp, Answers
  <2> QED
    BY <2>1, <2>3 DEF Joint, OneFetch
<1>2. ~SatcUnsupported
  <2> SUFFICES ASSUME Receive({"BRIDGED", "RELEASE"}) PROVE FALSE
    BY DEF SatcUnsupported
  <2> QED
    BY ReceivedAnswer, AnswerTypeInverse
<1>3. CASE SatcHungupOrReleased
  <2>1. \A c \in Sessions : \A reply : ~c.connected /\ ReplyTo(c, reply)
                                     => ~fh'.connected
    BY DEF ReplyTo, Sessions
  <2>2. /\ [Free EXCEPT !.connected = FALSE] \in Sessions
        /\ ~[Free EXCEPT !.connected = FALSE].connected
    BY FreeFields DEF Sessions
  <2>3. ~fh'.connected
    BY <1>3, <2>1, <2>2 DEF SatcHungupOrReleased, Quiet
  <2> QED
    BY <2>3, JointGone
<1> QED
  BY <1>1, <1>2, <1>3, GotdigStep, PlayedStep, TransferedStep, RecordedStep,
     ReturnedvarStep
  DEF SatcMessage

\* A prompt that is made or not.
LEMMA HttpCacheAudioStep ==
  ASSUME TypeOK, Joint, fh.connected, NEW r \in hc, NEW status \in {-1, 0, 1},
         HttpCacheAudio(r, status)
  PROVE  Joint'
<1>1. /\ UNCHANGED <<fromServer, live, doing, interp>>
      /\ Fetches' = Fetches
  BY DEF HttpCacheAudio, Done, Fetches
<1>2. CASE Quiet(fh)
  <2>1. Alike(fh') /\ UNCHANGED <<toServer, replies>>
    BY <1>2 DEF Quiet, Alike
  <2> QED
    BY <1>1, <2>1, AlikeStep
<1>3. CASE StillQueued(r) /\ DoPromptAndListen(Made(r, status))
  <2> DEFINE c == Made(r, status)
  <2>1. c \in Sessions /\ Alike(c)
    <3>1. fh \in Sessions
      BY DEF TypeOK
    <3>2. c \in Sessions
      BY <1>3, <3>1, UpdatedItemType DEF Made, StillQueued
    <3> QED
      BY <3>1, <3>2 DEF Made, Alike, Sessions, Listening
  <2>2. DoPromptAndListen(c)
    BY <1>3
  <2> HIDE DEF c
  <2>3. Outcome(c)
    BY <2>1, <2>2, AlikeCoherent, DoPromptAndListenOutcome DEF Alike, Joint
  <2>4. Wire'
    BY <1>1, <2>1, <2>3, OutcomeWire DEF Alike, Joint
  <2>5. CASE fh.vxmlDoing = None
    <3>1. Continued(c)
      BY <2>1, <2>3, <2>5, OutcomeIdle DEF Alike
    <3>2. fh'.vxmlDoing = fh.vxmlDoing /\ replies' = replies
      BY <2>1, <3>1 DEF Continued, Alike
    <3>3. InStep' /\ OneFetch'
      BY <1>1, <3>2 DEF Joint, InStep, OneFetch, Fetches
    <3> QED
      BY <2>3, <2>4, <3>3 DEF Joint, Outcome
  <2>6. CASE fh.vxmlDoing # None
    <3>1. interp = fh.vxmlDoing /\ replies = <<>> /\ Fetches = {}
      BY <2>6, PendingBlocked DEF Joint
    <3> QED
      BY <1>1, <2>1, <2>3, <2>4, <2>6, <3>1, PendingStep DEF Alike
  <2> QED
    BY <2>5, <2>6
<1> QED
  BY <1>2, <1>3 DEF HttpCacheAudio

\* A page for the interpreter that waits for it.
LEMMA HttpCachePageStep ==
  ASSUME TypeOK, Joint, fh.connected, NEW r \in hc, NEW status \in {-1, 0, 1},
         HttpCachePage(r, status)
  PROVE  Joint'
<1> DEFINE c     == HandOver(r, status)
           reply == Reply("path", CASE status = -1 -> "failure"
                                    [] status = 0  -> "parse"
                                    [] status = 1  -> "ready")
<1>1. /\ r.type = "v" /\ hc' = hc \ {r} /\ r \in CacheRequests
      /\ UNCHANGED <<fromServer, live, doing, interp>>
  BY DEF HttpCachePage, Done, TypeOK
<1>2. r \in Fetches
  BY <1>1 DEF Fetches
<1>3. interp = "httpget" /\ replies = <<>> /\ fh.vxmlDoing = None
  BY <1>2 DEF Joint, InStep, Fetches
<1>4. Fetches' = {}
  BY <1>1, <1>2 DEF Joint, OneFetch, Fetches
<1>5. fh.satcDoing = None /\ fh.requested = {} /\ ~Listening(fh)
  BY <1>3 DEF Joint, Coherent, Serves, None
<1>6. /\ c \in Sessions /\ c.connected /\ c.satcDoing = None
      /\ c.requested = {} /\ ~Listening(c)
  BY <1>1, <1>5, HandOverType DEF TypeOK
<1>7. ReplyTo(c, reply)
  BY <1>3 DEF HttpCachePage
<1>8. /\ reply \in ReplyMessages
      /\ interp' \in Requests /\ reply.kind \in AnswerKinds(interp')
  <2>1. reply.kind = "path" /\ reply \in ReplyMessages
    BY DEF Reply, ReplyMessages, ReplyKinds, ReplyResults
  <2> HIDE DEF reply
  <2> QED
    BY <1>1, <1>3, <2>1 DEF AnswerKinds, Requests
<1> HIDE DEF c, reply
<1>9. Wire'
  <2>1. fh'.satcDoing = None /\ toServer' = toServer
    BY <1>6, <1>7 DEF ReplyTo, Sessions
  <2> QED
    BY <1>1, <1>5, <2>1, WireUnchanged DEF Joint
<1> QED
  BY <1>3, <1>4, <1>6, <1>7, <1>8, <1>9, RepliedStep

\* A call is at rest when it comes in.
LEMMA InitJoint ==
  ASSUME Init
  PROVE  Joint
<1>1. /\ fh.connected /\ fh.satcDoing = None /\ fh.vxmlDoing = None
      /\ fh.requested = {} /\ ~Listening(fh)
  BY DEF Init, Idle, Listening
<1>2. Coherent(fh)
  BY <1>1 DEF Coherent, None
<1>3. Wire
  BY <1>1 DEF Init, ServerInit, Wire
<1>4. InStep /\ OneFetch
  BY <1>1 DEF Init, InStep, OneFetch, Fetches, Requests
<1> QED
  BY <1>2, <1>3, <1>4 DEF Joint

\* Every step keeps requests, commands and replies together.
LEMMA JointStep ==
  ASSUME TypeOK, Joint, [Next]_vars
  PROVE  Joint'
<1>1. CASE ~fh.connected
  <2>1. CASE LastWords
    BY <2>1, JointGone DEF LastWords
  <2>2. CASE Server
    BY <1>1, <2>2, JointGone DEF Server, sessionVars
  <2> QED
    BY <1>1, <2>1, <2>2, GoneStep
<1>2. CASE fh.connected
  <2>1. CASE InterpRequest
    BY <1>2, <2>1, InterpRequestStep
  <2>2. CASE InterpRead
    BY <1>2, <2>2, InterpReadStep
  <2>3. CASE SatcMessage
    BY <1>2, <2>3, SatcMessageStep
  <2>4. CASE HttpCacheDone
    BY <1>2, <2>4, HttpCacheAudioStep, HttpCachePageStep DEF HttpCacheDone
  <2>5. CASE Server
    <3>1. ServerStep /\ UNCHANGED <<fh, interp, replies, hc>>
      BY <2>5 DEF Server, sessionVars, cacheVars
    <3>2. Wire'
      BY <1>2, <3>1, ServerWire DEF Joint
    <3>3. InStep' /\ OneFetch' /\ Coherent(fh')
      BY <1>2, <3>1 DEF Joint, InStep, OneFetch, Fetches
    <3> QED
      BY <3>2, <3>3 DEF Joint
  <2>6. CASE UNCHANGED vars
    <3>1. UNCHANGED <<toServer, fromServer, live, doing, fh, interp, replies,
                      hc>>
      BY <2>6 DEF vars, serverVars, sessionVars, cacheVars
    <3>2. Alike(fh') /\ Fetches' = Fetches
      BY <3>1 DEF Alike, Fetches
    <3> QED
      BY <1>2, <3>1, <3>2, AlikeStep
  <2> QED
    BY <2>1, <2>2, <2>3, <2>4, <2>5, <2>6 DEF Next
<1> QED
  BY <1>1, <1>2

-----------------------------------------------------------------------------
(* The theorems.                                                            *)

\* The request of the interpreter, the command sent for it, its place on the
\* wire and the reply owed for it agree in every reachable state.
THEOREM InductiveInvariant == Spec => []IInv
<1>1. Init => IInv
  BY InitType, InitJoint DEF IInv
<1>2. IInv /\ [Next]_vars => IInv'
  BY TypeStep, JointStep DEF IInv
<1> QED
  BY <1>1, <1>2, PTL DEF Spec

\* While a call is connected the server has at most one command for it, the
\* one in satc_doing, and each answer is taken for the command it answers,
\* however requests, answers, prompts and hangups interleave.
THEOREM OneCommandAtATime == Spec => []OneCommand
<1>1. IInv => OneCommand
  <2> SUFFICES ASSUME TypeOK, Wire, fh.connected, Coherent(fh)
               PROVE  OneCommand
    BY DEF IInv, Joint, OneCommand
  <2>1. Len(toServer) \in Nat /\ DOMAIN toServer = 1..Len(toServer)
    BY LenProperties DEF TypeOK
  <2>2. \A i \in DOMAIN toServer : i = 1 /\ toServer # <<>>
    BY <2>1 DEF Wire
  <2>3. Len(toServer) + (IF doing = None THEN 0 ELSE 1) <= 1
    <3>1. CASE doing = None
      BY <2>1, <3>1 DEF Wire
    <3>2. CASE doing # None
      BY <3>2 DEF Wire
    <3> QED
      BY <3>1, <3>2
  <2>4. \A i \in DOMAIN fromServer :
          \/ fromServer[i].type = "HUNGUP"
          \/ /\ fh.satcDoing # None
             /\ fromServer[i].type \in {AnswerType(fh.satcDoing),
                                        RefusalType(fh.satcDoing)}
    BY DEF Wire, HungUp, Answers
  <2> QED
    BY <2>2, <2>3, <2>4 DEF Wire, OneCommand
<1> QED
  BY <1>1, InductiveInvariant, PTL

\* While a call is connected a blocked interpreter is owed exactly one reply,
\* of the kind it waits for, and a running one has none to read.
THEOREM RepliesInStep == Spec => []InStep
<1>1. IInv => InStep
  BY DEF IInv, Joint
<1> QED
  BY <1>1, InductiveInvariant, PTL

\* Nothing a caller pressed, and nothing requested, in one recognition is left
\* for the next.
THEOREM RequestsStartFresh == Spec => []FreshWhenAnswered
<1>1. IInv => FreshWhenAnswered
  BY DEF IInv, Joint, Coherent, Listening, FreshWhenAnswered, None
<1> QED
  BY <1>1, InductiveInvariant, PTL

=============================================================================
