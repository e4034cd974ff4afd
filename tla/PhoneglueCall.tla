--------------------------- MODULE PhoneglueCall ---------------------------
(***************************************************************************)
(* The inside of phoneglue for one call: how a SATC command becomes AGI    *)
(* commands, and their results its answer.  SatcCall is the same server    *)
(* seen from the client; every step here is one of its steps, or none.     *)
(*                                                                         *)
(* Four parties talk to phoneglue over connections of their own, each in   *)
(* order but none in order with another: the client (SatcCall), Asterisk's *)
(* AGI session of the call, Asterisk's manager, and the audio analyser     *)
(* (vamd), which hears signals of the line as long as a monitor runs.  A   *)
(* command that a signal ends is ended by a redirect of the call: Asterisk *)
(* drops the AGI session and opens another one.                            *)
(***************************************************************************)
EXTENDS SatcCall, FiniteSets

CONSTANTS
  Signals,         \* the keys that are signals of the analyser
  Commands,        \* what the client may send
  MaxCommands, MaxSignals  \* bounds of a run: commands sent, signals heard

ASSUME PhoneglueAssumption ==
  /\ Signals \subseteq Keys
  /\ "listening" \notin Signals /\ Keys \cap {"-1", "hangup"} = {}
  /\ Commands \subseteq [type : CommandTypes, stopkeys : SUBSET Keys,
                         files : Nat, from : BOOLEAN]

VARIABLES
  call,            \* the callobj
  conn,            \* what each AGI connection of the call has for phoneglue
  toAgi,           \* commands the last of them has not carried out
  caller,          \* the caller is on the line
  redirecting,     \* phoneglue awaits the call on a new connection
  redirects,       \* redirects the manager has not carried out
  again,           \* history: one was asked for while another was awaited
  other,           \* what a connection nobody awaited has become
  dialing,         \* phoneglue listens for the status of a dial ...
  statuses,        \* ... and the manager has these for it
  vamd,            \* the analyser is there,
  listen,          \* was asked to listen
  fromVamd,        \* and said this;
  monitor,         \* the line is copied to it
  sent, heard      \* the counters of the bounds

astVars  == <<conn, toAgi, caller, redirects, statuses, monitor>>
mgrVars  == <<redirecting, again, other, dialing>>
vamdVars == <<vamd, listen, fromVamd>>
bounds   == <<sent, heard>>
vars == <<serverVars, call, astVars, mgrVars, vamdVars, bounds>>

\* agifh is the number of the connection, 0 when detached; vamd_state is 0
\* when undefined.
NoCall == [agifh |-> 0, agi_doing |-> None, collected |-> <<>>,
           stopkeys |-> {}, files |-> 0, vamd_state |-> 0, queued |-> None]

AgiCommands == {"PLAYFILE", "GETDIGIT", "RECORDFILE", "SENDDTMF",
                "SETCALLERID", "DIAL", "SETVARIABLE", "HANGUP"}

\* The SATC command an AGI command is for.
ClientCommand(of) ==
  CASE of = "PLAYFILE"    -> "PLAY"    [] of = "GETDIGIT"    -> "GETDIG"
    [] of = "RECORDFILE"  -> "RECORD"  [] of = "SENDDTMF"    -> "PLAYDIG"
    [] of = "SETCALLERID" -> "TRANSFER" [] of = "DIAL"       -> "TRANSFER"
    [] of = "SETVARIABLE" -> "RETURNVAR" [] of = "HANGUP"    -> "HANGUP"

\* What comes over an AGI connection: "INIT" when it opens, the result of a
\* command (phoneglue is not told of which), "CLOSED" when the call left it.
\* The key is the digit that came with the result.  "-1" is the result -1,
\* "hangup" the one a recording has, with that comment, when the line is gone.
Result(of, ok, key) == [of |-> of, ok |-> ok, key |-> key]
INIT   == Result("INIT", TRUE, None)
CLOSED == Result("CLOSED", TRUE, None)
MinusOne == {"-1", "hangup"}

-----------------------------------------------------------------------------
(* Sending.                                                                 *)

\* Mutant: the answer leaves the client doing what it answers.
AnswerStillDoing(m) ==
  /\ fromServer' = Append(fromServer, m)
  /\ UNCHANGED doing

\* A message that names the call ends what the client was doing.
Answer(m) ==
  /\ fromServer' = Append(fromServer, m)
  /\ doing' = None
Ok(type) == Message(type, TRUE, TRUE, None)

\* The signals that may end a command; only these three have any.
SignalsOf(c, of) ==
  IF of \in {"PLAYFILE", "GETDIGIT", "RECORDFILE"}
  THEN c.stopkeys \cap Signals ELSE {}

WantsMonitor(c, of) == SignalsOf(c, of) # {} /\ c.vamd_state = 0 /\ vamd
EndsMonitor(c, of)  == SignalsOf(c, of) = {} /\ c.vamd_state # 0

\* What is written to a connection the call has left is lost.
Written(c, of) == IF c.agifh = Len(conn) THEN Append(toAgi, of) ELSE toAgi

\* Mutant: a command that signals may end starts without the monitor.
SendAgiUnmonitored(c, of) ==
  /\ call' = IF c.agifh = 0 THEN c ELSE [c EXCEPT !.agi_doing = of]
  /\ toAgi' = Written(c, of)
  /\ UNCHANGED listen

\* The command is sent, or put off until the monitor is started or stopped.
\* Without a connection it is lost.
SendAgi(c, of) ==
  LET d == [c EXCEPT !.agi_doing = of]
  IN  \/ /\ c.agifh = 0
         /\ call' = c /\ UNCHANGED <<toAgi, listen>>
      \/ /\ c.agifh # 0 /\ WantsMonitor(c, of)
         /\ call' = [d EXCEPT !.vamd_state = 1, !.queued = of]
         /\ listen' = TRUE /\ UNCHANGED toAgi
      \/ /\ c.agifh # 0 /\ EndsMonitor(c, of)
         /\ call' = [d EXCEPT !.vamd_state = -1, !.queued = of]
         /\ toAgi' = Written(c, "STOPMONITOR") /\ UNCHANGED listen
      \/ /\ c.agifh # 0 /\ ~WantsMonitor(c, of) /\ ~EndsMonitor(c, of)
         /\ call' = d /\ toAgi' = Written(c, of) /\ UNCHANGED listen

Matches(c) == \E i \in DOMAIN c.collected : c.collected[i] \in c.stopkeys

\* Mutant: only a stop key ends a play.
PlayNextFileEndless(c) ==
  \/ /\ Matches(c)
     /\ Answer(Ok("PLAYED"))
     /\ call' = [c EXCEPT !.files = 0] /\ UNCHANGED <<toAgi, listen>>
  \/ /\ ~Matches(c)
     /\ SendAgi([c EXCEPT !.files = @ - 1], "PLAYFILE")
     /\ doing' = "PLAY" /\ UNCHANGED fromServer

\* A play is over when a stop key is among the keys, or no file is left.
PlayNextFile(c) ==
  \/ /\ Matches(c) \/ c.files = 0
     /\ Answer(Ok("PLAYED"))
     /\ call' = [c EXCEPT !.files = 0] /\ UNCHANGED <<toAgi, listen>>
  \/ /\ ~Matches(c) /\ c.files # 0
     /\ SendAgi([c EXCEPT !.files = @ - 1], "PLAYFILE")
     /\ doing' = "PLAY" /\ UNCHANGED fromServer

\* The client asks for one key, which may have been pressed before.
GetNextDigit(c, timedout) ==
  \/ /\ c.collected # <<>>
     /\ Answer(Message("GOTDIG", TRUE, TRUE, Head(c.collected)))
     /\ call' = [c EXCEPT !.collected = Tail(@), !.agi_doing = None]
     /\ UNCHANGED <<toAgi, listen>>
  \/ /\ c.collected = <<>> /\ timedout
     /\ Answer(Message("GOTDIG", TRUE, TRUE, "timeout"))
     /\ call' = [c EXCEPT !.agi_doing = None] /\ UNCHANGED <<toAgi, listen>>
  \/ /\ c.collected = <<>> /\ ~timedout
     /\ SendAgi(c, "GETDIGIT")
     /\ doing' = "GETDIG" /\ UNCHANGED fromServer

\* The call is over as far as phoneglue knows.
AgiClientFinished(answers) ==
  /\ fromServer' = fromServer \o answers \o <<Ok("HUNGUP")>>
  /\ live' = FALSE /\ doing' = None /\ call' = NoCall /\ toAgi' = <<>>
  /\ UNCHANGED listen

\* The keys up to the first stop key are given to a recording.
AfterStopKey(c) ==
  LET stops == {i \in DOMAIN c.collected : c.collected[i] \in c.stopkeys}
  IN  IF stops = {} THEN c.collected
      ELSE SubSeq(c.collected,
                  1 + CHOOSE i \in stops : \A j \in stops : i <= j,
                  Len(c.collected))

\* Mutant: only a play is answered for.
HandleInterruptedPlay(c) ==
  /\ UNCHANGED <<toAgi, listen>>
  /\ \/ /\ doing = "PLAY" /\ Answer(Ok("PLAYED"))
        /\ call' = [c EXCEPT !.agi_doing = None, !.files = 0]
     \/ /\ doing # "PLAY"
        /\ call' = [c EXCEPT !.agi_doing = None]
        /\ UNCHANGED <<doing, fromServer>>

\* The answer of a command that a redirect, or a signal before it ran, ended.
\* Only these commands have one.
HandleInterruptedCommand(c) ==
  LET d == [c EXCEPT !.agi_doing = None]
  IN
  /\ UNCHANGED <<toAgi, listen>>
  /\ \/ /\ doing = "PLAY" /\ Answer(Ok("PLAYED"))
        /\ call' = [d EXCEPT !.files = 0]
     \/ /\ doing = "GETDIG"
        /\ IF c.collected = <<>>
           THEN Answer(Ok("GOTDIG")) /\ call' = d
           ELSE /\ Answer(Message("GOTDIG", TRUE, TRUE, Head(c.collected)))
                /\ call' = [d EXCEPT !.collected = Tail(@)]
     \/ /\ doing = "RECORD" /\ Answer(Ok("RECORDED"))
        /\ call' = [d EXCEPT !.collected = AfterStopKey(c)]
     \/ /\ doing \notin {"PLAY", "GETDIG", "RECORD"}
        /\ call' = d /\ UNCHANGED <<doing, fromServer>>

-----------------------------------------------------------------------------
Init ==
  /\ ServerInit
  /\ call = [NoCall EXCEPT !.agifh = 1]
  /\ conn = <<<<>>>> /\ toAgi = <<>> /\ caller = TRUE
  /\ redirecting = FALSE /\ redirects = 0 /\ dialing = FALSE /\ statuses = 0
  /\ again = FALSE /\ other = None
  /\ vamd = TRUE /\ listen = FALSE /\ fromVamd = <<>> /\ monitor = FALSE
  /\ sent = 0 /\ heard = 0

\* A client waits for the answer of a command before it sends the next one,
\* but may release the call.
ClientWrites ==
  /\ sent < MaxCommands /\ toServer = <<>> /\ fromServer = <<>>
  /\ \E c \in Commands :
       /\ doing = None \/ c.type = "RELEASE"
       /\ toServer' = <<c>>
  /\ sent' = sent + 1
  /\ UNCHANGED <<fromServer, live, doing, call, astVars, mgrVars, vamdVars,
                 heard>>

ClientReads ==
  /\ fromServer # <<>> /\ fromServer' = Tail(fromServer)
  /\ UNCHANGED <<toServer, live, doing, call, astVars, mgrVars, vamdVars, bounds>>

-----------------------------------------------------------------------------
(* handle_msg_from_ct_client.                                               *)

Rejects == Refuse /\ UNCHANGED <<call, astVars, mgrVars, vamdVars, bounds>>

Releases ==
  /\ Release /\ call' = NoCall /\ toAgi' = <<>>
  /\ UNCHANGED <<conn, caller, redirects, statuses, monitor, mgrVars, vamdVars,
                 bounds>>

Todo(type) ==
  /\ toServer # <<>> /\ Head(toServer).type = type
  /\ live /\ doing = None
  /\ toServer' = Tail(toServer)
  /\ UNCHANGED <<live, conn, caller, redirects, statuses, monitor, mgrVars, vamd,
                 fromVamd, bounds>>

\* The call once it knows the stop keys of the command.
Stopping == [call EXCEPT !.stopkeys = Head(toServer).stopkeys]

DoPlay   == /\ Todo("PLAY")
            /\ PlayNextFile([Stopping EXCEPT !.files = Head(toServer).files])
DoGetdig == Todo("GETDIG") /\ GetNextDigit(Stopping, FALSE)

\* The file of a recording may have an extension Asterisk does not know.  That
\* is found before the call is looked at: of another call, Rejects says the same.
DoRecord ==
  /\ Todo("RECORD")
  /\ \/ SendAgi(Stopping, "RECORDFILE") /\ doing' = "RECORD" /\ UNCHANGED fromServer
     \/ /\ Answer(Message("RECORDED", TRUE, FALSE, None))
        /\ UNCHANGED <<call, toAgi, listen>>

\* The commands that no key ends.
DoOther ==
  \E of \in {"SENDDTMF", "SETCALLERID", "DIAL", "SETVARIABLE", "HANGUP"} :
    /\ Todo(ClientCommand(of))
    /\ of = "SETCALLERID" => Head(toServer).from
    /\ of = "DIAL" => ~Head(toServer).from
    /\ SendAgi(call, of)
    /\ doing' = ClientCommand(of) /\ UNCHANGED fromServer

-----------------------------------------------------------------------------
(* handle_msg_from_agi_client.                                              *)

Opens(i) ==
  /\ conn[i] # <<>> /\ Head(conn[i]) = INIT
  /\ conn' = [conn EXCEPT ![i] = Tail(@)]
  /\ UNCHANGED <<toServer, live, caller, redirects, statuses, monitor, again, dialing,
                 vamd, fromVamd, bounds>>

\* The redirected call is here.  One that went away meanwhile is discarded, and
\* where another call has its Uniqueid, that one gets the connection.
Reattaches ==
  \E i \in DOMAIN conn :
    /\ Opens(i) /\ redirecting /\ redirecting' = FALSE /\ UNCHANGED other
    /\ \/ /\ live /\ other # "incoming"
          /\ HandleInterruptedCommand([call EXCEPT !.agifh = i])
       \/ /\ ~live \/ other = "incoming"
          /\ UNCHANGED <<call, doing, fromServer, toAgi, listen>>

\* A connection nobody waits for is an incoming call, a second one with the
\* Uniqueid of this call, or dropped when no client wants it.  It is kept in
\* "received" first if it could belong to a call being made.  Of that other
\* call only what it takes from this one is modelled.
Parks ==
  \E i \in DOMAIN conn :
    /\ Opens(i) /\ ~redirecting
    /\ other' \in {other, "received", "incoming"}
    /\ UNCHANGED <<redirecting, call, doing, fromServer, toAgi, listen>>

\* After two seconds in "received" nobody is going to claim it.
ReceivedTimesOut ==
  /\ other = "received" /\ other' \in {None, "incoming"}
  /\ UNCHANGED <<serverVars, call, astVars, redirecting, again, dialing, vamdVars,
                 bounds>>

\* The next result on the connection of the call.  Others are ignored.
Item == Head(conn[call.agifh])
Reads ==
  /\ call.agifh # 0 /\ conn[call.agifh] # <<>> /\ Item.of # "INIT"
  /\ conn' = [conn EXCEPT ![call.agifh] = Tail(@)]
  /\ UNCHANGED <<toServer, caller, redirects, statuses, monitor, redirecting, again,
                 other, vamd, fromVamd, bounds>>

Finishes ==
  Reads /\ Item.of = "CLOSED" /\ AgiClientFinished(<<>>) /\ UNCHANGED dialing

Unexpected ==
  /\ Reads /\ Item.of # "CLOSED"
  /\ call.agi_doing = None \/ call.vamd_state = 1
  /\ UNCHANGED <<live, call, doing, fromServer, toAgi, listen, dialing>>

\* Mutant: the started monitor is not noted.
MonitorChangesUnnoted ==
  /\ Reads /\ Item.of # "CLOSED" /\ call.agi_doing # None
  /\ call.vamd_state \in {2, -1}
  /\ \/ /\ call.queued # None
        /\ toAgi' = Written(call, call.queued)
        /\ UNCHANGED <<doing, fromServer, listen, call>>
     \/ call.queued = None /\ HandleInterruptedCommand(call)
  /\ UNCHANGED <<live, dialing>>

\* The monitor was started or stopped: the command put off for it is sent,
\* unless a signal has ended it already.
MonitorChanges ==
  LET c == [call EXCEPT !.vamd_state = IF @ = 2 THEN 3 ELSE 0]
  IN
  /\ Reads /\ Item.of # "CLOSED" /\ call.agi_doing # None
  /\ call.vamd_state \in {2, -1}
  /\ \/ /\ c.queued # None
        /\ toAgi' = Written(c, c.queued)
        /\ call' = c /\ UNCHANGED <<doing, fromServer, listen>>
     \/ c.queued = None /\ HandleInterruptedCommand(c)
  /\ UNCHANGED <<live, dialing>>

\* Any other result is taken for one of the command in agi_doing.
ResultOf(of) ==
  /\ Reads /\ Item.of # "CLOSED"
  /\ call.agi_doing = of /\ call.vamd_state \in {0, 3}

\* Asterisk could not carry it out, or check_result_telephony finds another
\* command in client_doing.  agi_doing stays in the first case.
Fails ==
  /\ \E of \in AgiCommands \ {"HANGUP"} :
       /\ ResultOf(of)
       /\ ~Item.ok \/ doing # ClientCommand(of)
       /\ Answer(Message(AnswerType(ClientCommand(of)), TRUE, FALSE, None))
       /\ call' = IF Item.ok THEN [call EXCEPT !.agi_doing = None] ELSE call
  /\ UNCHANGED <<live, toAgi, listen, dialing>>

Succeeds(of) == ResultOf(of) /\ Item.ok /\ doing = ClientCommand(of)

HasEndpos == Item.of \in {"PLAYFILE", "RECORDFILE"}

\* The call, with the key of the result among the keys.
Collecting ==
  [call EXCEPT !.agi_doing = None,
               !.collected = IF Item.key = None THEN @ ELSE Append(@, Item.key)]

PlayResult ==
  /\ Succeeds("PLAYFILE") /\ Item.key \notin MinusOne
  /\ \/ HasEndpos /\ PlayNextFile(Collecting)
     \/ /\ ~HasEndpos /\ Answer(Message("PLAYED", TRUE, FALSE, None))
        /\ call' = [call EXCEPT !.agi_doing = None] /\ UNCHANGED <<toAgi, listen>>
  /\ UNCHANGED <<live, dialing>>

GetdigResult ==
  /\ Succeeds("GETDIGIT") /\ Item.key \notin MinusOne
  /\ GetNextDigit(Collecting, Item.key = None)
  /\ UNCHANGED <<live, dialing>>

\* A recording that ends with the line ends the call: Asterisk is not waited
\* for.  With any other result -1 it has failed.
RecordResult ==
  /\ Succeeds("RECORDFILE")
  /\ \/ /\ Item.key = "hangup"
        /\ AgiClientFinished(<<Ok("RECORDED")>>)
     \/ /\ Item.key # "hangup"
        /\ Answer(Message("RECORDED", TRUE, HasEndpos /\ Item.key # "-1", None))
        /\ call' = [call EXCEPT !.agi_doing = None]
        /\ UNCHANGED <<live, toAgi, listen>>
  /\ UNCHANGED dialing

\* The digits were played, or the variable set.
OtherResult ==
  /\ \E of \in {"SENDDTMF", "SETVARIABLE"} :
       /\ Succeeds(of) /\ (of = "SENDDTMF" => Item.key \notin MinusOne)
       /\ Answer(Ok(AnswerType(ClientCommand(of))))
  /\ call' = [call EXCEPT !.agi_doing = None]
  /\ UNCHANGED <<live, toAgi, listen, dialing>>

\* A dial has returned; its status will come over the manager.
DialResult ==
  /\ Succeeds("DIAL") /\ dialing' = TRUE
  /\ call' = [call EXCEPT !.agi_doing = None]
  /\ UNCHANGED <<live, doing, fromServer, toAgi, listen>>

\* Only the late result of a dial can be taken for the one of a SETCALLERID:
\* the transfer follows.
CallerIdResult ==
  /\ Succeeds("SETCALLERID") /\ SendAgi(call, "DIAL")
  /\ UNCHANGED <<live, doing, fromServer, dialing>>

\* A play, a digit or played digits with the result -1 are taken for a hangup,
\* whatever went wrong.
HangupResult ==
  /\ \E of \in {"HANGUP", "PLAYFILE", "GETDIGIT", "SENDDTMF"} :
       ResultOf(of) /\ (of # "HANGUP" => Succeeds(of) /\ Item.key \in MinusOne)
  /\ AgiClientFinished(<<>>) /\ UNCHANGED dialing

-----------------------------------------------------------------------------
(* handle_msg_from_astmgr and handle_msg_from_vamd.                         *)

\* The status of a dial answers the transfer, if its result was read before;
\* else nobody listens.
DialStatus ==
  /\ statuses > 0 /\ statuses' = statuses - 1
  /\ \/ /\ dialing /\ live
        /\ Answer(Message("TRANSFERED", TRUE, doing = "TRANSFER", None))
        /\ call' = [call EXCEPT !.agi_doing = None]
     \/ ~(dialing /\ live) /\ UNCHANGED <<call, doing, fromServer>>
  /\ UNCHANGED <<toServer, live, conn, toAgi, caller, redirects, monitor, mgrVars,
                 vamdVars, bounds>>

FromVamd ==
  /\ fromVamd # <<>> /\ fromVamd' = Tail(fromVamd)
  /\ UNCHANGED <<serverVars, conn, caller, statuses, monitor, other, dialing, vamd,
                 listen, bounds>>

VamdListens ==
  /\ FromVamd /\ Head(fromVamd) = "listening" /\ UNCHANGED again
  /\ \/ /\ live /\ call' = [call EXCEPT !.vamd_state = 2]
        /\ toAgi' = Written(call, "MONITOR")
     \/ ~live /\ UNCHANGED <<call, toAgi>>
  /\ UNCHANGED <<redirects, redirecting>>

Interrupts(signal) ==
  /\ call.agi_doing \in {"PLAYFILE", "GETDIGIT", "SENDDTMF", "RECORDFILE"}
  /\ signal \in call.stopkeys

\* Mutant: the connection stays with the call while it is moved.
StopMediaAttached(c) ==
  IF c.vamd_state \notin {0, 3}
  THEN /\ call' = [c EXCEPT !.queued = None]
       /\ UNCHANGED <<redirects, redirecting, again>>
  ELSE /\ call' = c
       /\ redirecting' = TRUE /\ redirects' = redirects + 1
       /\ again' = (again \/ redirecting)

\* stopmedia: a command that waits for the monitor is not sent at all.  One
\* that runs is ended by a redirect, and its connection is forgotten.
StopMedia(c) ==
  IF c.vamd_state \notin {0, 3}
  THEN /\ call' = [c EXCEPT !.queued = None]
       /\ UNCHANGED <<redirects, redirecting, again>>
  ELSE /\ call' = [c EXCEPT !.agifh = 0]
       /\ redirecting' = TRUE /\ redirects' = redirects + 1
       /\ again' = (again \/ redirecting)

VamdSignals ==
  LET signal == Head(fromVamd)
  IN
  /\ FromVamd /\ signal # "listening"
  /\ \/ /\ Interrupts(signal)
        /\ StopMedia([call EXCEPT !.collected = Append(@, signal)])
     \/ ~Interrupts(signal) /\ UNCHANGED <<call, redirects, redirecting, again>>
  /\ UNCHANGED toAgi

-----------------------------------------------------------------------------
(* Asterisk and the analyser.                                               *)

Tells(items) == conn' = [conn EXCEPT ![Len(conn)] = @ \o items]
Running == IF toAgi = <<>> THEN None ELSE Head(toAgi)

\* Keys that may come with the result of a command, and the result -1 of one
\* that failed though the caller is there (a DIAL has it when nobody answers).
KeysOf(of) ==
  CASE of = "GETDIGIT" -> {None, "-1"} \cup (Keys \ Signals)
    [] of \in {"PLAYFILE", "RECORDFILE"} -> {None, "-1"} \cup (call.stopkeys \ Signals)
    [] of \in {"SENDDTMF", "DIAL"} -> {None, "-1"}
    [] OTHER -> {None}

\* The last words on a connection the call leaves: the command it was doing
\* may end with -1 before.
LastWords(of) ==
  {<<CLOSED>>} \cup
    {<<Result(of, TRUE, key), CLOSED>> :
       key \in CASE of = "RECORDFILE" -> {"hangup"}
                 [] of \in {"PLAYFILE", "GETDIGIT", "SENDDTMF"} -> {"-1"}
                 [] OTHER -> {}}

\* A line that was not ended is one command with the line after it.
RunsJoined ==
  /\ caller /\ Running = "SETCALLERID" /\ Len(toAgi) > 1
  /\ toAgi' = Tail(Tail(toAgi))
  /\ Tells(<<Result(Running, TRUE, None)>>)
  /\ UNCHANGED <<serverVars, call, caller, redirects, statuses, monitor, mgrVars,
                 vamdVars, bounds>>

\* A command is carried out, or cannot be.
AgiRuns ==
  /\ caller /\ Running \notin {None, "SETCALLERID", "HANGUP"}
  /\ toAgi' = Tail(toAgi)
  /\ \/ /\ Running \in {"MONITOR", "STOPMONITOR"}
        /\ monitor' = (Running = "MONITOR")
        /\ Tells(<<Result(Running, TRUE, None)>>) /\ UNCHANGED statuses
     \/ /\ Running \notin {"MONITOR", "STOPMONITOR"}
        /\ \E k \in KeysOf(Running) : Tells(<<Result(Running, TRUE, k)>>)
        /\ statuses' = statuses + (IF Running = "DIAL" THEN 1 ELSE 0)
        /\ UNCHANGED monitor
     \/ /\ Running \notin {"MONITOR", "STOPMONITOR"}
        /\ Tells(<<Result(Running, FALSE, None)>>) /\ UNCHANGED <<statuses, monitor>>
  /\ UNCHANGED <<serverVars, call, caller, redirects, mgrVars, vamdVars, bounds>>

\* The call leaves its last connection, for a new one or for good: the command
\* it was doing ends too.
Leaves(more) ==
  /\ \E words \in LastWords(Running) :
       IF more
       THEN conn' = Append([conn EXCEPT ![Len(conn)] = @ \o words], <<INIT>>)
       ELSE Tells(words)
  /\ statuses' = statuses + (IF Running = "DIAL" THEN 1 ELSE 0)
  /\ toAgi' = <<>>
  /\ UNCHANGED <<serverVars, call, monitor, mgrVars, vamdVars, bounds>>

CallerHangsUp == caller /\ caller' = FALSE /\ Leaves(FALSE) /\ UNCHANGED redirects

AgiHangsUp ==
  /\ caller /\ Running = "HANGUP" /\ caller' = FALSE
  /\ toAgi' = <<>> /\ Tells(<<Result("HANGUP", TRUE, None), CLOSED>>)
  /\ UNCHANGED <<serverVars, call, redirects, statuses, monitor, mgrVars, vamdVars,
                 bounds>>

Redirects ==
  /\ redirects > 0 /\ redirects' = redirects - 1
  /\ \/ caller /\ UNCHANGED caller /\ Leaves(TRUE)
     \/ /\ ~caller
        /\ UNCHANGED <<serverVars, call, conn, toAgi, caller, statuses, monitor,
                       mgrVars, vamdVars, bounds>>

VamdReady ==
  /\ vamd /\ listen /\ listen' = FALSE
  /\ fromVamd' = Append(fromVamd, "listening")
  /\ UNCHANGED <<serverVars, call, astVars, mgrVars, vamd, bounds>>

VamdHears ==
  /\ vamd /\ monitor /\ caller /\ heard < MaxSignals /\ heard' = heard + 1
  /\ \E s \in Signals : fromVamd' = Append(fromVamd, s)
  /\ UNCHANGED <<serverVars, call, astVars, mgrVars, vamd, listen, sent>>

VamdStops ==
  /\ vamd /\ vamd' = FALSE /\ listen' = FALSE
  /\ UNCHANGED <<serverVars, call, astVars, mgrVars, fromVamd, bounds>>

-----------------------------------------------------------------------------
ClientCommands == Rejects \/ Releases \/ DoPlay \/ DoGetdig \/ DoRecord \/ DoOther
AgiMessages ==
  \/ Reattaches \/ Parks \/ ReceivedTimesOut \/ Finishes \/ Unexpected \/ MonitorChanges \/ Fails
  \/ PlayResult \/ GetdigResult \/ RecordResult \/ OtherResult \/ DialResult
  \/ CallerIdResult \/ HangupResult
Moves ==
  \/ ClientReads \/ ClientCommands \/ AgiMessages \/ DialStatus \/ VamdListens
  \/ VamdSignals \/ RunsJoined \/ AgiRuns \/ AgiHangsUp \/ Redirects \/ VamdReady
Next == Moves \/ ClientWrites \/ CallerHangsUp \/ VamdHears \/ VamdStops

\* Every message is read in the end and Asterisk's commands end; what the
\* client, the caller and the analyser do is up to them.
Spec == Init /\ [][Next]_vars /\ WF_vars(Moves)

-----------------------------------------------------------------------------
(* What may be relied on.                                                   *)

\* Every variable holds what it should: among others, no file is taken from an
\* empty list, and only keys of the caller are collected.
TypeOK ==
  /\ live \in BOOLEAN /\ doing \in Answered \cup {None}
  /\ \A i \in DOMAIN fromServer : fromServer[i] \in Messages \cup {Ok("GOTDIG")}
  /\ call.agifh \in 0..Len(conn) /\ call.vamd_state \in -1..3 /\ call.files \in Nat
  /\ {call.agi_doing, call.queued} \subseteq AgiCommands \cup {None}
  /\ \A i \in DOMAIN call.collected : call.collected[i] \in Keys
  /\ \A i \in DOMAIN toAgi : toAgi[i] \in AgiCommands \cup {"MONITOR", "STOPMONITOR"}

ClientStep ==
  /\ UNCHANGED <<live, doing>>
  /\ \/ fromServer # <<>> /\ fromServer' = Tail(fromServer) /\ UNCHANGED toServer
     \/ \E c \in Commands : toServer' = Append(toServer, c) /\ UNCHANGED fromServer

\* A command answered where it is read: Accept and Complete in one.
AnswerAtOnce ==
  /\ toServer # <<>> /\ Head(toServer).type \in {"PLAY", "GETDIG", "RECORD"}
  /\ live /\ doing = None
  /\ \E m \in Results(Head(toServer).type) : fromServer' = Append(fromServer, m)
  /\ toServer' = Tail(toServer)
  /\ UNCHANGED <<live, doing>>

\* A recording that a hangup ends: Complete and HangUp in one.
AnswerAndHangUp ==
  /\ live /\ doing = "RECORD"
  /\ fromServer' = fromServer \o <<Ok("RECORDED"), Ok("HUNGUP")>>
  /\ live' = FALSE /\ doing' = None /\ UNCHANGED toServer

\* A GETDIG sent while the call is moved for a signal that came after the
\* command it was meant for: the answer has no digit.  SatcCall leaves it out.
\* After a transfer the digit may also have gone to a GETDIG before.
AnswerNoDigit ==
  /\ live /\ doing = "GETDIG"
  /\ redirecting \/ dialing
  /\ fromServer' = Append(fromServer, Ok("GOTDIG"))
  /\ doing' = None /\ UNCHANGED <<toServer, live>>

\* Once the call has dialed: a failure that answers no command, or another than
\* the one it is of.
AnswerOutOfStep ==
  /\ live /\ dialing
  /\ \E type \in Answered :
       fromServer' = Append(fromServer, Message(AnswerType(type), TRUE, FALSE, None))
  /\ doing' = None /\ UNCHANGED <<toServer, live>>

\* Seen from the client, phoneglue does what SatcCall says: whatever Asterisk
\* and the analyser do, and in whatever order they are heard, a command is
\* answered once, by a message of its own kind, and none after a hangup.  After
\* a transfer it may also say, once too often, that something failed.
KeepsSatcCall ==
  [][\/ ServerStep \/ ClientStep \/ AnswerAtOnce \/ AnswerAndHangUp
     \/ AnswerNoDigit \/ AnswerOutOfStep]_serverVars

\* The next result on the connection is one of the command phoneglue takes it
\* for, across monitors started and stopped, redirects and signals.  It is no
\* longer so once a call has dialed: dialing is never deleted, so the status of
\* a second transfer may answer it before its result was read.
AgiInStep ==
  /\ call.agifh # 0 /\ conn[call.agifh] # <<>> /\ ~dialing
  /\ Item.of \notin {"CLOSED", "INIT"} /\ call.agi_doing # None
  => Item.of = CASE call.vamd_state = 2  -> "MONITOR"
                 [] call.vamd_state = -1 -> "STOPMONITOR"
                 [] OTHER -> call.agi_doing

\* A command that signals may end runs only with the line copied to the
\* analyser, as long as there is one and the call has not dialed: then the
\* result of an earlier command may be taken for the monitor's.
SignalsHeard ==
  /\ Running \in {"PLAYFILE", "GETDIGIT", "RECORDFILE"} /\ caller /\ vamd
  /\ ~dialing
  /\ SignalsOf(call, Running) # {}
  => monitor

\* The client is told of a hangup only when the caller is gone, when it asked
\* for one, or when Asterisk reported -1 for the very command the call is doing,
\* on the connection the call is on: phoneglue takes every such -1 for a hangup,
\* so the client may be told of one that is a play that failed.  Neither the
\* close of a connection that a redirect drops, nor a result left on it, nor the
\* -1 of another command is taken for one.  Two exceptions: a second redirect
\* while the first is awaited (a second signal before the call is back), which
\* does report a false hangup, and the late -1 of a dial taken for another's.
HungUpTruly ==
  [][live /\ ~live' /\ fromServer' # fromServer
       /\ fromServer'[Len(fromServer')].type = "HUNGUP"
     => \/ ~caller \/ doing = "HANGUP" \/ again
        \/ /\ call.agifh = Len(conn) /\ Item.key \in MinusOne
           /\ Item.of = call.agi_doing \/ dialing]_vars

\* Where a command waits for ever: the caller left while the call was between
\* two connections, or another call got the second one; the analyser stopped
\* before it said it listens; the line that sets the caller id was never ended;
\* a PLAYDIG was interrupted, or the status of a transfer came before its result.
Stranded ==
  \/ /\ ~caller /\ call.agifh = 0
     /\ \A i \in DOMAIN conn : conn[i] = <<>> \/ Head(conn[i]) # INIT
  \/ other = "incoming" /\ call.agifh = 0
  \/ call.vamd_state = 1 /\ ~vamd /\ fromVamd = <<>>
  \/ call.agi_doing = "SETCALLERID"
  \/ /\ doing \notin {"PLAY", "GETDIG", "RECORD"}
     /\ call.agi_doing = None /\ statuses = 0

\* Every command is answered, or ended by a hangup, but for those: an
\* interrupted PLAY, GETDIG or RECORD always is.
CommandsAnswered == (doing # None) ~> (doing = None \/ Stranded)
=============================================================================
