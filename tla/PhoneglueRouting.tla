-------------------------- MODULE PhoneglueRouting --------------------------
(***************************************************************************)
(* phoneglue between its clients and Asterisk: which client a call goes    *)
(* to.  Clients say over SATC which numbers they serve and when, and make  *)
(* calls; Asterisk opens an AGI connection per call and reports, on its    *)
(* manager connection, what became of the calls phoneglue had it make.     *)
(* What a client does with a call it has is PhoneglueCall.                 *)
(*                                                                         *)
(* One process handles one event at a time.  All the bytes read from a     *)
(* client are one event: phoneglue handles every message in them before    *)
(* it looks at anything else.  That a client has closed its connection may *)
(* be seen at any time (every write reads, too), but is an event after the *)
(* bytes read before.                                                      *)
(***************************************************************************)
EXTENDS Naturals, Sequences, FiniteSets, SequencesExt

CONSTANTS
  Clients, Channels, None,
  Urls, Dnis,      \* what can be registered, numbers that can be called,
  Covers,          \* and the numbers each url stands for
  Toself,          \* the clients that may name a toself,
  LegDnis,         \* the number of which is this one
  Vglue,           \* the client that is voiceglue
  MaxMakes, MaxSent  \* bounds of a run: calls made, requests of a client

Others == Clients \ {Vglue}
Makes  == [client : Others, id : 1..MaxMakes]

ASSUME RoutingAssumption ==
  /\ Toself \subseteq Clients
  /\ Vglue \in Clients
  /\ Covers \in [Urls -> SUBSET Dnis]
  /\ LegDnis \in Dnis
  /\ {MaxMakes, MaxSent} \subseteq Nat
  /\ None \notin Clients \cup Channels \cup Urls \cup Makes

VARIABLES
  up,              \* phoneglue runs
  pg,              \* what it knows, see Init
  batch,           \* the messages of the event it is handling
  toServer,        \* SATC, per client
  fromServer,      \* and to voiceglue
  manager,         \* events of Asterisk's manager
  caller,          \* the calls, in Asterisk
  originating,     \* the calls it is making
  alive,           \* the clients that run
  client           \* those that are not voiceglue

serverVars == <<up, pg, batch>>
astVars    == <<caller, originating>>
toClients  == <<fromServer, client>>
routingVars == <<serverVars, toServer, manager, toClients, astVars, alive>>

\* A SATC message; the fields that its type has not are None.
Message(type) == [type |-> type, url |-> None, call |-> None, make |-> None,
                  toself |-> FALSE]
AboutUrl(type, url)  == [Message(type) EXCEPT !.url = url]
AboutCall(type, ch)  == [Message(type) EXCEPT !.call = ch]
MadeCall(mk, ch)     == [Message("MADECALL") EXCEPT !.make = mk, !.call = ch]

-----------------------------------------------------------------------------
(* Clients and their calls.                                                 *)

\* Mutant: the calls of a client that goes stay attached.
RemovedAlone(p, c) ==
  [p EXCEPT !.ct[c].fh = "gone", !.ct[c].calls = {},
            !.registrations = @ \ (Urls \X {c})]

\* remove_client: the calls and the registrations of a client go with it.
Removed(p, c) ==
  [p EXCEPT !.ct[c].fh = "gone", !.ct[c].calls = {},
            !.registrations = @ \ (Urls \X {c}),
            !.callobj = [ch \in Channels |->
                           IF ch \in p.ct[c].calls THEN None ELSE @[ch]],
            !.agi = [ch \in Channels |->
                       IF ch \in p.ct[c].calls THEN "closed" ELSE @[ch]]]

\* What a client that is not voiceglue makes of a message.  That it reads it at
\* once loses nothing: what it does before it reads it, it can do before it is
\* sent.
Reads(cl, m) ==
  CASE m.type = "INCOMING" -> [cl EXCEPT !.calls = @ \cup {m.call}]
    [] m.type = "MADECALL" -> [cl EXCEPT !.making = @ \ {m.make},
                                         !.calls = @ \cup ({m.call} \ {None})]
    [] m.type \in {"HUNGUP", "RELEASED", "RELEASE"} ->
         [cl EXCEPT !.calls = @ \ {m.call}]
    [] OTHER -> [cl EXCEPT !.asked = IF m.type = "STOPPED" THEN @ ELSE None]

\* send_ct_server_msg: a write that fails ends the client.
Sent(p, c) == IF p.ct[c].fh = "closed" THEN Removed(p, c) ELSE p
Heard(p, c, m) ==
  IF p.ct[c].fh # "open" \/ c \notin alive THEN UNCHANGED toClients
  ELSE IF c = Vglue
       THEN fromServer' = Append(fromServer, m) /\ UNCHANGED client
       ELSE client' = [client EXCEPT ![c] = Reads(@, m)] /\ UNCHANGED fromServer
Say(p, c, m) == pg' = Sent(p, c) /\ Heard(p, c, m)

\* A call object, attached to a client and to the AGI connection.
Attached(p, ch, c) ==
  [p EXCEPT !.callobj[ch] = c, !.agi[ch] = "attached",
            !.ct[c].calls = @ \cup {ch}]

\* agi_client_finished: the call leaves the client it was attached to.
AgiFinished(ch, type) ==
  LET c == pg.callobj[ch]
  IN Say([pg EXCEPT !.callobj[ch] = None, !.agi[ch] = "closed",
                    !.ct[c].calls = @ \ {ch}], c, AboutCall(type, ch))

\* The clients that registered for a number.
Matching(dnis) ==
  {c \in Clients : \E u \in Urls : <<u, c>> \in pg.registrations
                                   /\ dnis \in Covers[u]}

\* Without a match the call is dropped.  A client that is gone has no protocol
\* to encode the message with: phoneglue dies of it.
IncomingCall(p, ch) ==
  LET matching == Matching(caller[ch].dnis)
  IN \/ /\ matching = {}
        /\ pg' = [p EXCEPT !.agi[ch] = "closed"]
        /\ UNCHANGED <<up, toClients>>
     \/ \E c \in matching :
          IF p.ct[c].fh = "gone"
          THEN up' = FALSE /\ UNCHANGED <<pg, toClients>>
          ELSE Say(Attached(p, ch, c), c, AboutCall("INCOMING", ch))
               /\ UNCHANGED up

\* A made call goes to the client that had it made.
OutgoingCall(p, ch, mk) ==
  IF p.ct[mk.client].fh = "gone"
  THEN pg' = [p EXCEPT !.agi[ch] = "closed"] /\ UNCHANGED toClients
  ELSE Say(Attached(p, ch, mk.client), mk.client, MadeCall(mk, ch))

MakeCallFailed(p, mk) ==
  IF p.ct[mk.client].fh = "gone"
  THEN pg' = p /\ UNCHANGED toClients
  ELSE Say(p, mk.client, MadeCall(mk, None))

-----------------------------------------------------------------------------
(* Requests of clients.                                                     *)

Start(c, toself) ==
  /\ Say([pg EXCEPT !.ct[c].toself = @ \/ toself], c, Message("STARTED"))
  /\ UNCHANGED <<caller, originating>>

Stop(c) ==
  LET p == Sent(pg, c)
  IN /\ pg' = IF p.ct[c].fh = "open" THEN [p EXCEPT !.ct[c].fh = "closed"]
              ELSE p
     /\ Heard(pg, c, Message("STOPPED"))
     /\ UNCHANGED <<caller, originating>>

\* Registrations made before calls are allowed take effect with ALLOWIN.
Reg(c, url) ==
  /\ Say(IF pg.ct[c].allowin
         THEN [pg EXCEPT !.registrations = @ \cup {<<url, c>>}]
         ELSE [pg EXCEPT !.ct[c].register = @ \cup {url}],
         c, Message("REGED"))
  /\ UNCHANGED <<caller, originating>>

Unreg(c, url) ==
  /\ Say(IF pg.ct[c].allowin
         THEN [pg EXCEPT !.registrations = @ \ {<<url, c>>}]
         ELSE [pg EXCEPT !.ct[c].register = @ \ {url}],
         c, Message("UNREGED"))
  /\ UNCHANGED <<caller, originating>>

AllowIn(c) ==
  /\ Say([pg EXCEPT !.ct[c].allowin = TRUE,
                    !.registrations = @ \cup (pg.ct[c].register \X {c})],
         c, Message("ALLOWEDIN"))
  /\ UNCHANGED <<caller, originating>>

\* Only the registrations made before ALLOWIN end; allowin stays defined.
StopIn(c) ==
  /\ Say([pg EXCEPT !.ct[c].allowin = TRUE,
                    !.registrations = @ \ (pg.ct[c].register \X {c})],
         c, Message("STOPPEDIN"))
  /\ UNCHANGED <<caller, originating>>

Release(c, ch) ==
  /\ IF pg.callobj[ch] = None
     THEN Say(pg, c, AboutCall("RELEASE", ch))
     ELSE AgiFinished(ch, "RELEASED")
  /\ UNCHANGED <<caller, originating>>

\* Asterisk hangs the channel up, and closes the AGI connection later.
Hangup(c, ch) ==
  /\ IF pg.callobj[ch] = None
     THEN Say(pg, c, AboutCall("HUNGUP", ch)) /\ UNCHANGED caller
     ELSE /\ caller' = [caller EXCEPT ![ch].bye = TRUE]
          /\ UNCHANGED <<pg, toClients>>
  /\ UNCHANGED <<originating>>

MakeCall(c, mk) ==
  /\ IF ~pg.ct[c].toself
     THEN Say(pg, c, MadeCall(mk, None)) /\ UNCHANGED originating
     ELSE /\ pg' = [pg EXCEPT !.callmaking = @ \cup {mk}]
          /\ originating' = originating \cup {mk}
          /\ UNCHANGED toClients
  /\ UNCHANGED <<caller>>

HandleMsg(c, m) ==
  \/ m.type = "START"    /\ Start(c, m.toself)
  \/ m.type = "STOP"     /\ Stop(c)
  \/ m.type = "REG"      /\ Reg(c, m.url)
  \/ m.type = "UNREG"    /\ Unreg(c, m.url)
  \/ m.type = "ALLOWIN"  /\ AllowIn(c)
  \/ m.type = "STOPIN"   /\ StopIn(c)
  \/ m.type = "RELEASE"  /\ Release(c, m.call)
  \/ m.type = "HANGUP"   /\ Hangup(c, m.call)
  \/ m.type = "MAKECALL" /\ MakeCall(c, m.make)

-----------------------------------------------------------------------------
(* Events.                                                                  *)

Idle == up /\ batch.msgs = <<>>

\* What was read from a client is one event; if it closed, that is all it wrote.
ReadBytes(c) ==
  /\ Idle /\ pg.ct[c].fh \in {"open", "closed"}
  /\ \E n \in 1..Len(toServer[c]) :
       /\ pg.ct[c].fh = "closed" => n = Len(toServer[c])
       /\ batch' = [client |-> c, msgs |-> SubSeq(toServer[c], 1, n)]
       /\ toServer' = [toServer EXCEPT ![c] = SubSeq(@, n + 1, Len(@))]
  /\ UNCHANGED <<up, pg, manager, toClients, astVars, alive>>

\* handle_bytes_from_ct_client goes on with the messages of a client that a
\* failed answer has removed.
HandleBytes ==
  /\ up /\ batch.msgs # <<>>
  /\ HandleMsg(batch.client, Head(batch.msgs))
  /\ batch' = [batch EXCEPT !.msgs = Tail(@)]
  /\ UNCHANGED <<up, toServer, manager, alive>>

SeesEof(c) ==
  /\ up /\ pg.ct[c].fh = "open" /\ c \notin alive
  /\ pg' = [pg EXCEPT !.ct[c].fh = "closed"]
  /\ UNCHANGED <<up, batch, toServer, manager, toClients, astVars, alive>>

ClientStopped(c) ==
  /\ Idle /\ pg.ct[c].fh = "closed" /\ toServer[c] = <<>>
  /\ pg' = Removed(pg, c)
  /\ UNCHANGED <<up, batch, toServer, manager, toClients, astVars, alive>>

\* Mutant: no call is taken for the leg of a call being made.
PotentialOutboundLegNever(ch) == FALSE

\* A call that comes from where a client has its made calls come from.
PotentialOutboundLeg(ch) ==
  /\ caller[ch].self
  /\ \E c \in Clients : pg.ct[c].toself /\ pg.ct[c].fh # "gone"

\* Asterisk has told all about the call of a new AGI connection.  It always tells
\* who calls and the Uniqueid; a connection without them, which is closed, is no
\* input here.
NewAgi(ch) ==
  /\ Idle /\ pg.agi[ch] = "dump"
  /\ LET mk == pg.awaiting[ch]
     IN \/ /\ mk # None
           /\ OutgoingCall([pg EXCEPT !.awaiting[ch] = None], ch, mk)
           /\ UNCHANGED up
        \/ /\ mk = None /\ PotentialOutboundLeg(ch)
           /\ pg' = [pg EXCEPT !.agi[ch] = "parked",
                               !.received = @ \cup {ch}]
           /\ UNCHANGED <<up, toClients>>
        \/ /\ mk = None /\ ~PotentialOutboundLeg(ch)
           /\ IncomingCall(pg, ch)
  /\ UNCHANGED <<batch, toServer, manager, astVars, alive>>

AgiClosed(ch) ==
  /\ Idle /\ caller[ch].line = "over"
  /\ \/ pg.agi[ch] = "attached" /\ AgiFinished(ch, "HUNGUP")
     \/ /\ pg.agi[ch] = "parked"
        /\ pg' = [pg EXCEPT !.agi[ch] = "closed"]
        /\ UNCHANGED toClients
  /\ UNCHANGED <<up, batch, toServer, manager, astVars, alive>>

\* Two seconds later, a call that nobody made is an incoming call.
ReceivedTimeout(ch) ==
  /\ Idle /\ ch \in pg.received
  /\ LET p == [pg EXCEPT !.received = @ \ {ch}]
     IN IF pg.agi[ch] = "parked"
        THEN IncomingCall(p, ch)
        ELSE pg' = p /\ UNCHANGED <<up, toClients>>
  /\ UNCHANGED <<batch, toServer, manager, astVars, alive>>

\* The call is made: it is here already, or will be.  A report of success always
\* has the Uniqueid; one without, which is answered as a failure, is no input here.
OriginateSucceeded(mk, ch) ==
  LET p == [pg EXCEPT !.callmaking = @ \ {mk}]
  IN IF pg.ct[mk.client].fh = "gone"
     THEN pg' = p /\ UNCHANGED toClients
     ELSE IF ch \in pg.received /\ pg.agi[ch] = "parked"
     THEN OutgoingCall([p EXCEPT !.received = @ \ {ch}], ch, mk)
     ELSE pg' = [p EXCEPT !.awaiting[ch] = mk] /\ UNCHANGED toClients

\* Mutant: the call is still being made.
OriginateFailedKept(mk) == MakeCallFailed(pg, mk)

OriginateFailed(mk) ==
  MakeCallFailed([pg EXCEPT !.callmaking = @ \ {mk}], mk)

\* Mutant: a hangup concerns nobody.
AwaitedHangupIgnored(ch) == UNCHANGED <<pg, toClients>>

\* The hangup of a call whose AGI connection is still awaited.
AwaitedHangup(ch) ==
  LET mk == pg.awaiting[ch]
  IN IF mk = None THEN UNCHANGED <<pg, toClients>>
     ELSE MakeCallFailed([pg EXCEPT !.awaiting[ch] = None], mk)

ManagerEvent ==
  /\ Idle /\ manager # <<>>
  /\ manager' = Tail(manager)
  /\ LET e == Head(manager)
     IN \/ e.type = "SUCCESS" /\ OriginateSucceeded(e.make, e.call)
        \/ e.type = "FAILURE" /\ OriginateFailed(e.make)
        \/ e.type = "HANGUP"  /\ AwaitedHangup(e.call)
  /\ UNCHANGED <<up, batch, toServer, astVars, alive>>

ServerStep ==
  \/ HandleBytes
  \/ \E c \in Clients : ReadBytes(c)
  \/ \E c \in Clients : SeesEof(c) \/ ClientStopped(c)
  \/ \E ch \in Channels : NewAgi(ch) \/ AgiClosed(ch) \/ ReceivedTimeout(ch)
  \/ ManagerEvent

-----------------------------------------------------------------------------
(* Asterisk (external).  A channel is used for one call.                    *)

Connects(ch) == pg' = [pg EXCEPT !.agi[ch] = "dump"]

\* Where a call comes from matters to nobody without a client that names a
\* toself.
CallComes(ch) ==
  /\ up /\ caller[ch].line = "idle"
  /\ \E dnis \in Dnis, self \in BOOLEAN :
       /\ self => \E c \in Toself : pg.ct[c].fh # "gone"
       /\ caller' = [caller EXCEPT ![ch] = [line |-> "up", dnis |-> dnis,
                                            self |-> self, leg |-> None,
                                            bye |-> FALSE]]
  /\ Connects(ch)
  /\ UNCHANGED <<up, batch, toServer, manager, toClients, originating, alive>>

\* The other end answers; the call goes on to phoneglue while the manager
\* reports it, and cannot end before that.
Answers(ch, mk) ==
  /\ up /\ mk \in originating /\ caller[ch].line = "idle"
  /\ originating' = originating \ {mk}
  /\ caller' = [caller EXCEPT ![ch] = [line |-> "answered", dnis |-> LegDnis,
                                       self |-> TRUE, leg |-> mk,
                                       bye |-> FALSE]]
  /\ UNCHANGED <<serverVars, toServer, manager, toClients, alive>>

Event(type, mk, ch) == [type |-> type, make |-> mk, call |-> ch]

AnswerReported(ch) ==
  /\ caller[ch].line = "answered"
  /\ caller' = [caller EXCEPT ![ch].line = "up"]
  /\ manager' = Append(manager, Event("SUCCESS", caller[ch].leg, ch))
  /\ UNCHANGED <<serverVars, toServer, toClients, originating, alive>>

Fails(mk) ==
  /\ mk \in originating
  /\ originating' = originating \ {mk}
  /\ manager' = Append(manager, Event("FAILURE", mk, None))
  /\ UNCHANGED <<serverVars, toServer, toClients, caller, alive>>

LegConnects(ch) ==
  /\ up /\ caller[ch].leg # None /\ caller[ch].line \in {"answered", "up"}
  /\ pg.agi[ch] = "none" /\ Connects(ch)
  /\ UNCHANGED <<up, batch, toServer, manager, toClients, astVars, alive>>

HangsUp(ch) ==
  /\ caller[ch].line = "up"
  /\ caller' = [caller EXCEPT ![ch].line = "over"]
  /\ manager' = IF caller[ch].leg = None THEN manager
                ELSE Append(manager, Event("HANGUP", None, ch))
  /\ UNCHANGED <<serverVars, toServer, toClients, originating, alive>>

AsteriskStep ==
  \/ \E ch \in Channels : CallComes(ch) \/ AnswerReported(ch)
                          \/ LegConnects(ch) \/ HangsUp(ch)
  \/ \E ch \in Channels, mk \in Makes : Answers(ch, mk)
  \/ \E mk \in Makes : Fails(mk)

-----------------------------------------------------------------------------
(* A client that is not voiceglue.  It waits for the answer to each request *)
(* of the config class; calls it makes and releases meanwhile.              *)

Fresh == [started |-> FALSE, asked |-> None, making |-> {}, made |-> 0,
          calls |-> {}, sent |-> 0]

Request(c, m) ==
  /\ c \in alive /\ client[c].asked # "STOP" /\ client[c].sent < MaxSent
  /\ toServer' = [toServer EXCEPT ![c] = Append(@, m)]

Asks(c, m) ==
  /\ client[c].asked = None /\ (m.type = "START" <=> ~client[c].started)
  /\ Request(c, m)
  /\ client' = [client EXCEPT ![c].asked = m.type, ![c].started = TRUE,
                              ![c].sent = @ + 1]

Configures(c) ==
  \/ \E toself \in BOOLEAN : /\ toself => c \in Toself
                            /\ Asks(c, [Message("START") EXCEPT !.toself = toself])
  \/ \E type \in {"ALLOWIN", "STOPIN", "STOP"} : Asks(c, Message(type))
  \/ \E type \in {"REG", "UNREG"}, url \in Urls : Asks(c, AboutUrl(type, url))

\* Nothing else is asked before the answer to START.
Started(c) == client[c].started /\ client[c].asked # "START"

MakesCall(c) ==
  /\ Started(c) /\ client[c].made < MaxMakes
  /\ LET mk == [client |-> c, id |-> client[c].made + 1]
     IN /\ Request(c, [Message("MAKECALL") EXCEPT !.make = mk])
        /\ client' = [client EXCEPT ![c].made = @ + 1, ![c].sent = @ + 1,
                                    ![c].making = @ \cup {mk}]

Releases(c, ch) ==
  /\ ch \in client[c].calls
  /\ Request(c, AboutCall("RELEASE", ch))
  /\ client' = [client EXCEPT ![c].calls = @ \ {ch}, ![c].sent = @ + 1]

ClientDies(c) ==
  /\ c \in alive
  /\ alive' = alive \ {c} /\ client' = [client EXCEPT ![c] = Fresh]
  /\ UNCHANGED toServer

ClientStep(c) ==
  /\ \/ (Configures(c) \/ MakesCall(c) \/ \E ch \in Channels : Releases(c, ch))
        /\ UNCHANGED alive
     \/ ClientDies(c)
  /\ UNCHANGED <<serverVars, fromServer, manager, astVars>>

-----------------------------------------------------------------------------
\* The clients of "here" are connected and regs are the registrations in effect;
\* those who have made them ask nothing more.
RoutingInit(here, regs, free) ==
  LET Of(c) == {u \in Urls : <<u, c>> \in regs}
  IN /\ up = TRUE
     /\ pg = [ct |-> [c \in Clients |->
                       [fh |-> IF c \in here THEN "open" ELSE "gone",
                        toself |-> FALSE, allowin |-> Of(c) # {},
                        register |-> Of(c), calls |-> {}]],
              registrations |-> regs,
              callobj  |-> [ch \in Channels |-> None],
              agi      |-> [ch \in Channels |->
                              IF ch \in free THEN "none" ELSE "closed"],
              received |-> {}, callmaking |-> {},
              awaiting |-> [ch \in Channels |-> None]]
     /\ batch = [client |-> None, msgs |-> <<>>]
     /\ toServer = [c \in Clients |-> <<>>]
     /\ fromServer = <<>>
     /\ manager = <<>>
     /\ caller = [ch \in Channels |->
                    [line |-> IF ch \in free THEN "idle" ELSE "over",
                     dnis |-> LegDnis, self |-> FALSE, leg |-> None,
                     bye |-> FALSE]]
     /\ originating = {}
     /\ alive = here
     /\ client = [c \in Others |-> IF Of(c) = {} THEN Fresh
                                   ELSE [Fresh EXCEPT !.started = TRUE,
                                                      !.sent = MaxSent]]
=============================================================================
