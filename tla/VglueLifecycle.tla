--------------------------- MODULE VglueLifecycle ---------------------------
(***************************************************************************)
(* voiceglue from its start to its stop, as a client of phoneglue: it      *)
(* registers, allows calls, starts an interpreter thread for every call it *)
(* is offered, and when told to stop refuses further ones and ends with    *)
(* its last thread.  A call in between is VglueCall.                       *)
(***************************************************************************)
EXTENDS PhoneglueRouting

CONSTANT
  Registered,      \* the url voiceglue registers
  Served, Free     \* other clients that have registered it, free channels

ASSUME LifecycleAssumption == Registered \in Urls /\ Served \subseteq Others
                       /\ Free \subseteq Channels

VARIABLES
  phase,           \* where main() is
  session,         \* the interpreter threads: whether their calls are connected
  VXML_threads, Stop_requested, Finished,
  unserved         \* calls that were offered and that voiceglue has forgotten

vglueVars == <<phase, session, VXML_threads, Stop_requested, Finished, unserved>>
vars == <<routingVars, vglueVars>>

Send(m) == toServer' = [toServer EXCEPT ![Vglue] = Append(@, m)]

-----------------------------------------------------------------------------
(* initialize_ctserver: each request waits for its answer.                  *)

Begin ==
  /\ phase = "begin" /\ phase' = "START"
  /\ \E toself \in BOOLEAN : /\ toself => Vglue \in Toself
                            /\ Send([Message("START") EXCEPT !.toself = toself])
  /\ UNCHANGED <<serverVars, fromServer, manager, astVars, alive, client,
                 session, VXML_threads, Stop_requested, Finished, unserved>>

\* get_next_bytes joins all the lines that have come, and decode takes the
\* fields of the first for the message and drops the rest.
Initialize(request, answer, next) ==
  /\ phase = request /\ phase' = next
  /\ fromServer # <<>> /\ Head(fromServer).type = answer
  /\ \E n \in 1..Len(fromServer) :
       /\ fromServer' = SubSeq(fromServer, n + 1, Len(fromServer))
       /\ unserved' = unserved \cup
            {ch \in Channels : \E i \in 2..n :
               fromServer[i] = AboutCall("INCOMING", ch)}
  /\ IF next = "run" THEN UNCHANGED toServer
     ELSE Send(IF next = "REG" THEN AboutUrl(next, Registered)
               ELSE Message(next))
  /\ UNCHANGED <<serverVars, manager, astVars, alive, client, session,
                 VXML_threads, Stop_requested, Finished>>

\* One registration stands for those of the configuration: each is one such
\* request with its answer, before the next is sent.
InitializeCtServer ==
  \/ Initialize("START", "STARTED", "REG")
  \/ Initialize("REG", "REGED", "ALLOWIN")
  \/ Initialize("ALLOWIN", "ALLOWEDIN", "run")

-----------------------------------------------------------------------------
(* Calls.                                                                   *)

\* A call is given a thread; or is hung up, when there is no url for it or its
\* socket fails; or is forgotten, when the thread or its configuration fails.
HandleSatcIncoming(ch) ==
  \/ /\ session' = [session EXCEPT ![ch] = "connected"]
     /\ VXML_threads' = VXML_threads + 1
     /\ UNCHANGED <<toServer, unserved>>
  \/ /\ Send(AboutCall("HANGUP", ch))
     /\ UNCHANGED <<session, VXML_threads, unserved>>
  \/ /\ unserved' = unserved \cup {ch}
     /\ UNCHANGED <<toServer, session, VXML_threads>>

HandleSatcHungupOrReleased(ch) ==
  /\ session' = IF session[ch] = None THEN session
                ELSE [session EXCEPT ![ch] = "hungup"]
  /\ UNCHANGED <<toServer, VXML_threads, unserved>>

HandleMsgFromCtServer ==
  /\ phase = "run" /\ fromServer # <<>>
  /\ fromServer' = Tail(fromServer)
  /\ LET m == Head(fromServer)
     IN \/ m.type = "INCOMING" /\ HandleSatcIncoming(m.call)
        \/ m.type \in {"HUNGUP", "RELEASED"}
           /\ HandleSatcHungupOrReleased(m.call)
        \/ m.type \in {"STOPPEDIN", "RELEASE"}
           /\ UNCHANGED <<toServer, session, VXML_threads, unserved>>
  /\ UNCHANGED <<serverVars, manager, astVars, alive, client, phase,
                 Stop_requested, Finished>>

\* Mutant: only a thread whose caller has gone releases the call.
ReleasesHungup(ch) == session[ch] = "hungup"

ReleasesCall(ch) == session[ch] = "connected"

\* clean_up_stopped_vxml_thread.
ThreadEnds(ch) ==
  /\ phase = "run" /\ session[ch] # None
  /\ session' = [session EXCEPT ![ch] = None]
  /\ VXML_threads' = VXML_threads - 1
  /\ IF ReleasesCall(ch) THEN Send(AboutCall("RELEASE", ch)) ELSE UNCHANGED toServer
  /\ Finished' = (Finished \/ (VXML_threads' = 0 /\ Stop_requested))
  /\ UNCHANGED <<serverVars, fromServer, manager, astVars, alive, client,
                 phase, Stop_requested, unserved>>

-----------------------------------------------------------------------------
(* The end.                                                                 *)

\* Mutant: the last thread is waited for even if there is none.
FinishesLater == FALSE

FinishesAtOnce == VXML_threads = 0

\* The command "stop".
StopCommand ==
  /\ phase = "run" /\ ~Stop_requested
  /\ Send(Message("STOPIN"))
  /\ Stop_requested' = TRUE
  /\ Finished' = (Finished \/ FinishesAtOnce)
  /\ UNCHANGED <<serverVars, fromServer, manager, astVars, alive, client,
                 phase, session, VXML_threads, unserved>>

\* main() leaves its loop after the events it has.
Shutdown ==
  /\ phase = "run" /\ Finished
  /\ phase' = "over" /\ alive' = alive \ {Vglue}
  /\ Send(Message("STOP"))
  /\ UNCHANGED <<serverVars, fromServer, manager, astVars, client,
                 session, VXML_threads, Stop_requested, Finished, unserved>>

VglueStep ==
  \/ Begin \/ InitializeCtServer \/ HandleMsgFromCtServer \/ Shutdown
  \/ \E ch \in Channels : ThreadEnds(ch)

-----------------------------------------------------------------------------
\* Either voiceglue begins and is alone; or it is not there, some of the others
\* have just connected, some serve calls already, and some channels are used up.
Init ==
  /\ \/ phase = "begin" /\ RoutingInit({Vglue}, {}, Channels)
     \/ phase = "over" /\ RoutingInit(Others, {Registered} \X Served, Free)
  /\ session = [ch \in Channels |-> None]
  /\ VXML_threads = 0 /\ Stop_requested = FALSE /\ Finished = FALSE
  /\ unserved = {}

Next ==
  \/ ServerStep /\ UNCHANGED vglueVars
  \/ AsteriskStep /\ UNCHANGED vglueVars
  \/ (\E c \in Others : ClientStep(c)) /\ UNCHANGED vglueVars
  \/ VglueStep
  \/ StopCommand

\* What happens without anybody outside wanting it.
Moves ==
  \/ ServerStep /\ UNCHANGED vglueVars
  \/ (\E ch \in Channels : AnswerReported(ch) \/ LegConnects(ch)
                             \/ (caller[ch].bye /\ HangsUp(ch)))
     /\ UNCHANGED vglueVars
  \/ (\E mk \in Makes : Fails(mk) \/ \E ch \in Channels : Answers(ch, mk))
     /\ UNCHANGED vglueVars
  \/ VglueStep

Spec == Init /\ [][Next]_vars
FairSpec == Spec /\ WF_vars(Moves)

-----------------------------------------------------------------------------
(* Properties.                                                              *)

\* A call object, its client and its AGI connection know of each other, and a
\* client that is gone has no calls (Callid_to_callobj, the "callid" of the
\* client objects and of the AGI objects).
CallsMatchClients ==
  \A ch \in Channels :
    /\ \A c \in Clients : pg.callobj[ch] = c <=> ch \in pg.ct[c].calls
    /\ pg.callobj[ch] # None <=> pg.agi[ch] = "attached"
    /\ pg.callobj[ch] # None => pg.ct[pg.callobj[ch]].fh # "gone"

\* A registration is of a client that is there ("Remove registrations when CT
\* clients go away").
RegistrationsLive ==
  \A r \in pg.registrations : pg.ct[r[2]].fh # "gone"

\* How often a message of a call being made is on its way.
Copies(seq, Test(_)) == Cardinality({i \in 1..Len(seq) : Test(seq[i])})
Places(mk) ==
  LET Of(m) == m.make = mk
  IN Copies(toServer[mk.client], Of)
     + (IF batch.client = mk.client THEN Copies(batch.msgs, Of) ELSE 0)
     + (IF mk \in pg.callmaking THEN 1 ELSE 0)
     + Cardinality({ch \in Channels : pg.awaiting[ch] = mk})

\* A call a client has asked for and not been told of is in one place: its
\* request is on its way, or Asterisk is making it, or its connection is awaited.
\* One it has been told of is in none: it is neither lost nor answered twice
\* (callmaking, received and awaiting, whichever event comes first).
MakesInOnePlace ==
  \A mk \in Makes : mk.client \in alive /\ pg.ct[mk.client].fh = "open" =>
    Places(mk) = IF mk \in client[mk.client].making THEN 1 ELSE 0

\* A call that was made for one client is given to another only if it was not
\* reported in time, or its client is gone.
LegsReachTheirMaker ==
  [][\A ch \in Channels :
       LET mk == caller[ch].leg
       IN mk # None /\ pg.callobj[ch] = None /\ pg'.callobj[ch] # None =>
            \/ pg'.callobj[ch] = mk.client
            \/ ch \in pg.received
            \/ pg.ct[mk.client].fh = "gone"]_vars

OnItsWay(ch, type) ==
  \/ AboutCall(type, ch) \in ToSet(toServer[Vglue])
  \/ batch.client = Vglue /\ AboutCall(type, ch) \in ToSet(batch.msgs)

\* Every call phoneglue has for voiceglue is served by a thread, or about to be
\* told to it, released or hung up; but for those that were swallowed while
\* voiceglue started or whose thread failed to start.
CallsServed ==
  up /\ phase # "over" =>
    \A ch \in Channels : pg.callobj[ch] = Vglue =>
      \/ session[ch] = "connected"
      \/ AboutCall("INCOMING", ch) \in ToSet(fromServer)
      \/ OnItsWay(ch, "RELEASE") \/ OnItsWay(ch, "HANGUP")
      \/ caller[ch].bye \/ ch \in unserved

\* A call a client has asked for is answered at last, unless the client or
\* phoneglue is gone, or the call was given to another client, where it lasts.
MakesAnswered ==
  \A mk \in Makes :
    mk \in client[mk.client].making ~>
      \/ mk \notin client[mk.client].making
      \/ mk.client \notin alive \/ ~up \/ pg.ct[mk.client].fh # "open"
      \/ \E ch \in Channels : caller[ch].leg = mk /\ pg.awaiting[ch] = mk
                               /\ pg.agi[ch] \in {"attached", "closed"}

\* Once told to stop, voiceglue ends with its last call, if interpreters end.
VoiceglueStops == Stop_requested ~> phase = "over"
=============================================================================
