--------------------------- MODULE RoutingProofs ---------------------------
(***************************************************************************)
(* What holds of phoneglue's routing for every set of clients, channels,   *)
(* urls and numbers, and any number of requests and calls made: its tables *)
(* agree on who has which call, a call made for a client is given to no    *)
(* other one and is in one place until the client is told of it, and every *)
(* call phoneglue has for voiceglue is served.                             *)
(***************************************************************************)
EXTENDS VglueLifecycle, FiniteSetTheorems, SequenceTheorems, TLAPS

-----------------------------------------------------------------------------
(* Types.                                                                   *)

CallState == [line : {"idle", "answered", "up", "over"}, dnis : Dnis,
              self : BOOLEAN, leg : Makes \cup {None}, bye : BOOLEAN]
CtState   == [fh : {"open", "closed", "gone"}, toself : BOOLEAN,
              allowin : BOOLEAN, register : SUBSET Urls,
              calls : SUBSET Channels]
Knowledge == [ct : [Clients -> CtState],
              registrations : SUBSET (Urls \X Clients),
              callobj : [Channels -> Clients \cup {None}],
              agi : [Channels -> {"none", "dump", "parked", "attached", "closed"}],
              received : SUBSET Channels, callmaking : SUBSET Makes,
              awaiting : [Channels -> Makes \cup {None}]]

Requests == {"START", "STOP", "REG", "UNREG", "ALLOWIN", "STOPIN", "RELEASE",
             "HANGUP", "MAKECALL"}
Told     == {"STARTED", "STOPPED", "REGED", "UNREGED", "ALLOWEDIN",
             "STOPPEDIN", "INCOMING", "MADECALL", "HUNGUP", "RELEASED"}
Messages == [type : Requests \cup Told, url : Urls \cup {None},
             call : Channels \cup {None}, make : Makes \cup {None},
             toself : BOOLEAN]
FromClient(c) ==
  {m \in Messages : /\ m.type \in {"RELEASE", "HANGUP"} => m.call \in Channels
                    /\ m.type \in {"REG", "UNREG"} => m.url \in Urls
                    /\ m.type = "MAKECALL" => m.make \in Makes
                                              /\ m.make.client = c}
ToClients == {m \in Messages : m.type = "INCOMING" => m.call \in Channels}
Events    ==
  {e \in [type : {"SUCCESS", "FAILURE", "HANGUP"}, make : Makes \cup {None},
          call : Channels \cup {None}] :
     /\ e.type # "FAILURE" => e.call \in Channels
     /\ e.type # "HANGUP" => e.make \in Makes}
ClientState == [started : BOOLEAN, asked : Requests \cup Told \cup {None},
                making : SUBSET Makes, made : Nat, calls : SUBSET Channels,
                sent : Nat]

-----------------------------------------------------------------------------
(* The inductive invariant.                                                 *)

\* CallsMatchClients, of any knowledge phoneglue may have.
Matches(p) ==
  \A ch \in Channels :
    /\ \A c \in Clients : p.callobj[ch] = c <=> ch \in p.ct[c].calls
    /\ p.callobj[ch] # None <=> p.agi[ch] = "attached"
    /\ p.callobj[ch] # None => p.ct[p.callobj[ch]].fh # "gone"
Good(p) == p \in Knowledge /\ Matches(p)

\* What is written between the processes is what the protocol allows.
ClientWires == /\ fromServer \in Seq(ToClients)
               /\ client \in [Others -> ClientState]
RequestWire == /\ toServer \in [Clients -> Seq(Messages)]
               /\ \A c \in Clients : toServer[c] \in Seq(FromClient(c))
BatchTyped  == /\ batch.msgs # <<>> => batch.client \in Clients
               /\ \A c \in Clients :
                    batch.client = c /\ batch.msgs # <<>> =>
                      batch.msgs \in Seq(FromClient(c))
               /\ batch = [client |-> batch.client, msgs |-> batch.msgs]
AsteriskTyped == /\ caller \in [Channels -> CallState]
                 /\ originating \subseteq Makes
                 /\ manager \in Seq(Events)

\* A channel that is not used yet is not known to anybody.
Unused == \A ch \in Channels : caller[ch].line = "idle" =>
            pg.agi[ch] = "none" /\ caller[ch].leg = None

\* A call is made only for a client with a toself, from which it then comes; and
\* phoneglue awaits a channel only for the call it is a leg of.
LegsKnown ==
  /\ \A mk \in originating : pg.ct[mk.client].toself
  /\ \A ch \in Channels :
       /\ caller[ch].leg # None => /\ caller[ch].self
                                   /\ pg.ct[caller[ch].leg.client].toself
       /\ caller[ch].line = "answered" => caller[ch].leg # None
       /\ pg.awaiting[ch] \in {None, caller[ch].leg}
  /\ \A i \in 1..Len(manager) : manager[i].type = "SUCCESS" =>
       caller[manager[i].call].leg = manager[i].make

IInv == /\ Good(pg) /\ ClientWires /\ RequestWire /\ BatchTyped
        /\ AsteriskTyped /\ Unused /\ LegsKnown

-----------------------------------------------------------------------------
(* What a step of phoneglue makes of its knowledge.                         *)

\* q may come after pg: no channel begins to be used, a toself stays, and a leg
\* is awaited for the call it is of.
Follows(q) ==
  /\ \A c \in Clients : pg.ct[c].toself => q.ct[c].toself
  /\ \A ch \in Channels :
       /\ pg.agi[ch] = "none" => q.agi[ch] = "none"
       /\ q.awaiting[ch] \in {pg.awaiting[ch], None, caller[ch].leg}

\* A call may be given to this client.
MayTake(ch, c) ==
  caller[ch].leg # None =>
    \/ c = caller[ch].leg.client
    \/ ch \in pg.received
    \/ pg.ct[caller[ch].leg.client].fh = "gone"
Given(q) == \A ch \in Channels :
  pg.callobj[ch] = None /\ q.callobj[ch] # None => MayTake(ch, q.callobj[ch])
Fine(q) == Good(q) /\ Follows(q) /\ Given(q)

LEMMA SameIsFine ==
  ASSUME Good(pg)
  PROVE  Fine(pg)
BY DEF Fine, Follows, Given

\* remove_client leaves the tables in agreement,
LEMMA RemovedFine ==
  ASSUME NEW p, Fine(p), NEW c \in Clients
  PROVE  Fine(Removed(p, c))
<1> DEFINE q == Removed(p, c)
<1> USE RoutingAssumption
<1>1. p \in Knowledge
  BY DEF Fine, Good
<1>2. /\ p.ct \in [Clients -> CtState]
      /\ p.registrations \in SUBSET (Urls \X Clients)
      /\ p.callobj \in [Channels -> Clients \cup {None}]
      /\ p.agi \in [Channels -> {"none", "dump", "parked", "attached", "closed"}]
  BY <1>1 DEF Knowledge
<1>3. q = [p EXCEPT !.ct = q.ct, !.registrations = q.registrations,
                    !.callobj = q.callobj, !.agi = q.agi]
  BY <1>1 DEF Removed, Knowledge
<1>4. PICK r : r = [p.ct[c] EXCEPT !.fh = "gone", !.calls = {}]
  OBVIOUS
<1>5. /\ r \in CtState /\ r.fh = "gone" /\ r.calls = {}
      /\ r.toself = p.ct[c].toself
  <2>1. p.ct[c] \in CtState
    BY <1>2
  <2>2. r \in CtState
    BY <2>1, <1>4 DEF CtState
  <2>3. r.fh = "gone" /\ r.calls = {}
    BY <2>1, <1>4 DEF CtState
  <2>4. r.toself = p.ct[c].toself
    BY <2>1, <1>4 DEF CtState
  <2> QED
    BY <2>2, <2>3, <2>4
<1>6. q.ct = [p.ct EXCEPT ![c] = r]
  BY <1>1, <1>2, <1>4 DEF Removed, Knowledge, CtState
<1>7. /\ q.ct \in [Clients -> CtState] /\ q.ct[c] = r
      /\ \A d \in Clients : d # c => q.ct[d] = p.ct[d]
  BY <1>2, <1>5, <1>6
<1>12. q.callobj = [ch \in Channels |->
                      IF ch \in p.ct[c].calls THEN None ELSE p.callobj[ch]]
  BY <1>1 DEF Removed, Knowledge
<1>13. q.agi = [ch \in Channels |->
                  IF ch \in p.ct[c].calls THEN "closed" ELSE p.agi[ch]]
  BY <1>1 DEF Removed, Knowledge
<1>14. \A ch \in Channels : p.callobj[ch] = c <=> ch \in p.ct[c].calls
  BY DEF Fine, Good, Matches
<1>15. \A ch \in Channels :
         IF p.callobj[ch] = c THEN q.callobj[ch] = None /\ q.agi[ch] = "closed"
         ELSE q.callobj[ch] = p.callobj[ch] /\ q.agi[ch] = p.agi[ch]
  BY <1>12, <1>13, <1>14
<1>16. q.awaiting = p.awaiting
  BY <1>1, <1>3 DEF Knowledge
<1>11. q \in Knowledge
  <2>1. q.registrations \in SUBSET (Urls \X Clients)
    <3>1. q.registrations = p.registrations \ (Urls \X {c})
      BY <1>1 DEF Removed, Knowledge
    <3> QED
      BY <1>2, <3>1
  <2>2. q.callobj \in [Channels -> Clients \cup {None}]
    BY <1>2, <1>12
  <2>3. q.agi \in [Channels -> {"none", "dump", "parked", "attached", "closed"}]
    BY <1>2, <1>13
  <2> QED
    BY <1>1, <1>3, <1>7, <2>1, <2>2, <2>3 DEF Knowledge
<1>8. Matches(q)
  <2> SUFFICES ASSUME NEW ch \in Channels
               PROVE  /\ \A d \in Clients : q.callobj[ch] = d <=> ch \in q.ct[d].calls
                      /\ q.callobj[ch] # None <=> q.agi[ch] = "attached"
                      /\ q.callobj[ch] # None => q.ct[q.callobj[ch]].fh # "gone"
    BY DEF Matches
  <2>1. /\ \A d \in Clients : p.callobj[ch] = d <=> ch \in p.ct[d].calls
        /\ p.callobj[ch] # None <=> p.agi[ch] = "attached"
        /\ p.callobj[ch] # None => p.ct[p.callobj[ch]].fh # "gone"
    BY DEF Fine, Good, Matches
  <2>2. p.callobj[ch] \in Clients \cup {None}
    BY <1>2
  <2> QED
    BY <1>5, <1>7, <1>15, <2>1, <2>2
<1>9. Follows(q)
  <2>1. \A ch \in Channels : p.agi[ch] = "none" => q.agi[ch] = "none"
    <3> TAKE ch \in Channels
    <3>1. p.callobj[ch] = c => p.agi[ch] = "attached"
      BY DEF Fine, Good, Matches
    <3> QED
      BY <1>15, <3>1
  <2> QED
    BY <1>5, <1>7, <1>16, <2>1 DEF Fine, Follows
<1>10. Given(q)
  BY <1>15 DEF Fine, Given
<1> QED
  BY <1>8, <1>9, <1>10, <1>11 DEF Fine, Good

\* and so does a message that cannot be sent.
LEMMA SentFine ==
  ASSUME NEW p, Fine(p), NEW c \in Clients
  PROVE  Fine(Sent(p, c))
BY RemovedFine DEF Sent

\* A call is attached to a client that is there,
LEMMA AttachedGood ==
  ASSUME NEW p, Good(p), NEW c \in Clients, NEW ch \in Channels,
         p.callobj[ch] = None, p.ct[c].fh # "gone"
  PROVE  LET q == Attached(p, ch, c)
         IN  /\ Good(q) /\ q.callobj[ch] = c /\ q.agi[ch] = "attached"
             /\ \A x \in Channels : x # ch => /\ q.callobj[x] = p.callobj[x]
                                              /\ q.agi[x] = p.agi[x]
             /\ \A d \in Clients : /\ q.ct[d].toself = p.ct[d].toself
                                   /\ q.ct[d].fh = p.ct[d].fh
             /\ q.awaiting = p.awaiting /\ q.callmaking = p.callmaking
             /\ q.received = p.received
<1> DEFINE q == Attached(p, ch, c)
<1> USE RoutingAssumption
<1>1. p \in Knowledge
  BY DEF Good
<1>2. /\ q = [p EXCEPT !.ct = q.ct, !.callobj = q.callobj, !.agi = q.agi]
      /\ q.ct = [p.ct EXCEPT ![c] = [p.ct[c] EXCEPT !.calls = @ \cup {ch}]]
      /\ q.callobj = [p.callobj EXCEPT ![ch] = c]
      /\ q.agi = [p.agi EXCEPT ![ch] = "attached"]
  BY <1>1 DEF Attached, Knowledge, CtState
<1>3. q \in Knowledge
  <2>1. p.ct \in [Clients -> CtState]
    BY <1>1 DEF Knowledge
  <2>2. [p.ct[c] EXCEPT !.calls = @ \cup {ch}] \in CtState
    BY <2>1 DEF CtState
  <2>3. q.ct \in [Clients -> CtState]
    BY <1>2, <2>1, <2>2
  <2>4. q.callobj \in [Channels -> Clients \cup {None}]
    BY <1>1, <1>2 DEF Knowledge
  <2>5. q.agi \in [Channels -> {"none", "dump", "parked", "attached", "closed"}]
    BY <1>1, <1>2 DEF Knowledge
  <2> QED
    BY ZenonT(60), <1>1, <1>2, <2>3, <2>4, <2>5 DEF Knowledge
<1>4. /\ \A d \in Clients :
           /\ q.ct[d].toself = p.ct[d].toself /\ q.ct[d].fh = p.ct[d].fh
           /\ d # c => q.ct[d].calls = p.ct[d].calls
      /\ q.ct[c].calls = p.ct[c].calls \cup {ch}
  BY <1>1, <1>2 DEF Knowledge, CtState
<1>5. /\ q.callobj[ch] = c /\ q.agi[ch] = "attached"
      /\ \A x \in Channels : x # ch => /\ q.callobj[x] = p.callobj[x]
                                       /\ q.agi[x] = p.agi[x]
  BY <1>1, <1>2 DEF Knowledge
<1>6. /\ q.awaiting = p.awaiting /\ q.callmaking = p.callmaking
      /\ q.received = p.received
  BY <1>1, <1>2 DEF Knowledge
<1>7. Matches(q)
  <2> SUFFICES ASSUME NEW x \in Channels
               PROVE  /\ \A d \in Clients : q.callobj[x] = d <=> x \in q.ct[d].calls
                      /\ q.callobj[x] # None <=> q.agi[x] = "attached"
                      /\ q.callobj[x] # None => q.ct[q.callobj[x]].fh # "gone"
    BY DEF Matches
  <2>1. /\ \A d \in Clients : p.callobj[x] = d <=> x \in p.ct[d].calls
        /\ p.callobj[x] # None <=> p.agi[x] = "attached"
        /\ p.callobj[x] # None => p.ct[p.callobj[x]].fh # "gone"
    BY DEF Good, Matches
  <2>2. p.callobj[x] \in Clients \cup {None}
    BY <1>1 DEF Knowledge
  <2>3. CASE x = ch
    BY <1>4, <1>5, <2>1, <2>3
  <2>4. CASE x # ch
    BY <1>4, <1>5, <2>1, <2>2, <2>4
  <2> QED
    BY <2>3, <2>4
<1> QED
  BY <1>3, <1>4, <1>5, <1>6, <1>7 DEF Good

\* which may take it.
LEMMA AttachedFine ==
  ASSUME NEW p, Fine(p), NEW c \in Clients, NEW ch \in Channels,
         p.callobj[ch] = None, p.ct[c].fh # "gone", pg.agi[ch] # "none",
         MayTake(ch, c)
  PROVE  Fine(Attached(p, ch, c))
<1> DEFINE q == Attached(p, ch, c)
<1>1. /\ Good(q) /\ q.callobj[ch] = c /\ q.agi[ch] = "attached"
      /\ \A x \in Channels : x # ch => /\ q.callobj[x] = p.callobj[x]
                                       /\ q.agi[x] = p.agi[x]
      /\ \A d \in Clients : q.ct[d].toself = p.ct[d].toself
      /\ q.awaiting = p.awaiting
  BY AttachedGood DEF Fine
<1> HIDE DEF q
<1>2. Follows(q)
  BY <1>1 DEF Fine, Follows
<1>3. Given(q)
  BY <1>1 DEF Fine, Given
<1> QED
  BY <1>1, <1>2, <1>3 DEF Fine, q

\* What a client registers, or that it names a toself, concerns no call.
LEMMA OtherFine ==
  ASSUME NEW p, Fine(p), NEW q \in Knowledge,
         q.callobj = p.callobj, q.agi = p.agi,
         \A c \in Clients : /\ q.ct[c].calls = p.ct[c].calls
                            /\ q.ct[c].fh = "gone" => p.ct[c].fh = "gone"
                            /\ p.ct[c].toself => q.ct[c].toself,
         \A ch \in Channels :
           q.awaiting[ch] \in {p.awaiting[ch], None, caller[ch].leg}
  PROVE  Fine(q)
<1>1. p \in Knowledge /\ p.callobj \in [Channels -> Clients \cup {None}]
  BY DEF Fine, Good, Knowledge
<1>2. Matches(q)
  BY <1>1, RoutingAssumption DEF Fine, Good, Matches
<1>3. Follows(q)
  BY DEF Fine, Follows
<1>4. Given(q)
  BY DEF Fine, Given
<1> QED
  BY <1>2, <1>3, <1>4 DEF Fine, Good

\* A connection without a call that is parked or closed.
LEMMA AgiFine ==
  ASSUME NEW p, Fine(p), NEW ch \in Channels, NEW to \in {"parked", "closed"},
         p.agi[ch] # "attached", pg.agi[ch] # "none"
  PROVE  Fine([p EXCEPT !.agi[ch] = to])
<1> DEFINE q == [p EXCEPT !.agi[ch] = to]
<1>1. p \in Knowledge
  BY DEF Fine, Good
<1>2. /\ q.agi = [p.agi EXCEPT ![ch] = to] /\ q.ct = p.ct
      /\ q.callobj = p.callobj /\ q.awaiting = p.awaiting
      /\ q = [p EXCEPT !.agi = q.agi]
  BY <1>1 DEF Knowledge
<1>3. p.agi \in [Channels -> {"none", "dump", "parked", "attached", "closed"}]
  BY <1>1 DEF Knowledge
<1>4. /\ q.agi \in [Channels -> {"none", "dump", "parked", "attached", "closed"}]
      /\ q.agi[ch] = to
      /\ \A x \in Channels : x # ch => q.agi[x] = p.agi[x]
  BY <1>2, <1>3
<1>5. q \in Knowledge
  BY <1>1, <1>2, <1>4 DEF Knowledge
<1>6. Matches(q)
  BY <1>2, <1>4 DEF Fine, Good, Matches
<1>7. Follows(q)
  BY <1>2, <1>4 DEF Fine, Follows
<1>8. Given(q)
  BY <1>2 DEF Fine, Given
<1> QED
  BY <1>5, <1>6, <1>7, <1>8 DEF Fine, Good

\* Parts of what phoneglue knows, by their types.
LEMMA KnowledgeIs ==
  ASSUME NEW p \in Knowledge
  PROVE  /\ p.ct \in [Clients -> CtState]
         /\ p.registrations \subseteq Urls \X Clients
         /\ p.callobj \in [Channels -> Clients \cup {None}]
         /\ p.agi \in [Channels -> {"none", "dump", "parked", "attached", "closed"}]
         /\ p.received \subseteq Channels /\ p.callmaking \subseteq Makes
         /\ p.awaiting \in [Channels -> Makes \cup {None}]
BY DEF Knowledge

-----------------------------------------------------------------------------
(* Messages.                                                                *)

LEMMA PlainMessages ==
  ASSUME NEW type \in (Requests \cup Told) \ {"INCOMING"}
  PROVE  Message(type) \in ToClients
BY DEF Message, ToClients, Messages, Requests, Told

LEMMA CallMessages ==
  ASSUME NEW type \in Requests \cup Told, NEW ch \in Channels
  PROVE  AboutCall(type, ch) \in ToClients
BY DEF AboutCall, Message, ToClients, Messages

LEMMA MadeMessages ==
  ASSUME NEW mk \in Makes, NEW ch \in Channels \cup {None}
  PROVE  MadeCall(mk, ch) \in ToClients
BY DEF MadeCall, Message, ToClients, Messages, Told

\* What clients make of them.
LEMMA HeardTyped ==
  ASSUME ClientWires, NEW p, NEW c \in Clients, NEW m \in ToClients, Heard(p, c, m)
  PROVE  ClientWires'
<1>1. fromServer \in Seq(ToClients) /\ client \in [Others -> ClientState]
  BY DEF ClientWires
<1>2. CASE UNCHANGED toClients
  BY <1>1, <1>2 DEF ClientWires, toClients
<1>3. CASE fromServer' = Append(fromServer, m) /\ UNCHANGED client
  BY <1>1, <1>3 DEF ClientWires
<1>4. CASE c # Vglue /\ client' = [client EXCEPT ![c] = Reads(@, m)]
           /\ UNCHANGED fromServer
  <2>1. c \in Others /\ client[c] \in ClientState
    BY <1>1, <1>4 DEF Others
  <2>2. m.call \in Channels \cup {None} /\ (m.type = "INCOMING" => m.call \in Channels)
    BY DEF ToClients, Messages
  <2>3. Reads(client[c], m) \in ClientState
    <3>1. CASE m.type = "INCOMING"
      BY <2>1, <2>2, <3>1 DEF Reads, ClientState
    <3>2. CASE m.type = "MADECALL"
      BY <2>1, <2>2, <3>2 DEF Reads, ClientState
    <3>3. CASE m.type \in {"HUNGUP", "RELEASED", "RELEASE"}
      BY <2>1, <2>2, <3>3 DEF Reads, ClientState
    <3>4. CASE m.type \notin {"INCOMING", "MADECALL", "HUNGUP", "RELEASED", "RELEASE"}
      BY <2>1, <2>2, <3>4 DEF Reads, ClientState
    <3> QED
      BY <3>1, <3>2, <3>3, <3>4
  <2> QED
    BY <1>1, <1>4, <2>1, <2>3 DEF ClientWires
<1> QED
  BY <1>2, <1>3, <1>4 DEF Heard

LEMMA SayFine ==
  ASSUME ClientWires, NEW p, Fine(p), NEW c \in Clients, NEW m \in ToClients,
         Say(p, c, m)
  PROVE  Fine(pg') /\ ClientWires'
BY HeardTyped, SentFine DEF Say

-----------------------------------------------------------------------------
(* The calls of clients.                                                    *)

LEMMA MakeCallFailedFine ==
  ASSUME ClientWires, NEW p, Fine(p), NEW mk \in Makes, MakeCallFailed(p, mk)
  PROVE  Fine(pg') /\ ClientWires'
<1>1. mk.client \in Clients
  BY DEF Makes, Others
<1>2. CASE p.ct[mk.client].fh = "gone"
  BY <1>2 DEF MakeCallFailed, ClientWires, toClients
<1>3. CASE p.ct[mk.client].fh # "gone"
  BY <1>1, <1>3, MadeMessages, SayFine DEF MakeCallFailed
<1> QED
  BY <1>2, <1>3

LEMMA OutgoingCallFine ==
  ASSUME ClientWires, NEW p, Fine(p), NEW ch \in Channels, NEW mk \in Makes,
         p.agi[ch] # "attached", pg.agi[ch] # "none", caller[ch].leg = mk,
         OutgoingCall(p, ch, mk)
  PROVE  Fine(pg') /\ ClientWires'
<1>1. mk.client \in Clients
  BY DEF Makes, Others
<1>2. CASE p.ct[mk.client].fh = "gone"
  BY <1>2, AgiFine DEF OutgoingCall, ClientWires, toClients
<1>3. CASE p.ct[mk.client].fh # "gone"
  <2>1. p.callobj[ch] = None
    BY DEF Fine, Good, Matches
  <2>2. Fine(Attached(p, ch, mk.client))
    BY <1>1, <1>3, <2>1, AttachedFine DEF MayTake
  <2> QED
    BY <1>1, <1>3, <2>2, MadeMessages, SayFine DEF OutgoingCall
<1> QED
  BY <1>2, <1>3

LEMMA IncomingCallFine ==
  ASSUME ClientWires, Good(pg), NEW p, Fine(p), NEW ch \in Channels,
         p.agi[ch] # "attached", pg.agi[ch] # "none",
         \A c \in Clients : p.ct[c].fh # "gone" => MayTake(ch, c),
         IncomingCall(p, ch)
  PROVE  Fine(pg') /\ ClientWires'
<1>1. CASE pg' = [p EXCEPT !.agi[ch] = "closed"] /\ UNCHANGED toClients
  BY <1>1, AgiFine DEF ClientWires, toClients
<1>2. ASSUME NEW c \in Clients, p.ct[c].fh # "gone",
             Say(Attached(p, ch, c), c, AboutCall("INCOMING", ch))
      PROVE  Fine(pg') /\ ClientWires'
  <2>1. p.callobj[ch] = None
    BY DEF Fine, Good, Matches
  <2>2. Fine(Attached(p, ch, c))
    BY <1>2, <2>1, AttachedFine
  <2> QED
    BY <1>2, <2>2, CallMessages, SayFine DEF Told
<1>3. Matching(caller[ch].dnis) \subseteq Clients
  BY DEF Matching
<1>4. CASE UNCHANGED <<pg, toClients>>
  <2>1. Fine(pg)
    BY SameIsFine
  <2> QED
    BY <1>4, <2>1 DEF ClientWires, toClients
<1> QED
  BY <1>1, <1>2, <1>3, <1>4 DEF IncomingCall

\* A call object without its client and its connection.
Over(ch) ==
  [pg EXCEPT !.callobj[ch] = None, !.agi[ch] = "closed",
             !.ct[pg.callobj[ch]].calls = @ \ {ch}]

LEMMA FinishedFine ==
  ASSUME Good(pg), NEW ch \in Channels, pg.callobj[ch] # None
  PROVE  /\ pg.callobj[ch] \in Clients /\ pg.agi[ch] = "attached"
         /\ Fine(Over(ch))
         /\ Over(ch).callobj[ch] = None /\ Over(ch).agi[ch] = "closed"
         /\ \A x \in Channels : x # ch =>
              /\ Over(ch).callobj[x] = pg.callobj[x]
              /\ Over(ch).agi[x] = pg.agi[x]
         /\ \A d \in Clients : Over(ch).ct[d].fh = pg.ct[d].fh
<1> DEFINE c == pg.callobj[ch]
           q == [pg EXCEPT !.callobj[ch] = None, !.agi[ch] = "closed",
                           !.ct[c].calls = @ \ {ch}]
<1> USE RoutingAssumption
<1>1. pg \in Knowledge
  BY DEF Good
<1>2. c \in Clients /\ pg.agi[ch] = "attached"
  BY <1>1, KnowledgeIs DEF Good, Matches
<1>3. PICK r : r = [pg.ct[c] EXCEPT !.calls = @ \ {ch}]
  OBVIOUS
<1>4. /\ r \in CtState /\ r.calls = pg.ct[c].calls \ {ch}
      /\ r.fh = pg.ct[c].fh /\ r.toself = pg.ct[c].toself
  <2>1. pg.ct[c] \in CtState
    BY <1>1, <1>2, KnowledgeIs
  <2> QED
    BY <2>1, <1>3 DEF CtState
<1>5. /\ q.ct = [pg.ct EXCEPT ![c] = r]
      /\ q.callobj = [pg.callobj EXCEPT ![ch] = None]
      /\ q.agi = [pg.agi EXCEPT ![ch] = "closed"]
      /\ q.awaiting = pg.awaiting
  BY <1>1, <1>2, <1>3, KnowledgeIs DEF Knowledge, CtState
<1>6. q = [pg EXCEPT !.ct = q.ct, !.callobj = q.callobj, !.agi = q.agi]
  BY <1>1 DEF Knowledge
<1>7. /\ q.ct \in [Clients -> CtState] /\ q.ct[c] = r
      /\ \A d \in Clients : d # c => q.ct[d] = pg.ct[d]
  <2>1. pg.ct \in [Clients -> CtState]
    BY <1>1, KnowledgeIs
  <2>2. r \in CtState /\ q.ct = [pg.ct EXCEPT ![c] = r]
    BY <1>4, <1>5
  <2> HIDE DEF q
  <2> QED
    BY <1>2, <2>1, <2>2
<1>8. /\ q.callobj \in [Channels -> Clients \cup {None}]
      /\ q.agi \in [Channels -> {"none", "dump", "parked", "attached", "closed"}]
      /\ q.callobj[ch] = None /\ q.agi[ch] = "closed"
      /\ \A x \in Channels : x # ch => /\ q.callobj[x] = pg.callobj[x]
                                       /\ q.agi[x] = pg.agi[x]
  BY <1>1, <1>5, KnowledgeIs
<1>9. q \in Knowledge
  BY <1>1, <1>6, <1>7, <1>8 DEF Knowledge
<1>10. Matches(q)
  <2> SUFFICES ASSUME NEW x \in Channels
               PROVE  /\ \A d \in Clients : q.callobj[x] = d <=> x \in q.ct[d].calls
                      /\ q.callobj[x] # None <=> q.agi[x] = "attached"
                      /\ q.callobj[x] # None => q.ct[q.callobj[x]].fh # "gone"
    BY DEF Matches
  <2>1. /\ \A d \in Clients : pg.callobj[x] = d <=> x \in pg.ct[d].calls
        /\ pg.callobj[x] # None <=> pg.agi[x] = "attached"
        /\ pg.callobj[x] # None => pg.ct[pg.callobj[x]].fh # "gone"
    BY DEF Good, Matches
  <2>2. pg.callobj[x] \in Clients \cup {None}
    BY <1>1, KnowledgeIs
  <2>3. CASE x = ch
    BY <1>2, <1>4, <1>7, <1>8, <2>1, <2>3
  <2>4. CASE x # ch
    <3>1. q.callobj[x] = pg.callobj[x] /\ q.agi[x] = pg.agi[x]
      BY <1>8, <2>4
    <3>2. \A d \in Clients : q.ct[d].fh = pg.ct[d].fh
      BY <1>4, <1>7
    <3>3. \A d \in Clients : x \in q.ct[d].calls <=> x \in pg.ct[d].calls
      <4>1. x \in q.ct[c].calls <=> x \in pg.ct[c].calls
        BY <1>4, <1>7, <2>4
      <4>2. \A d \in Clients : d # c => q.ct[d].calls = pg.ct[d].calls
        BY <1>7
      <4> HIDE DEF c, q
      <4> QED
        BY <4>1, <4>2
    <3> HIDE DEF c, q
    <3> QED
      BY <2>1, <2>2, <3>1, <3>2, <3>3
  <2> QED
    BY <2>3, <2>4
<1>11. Follows(q)
  BY <1>2, <1>4, <1>5, <1>7, <1>8 DEF Follows
<1>12. Given(q)
  BY <1>8 DEF Given
<1>13. Fine(q)
  BY <1>9, <1>10, <1>11, <1>12 DEF Fine, Good
<1> QED
  BY <1>2, <1>4, <1>7, <1>8, <1>13 DEF Over

LEMMA AgiFinishedFine ==
  ASSUME ClientWires, Good(pg), NEW ch \in Channels, pg.callobj[ch] # None,
         NEW type \in {"RELEASED", "HUNGUP"}, AgiFinished(ch, type)
  PROVE  Fine(pg') /\ ClientWires'
<1> DEFINE c == pg.callobj[ch]
           q == Over(ch)
<1>1. Say(q, c, AboutCall(type, ch))
  BY DEF AgiFinished, Over
<1>2. c \in Clients /\ Fine(q)
  BY FinishedFine
<1> HIDE DEF c, q
<1> QED
  BY <1>1, <1>2, CallMessages, SayFine DEF Told

-----------------------------------------------------------------------------
(* Requests.                                                                *)

\* A request of the config class changes the client object and registrations.
LEMMA ClientObjectFine ==
  ASSUME NEW p, Fine(p), NEW c \in Clients, NEW q, NEW r \in CtState,
         q = [p EXCEPT !.ct = [p.ct EXCEPT ![c] = r],
                       !.registrations = q.registrations],
         q.registrations \subseteq Urls \X Clients,
         r.calls = p.ct[c].calls, r.fh = "gone" => p.ct[c].fh = "gone",
         p.ct[c].toself => r.toself
  PROVE  Fine(q)
<1>1. p \in Knowledge
  BY DEF Fine, Good
<1>2. /\ q.ct = [p.ct EXCEPT ![c] = r] /\ q.callobj = p.callobj
      /\ q.agi = p.agi /\ q.awaiting = p.awaiting
  BY <1>1 DEF Knowledge
<1>3. /\ q.ct \in [Clients -> CtState] /\ q.ct[c] = r
      /\ \A d \in Clients : d # c => q.ct[d] = p.ct[d]
  BY <1>1, <1>2, KnowledgeIs
<1>4. q \in Knowledge
  BY ZenonT(60), <1>1, <1>2, <1>3 DEF Knowledge
<1>5. \A ch \in Channels :
        q.awaiting[ch] \in {p.awaiting[ch], None, caller[ch].leg}
  BY <1>2
<1> QED
  BY <1>2, <1>3, <1>4, <1>5, OtherFine

LEMMA StartFine ==
  ASSUME ClientWires, Good(pg), NEW c \in Clients, NEW toself \in BOOLEAN,
         Start(c, toself)
  PROVE  Fine(pg') /\ ClientWires'
<1> DEFINE r == [pg.ct[c] EXCEPT !.toself = @ \/ toself]
           q == [pg EXCEPT !.ct[c].toself = @ \/ toself]
<1>1. pg \in Knowledge /\ pg.ct[c] \in CtState
  BY KnowledgeIs DEF Good
<1>2. /\ r.calls = pg.ct[c].calls /\ r.fh = pg.ct[c].fh
      /\ r.toself = (pg.ct[c].toself \/ toself)
  BY <1>1 DEF CtState
<1>3. r \in CtState
  <2>1. (pg.ct[c].toself \/ toself) \in BOOLEAN
    OBVIOUS
  <2> QED
    BY <1>1, <2>1 DEF CtState
<1>4. /\ q = [pg EXCEPT !.ct = [pg.ct EXCEPT ![c] = r],
                        !.registrations = q.registrations]
      /\ q.registrations = pg.registrations
  BY <1>1 DEF Knowledge
<1>5. Fine(q)
  <2>1. pg.registrations \subseteq Urls \X Clients
    BY <1>1, KnowledgeIs
  <2> HIDE DEF q, r
  <2> QED
    BY <1>2, <1>3, <1>4, <2>1, SameIsFine, ClientObjectFine
<1>6. Say(q, c, Message("STARTED"))
  BY DEF Start
<1> QED
  BY <1>5, <1>6, PlainMessages, SayFine DEF Told

LEMMA StopFine ==
  ASSUME ClientWires, Good(pg), NEW c \in Clients, Stop(c)
  PROVE  Fine(pg') /\ ClientWires'
<1> DEFINE p == Sent(pg, c)
           r == [p.ct[c] EXCEPT !.fh = "closed"]
           q == [p EXCEPT !.ct[c].fh = "closed"]
<1>1. Fine(p)
  BY SameIsFine, SentFine
<1>2. p \in Knowledge /\ p.ct[c] \in CtState
  BY <1>1, KnowledgeIs DEF Fine, Good
<1>3. pg' = p \/ pg' = q
  BY DEF Stop
<1>4. Fine(q)
  <2> HIDE DEF p
  <2>1. /\ r \in CtState /\ r.calls = p.ct[c].calls /\ r.fh = "closed"
        /\ r.toself = p.ct[c].toself
    BY <1>2 DEF CtState
  <2>2. /\ q = [p EXCEPT !.ct = [p.ct EXCEPT ![c] = r],
                         !.registrations = q.registrations]
        /\ q.registrations = p.registrations
    BY <1>2 DEF Knowledge
  <2>3. p.registrations \subseteq Urls \X Clients
    BY <1>2, KnowledgeIs
  <2> HIDE DEF q, r
  <2> QED
    BY <1>1, <2>1, <2>2, <2>3, ClientObjectFine
<1>5. Heard(pg, c, Message("STOPPED"))
  BY DEF Stop
<1> HIDE DEF p, q
<1> QED
  BY <1>1, <1>3, <1>4, <1>5, PlainMessages, HeardTyped DEF Told

\* REG, UNREG, ALLOWIN and STOPIN.
LEMMA RegisterFine ==
  ASSUME ClientWires, Good(pg), NEW c \in Clients,
         NEW regs, regs \subseteq Urls \X Clients,
         NEW urls \in SUBSET Urls, NEW allowin \in BOOLEAN,
         NEW type \in {"REGED", "UNREGED", "ALLOWEDIN", "STOPPEDIN"},
         NEW q, q = [pg EXCEPT !.ct = [pg.ct EXCEPT ![c] =
                                  [pg.ct[c] EXCEPT !.allowin = allowin,
                                                   !.register = urls]],
                               !.registrations = regs],
         Say(q, c, Message(type))
  PROVE  Fine(pg') /\ ClientWires'
<1> DEFINE r == [pg.ct[c] EXCEPT !.allowin = allowin, !.register = urls]
<1>1. pg \in Knowledge /\ pg.ct[c] \in CtState
  BY KnowledgeIs DEF Good
<1>2. /\ r \in CtState /\ r.calls = pg.ct[c].calls /\ r.fh = pg.ct[c].fh
      /\ r.toself = pg.ct[c].toself
  BY <1>1 DEF CtState
<1>3. q.registrations = regs
  BY <1>1 DEF Knowledge
<1>4. q = [pg EXCEPT !.ct = [pg.ct EXCEPT ![c] = r],
                     !.registrations = q.registrations]
  BY <1>3
<1>5. Fine(q)
  <2>1. Fine(pg) /\ q.registrations \subseteq Urls \X Clients
    BY <1>3, SameIsFine
  <2>2. c \in Clients /\ r \in CtState
    BY <1>2
  <2>3. r.toself <=> pg.ct[c].toself
    BY <1>2
  <2>4. r.calls = pg.ct[c].calls /\ r.fh = pg.ct[c].fh
    BY <1>2
  <2> HIDE DEF r
  <2> QED
    BY ONLY <1>4, <2>1, <2>2, <2>3, <2>4, ClientObjectFine
<1> QED
  BY <1>5, PlainMessages, SayFine DEF Told, Requests

LEMMA RegistrationsFine ==
  ASSUME ClientWires, Good(pg), NEW c \in Clients,
         \/ \E url \in Urls : Reg(c, url) \/ Unreg(c, url)
         \/ AllowIn(c) \/ StopIn(c)
  PROVE  Fine(pg') /\ ClientWires'
<1> DEFINE regs == pg.registrations
           urls == pg.ct[c].register
           q(rs, us, a) ==
             [pg EXCEPT !.ct = [pg.ct EXCEPT ![c] =
                                  [pg.ct[c] EXCEPT !.allowin = a, !.register = us]],
                        !.registrations = rs]
<1>1. pg \in Knowledge /\ pg.ct[c] \in CtState
  BY KnowledgeIs DEF Good
<1>2. regs \subseteq Urls \X Clients /\ urls \subseteq Urls
      /\ pg.ct[c].allowin \in BOOLEAN
  BY <1>1, KnowledgeIs DEF CtState
<1>3. ASSUME NEW rs, rs \subseteq Urls \X Clients, NEW us \in SUBSET Urls,
             NEW a \in BOOLEAN,
             NEW type \in {"REGED", "UNREGED", "ALLOWEDIN", "STOPPEDIN"},
             Say(q(rs, us, a), c, Message(type))
      PROVE  Fine(pg') /\ ClientWires'
  <2> DEFINE new == q(rs, us, a)
  <2>1. new = [pg EXCEPT !.ct = [pg.ct EXCEPT ![c] =
                                  [pg.ct[c] EXCEPT !.allowin = a,
                                                   !.register = us]],
                         !.registrations = rs]
    OBVIOUS
  <2>2. Say(new, c, Message(type))
    BY <1>3
  <2> HIDE DEF new
  <2> QED
    BY <1>3, <2>1, <2>2, RegisterFine
<1>4. ASSUME NEW url \in Urls, Reg(c, url)
      PROVE  Fine(pg') /\ ClientWires'
  <2>1. CASE pg.ct[c].allowin
    <3>1. [pg EXCEPT !.registrations = @ \cup {<<url, c>>}]
          = q(regs \cup {<<url, c>>}, urls, pg.ct[c].allowin)
      <4>1. [pg.ct[c] EXCEPT !.allowin = pg.ct[c].allowin, !.register = urls]
            = pg.ct[c]
        BY <1>1 DEF CtState
      <4>2. [pg.ct EXCEPT ![c] = pg.ct[c]] = pg.ct
        BY <1>1, KnowledgeIs
      <4> QED
        BY <1>1, <4>1, <4>2 DEF Knowledge
    <3>2. Say(q(regs \cup {<<url, c>>}, urls, pg.ct[c].allowin), c, Message("REGED"))
      BY <1>4, <2>1, <3>1 DEF Reg
    <3> HIDE DEF q
    <3> QED
      BY <1>2, <1>3, <3>2
  <2>2. CASE ~pg.ct[c].allowin
    <3>1. [pg EXCEPT !.ct[c].register = @ \cup {url}]
          = q(regs, urls \cup {url}, pg.ct[c].allowin)
      <4>1. [pg.ct[c] EXCEPT !.register = urls \cup {url}]
            = [pg.ct[c] EXCEPT !.allowin = pg.ct[c].allowin,
                               !.register = urls \cup {url}]
        BY <1>1 DEF CtState
      <4> QED
        BY <1>1, <4>1 DEF Knowledge
    <3>2. Say(q(regs, urls \cup {url}, pg.ct[c].allowin), c, Message("REGED"))
      BY <1>4, <2>2, <3>1 DEF Reg
    <3> HIDE DEF q
    <3> QED
      BY <1>2, <1>3, <3>2
  <2> QED
    BY <2>1, <2>2
<1>5. ASSUME NEW url \in Urls, Unreg(c, url)
      PROVE  Fine(pg') /\ ClientWires'
  <2>1. CASE pg.ct[c].allowin
    <3>1. [pg EXCEPT !.registrations = @ \ {<<url, c>>}]
          = q(regs \ {<<url, c>>}, urls, pg.ct[c].allowin)
      <4>1. [pg.ct[c] EXCEPT !.allowin = pg.ct[c].allowin, !.register = urls]
            = pg.ct[c]
        BY <1>1 DEF CtState
      <4>2. [pg.ct EXCEPT ![c] = pg.ct[c]] = pg.ct
        BY <1>1, KnowledgeIs
      <4> QED
        BY <1>1, <4>1, <4>2 DEF Knowledge
    <3>2. Say(q(regs \ {<<url, c>>}, urls, pg.ct[c].allowin), c, Message("UNREGED"))
      BY <1>5, <2>1, <3>1 DEF Unreg
    <3> HIDE DEF q
    <3> QED
      BY <1>2, <1>3, <3>2
  <2>2. CASE ~pg.ct[c].allowin
    <3>1. [pg EXCEPT !.ct[c].register = @ \ {url}]
          = q(regs, urls \ {url}, pg.ct[c].allowin)
      <4>1. [pg.ct[c] EXCEPT !.register = urls \ {url}]
            = [pg.ct[c] EXCEPT !.allowin = pg.ct[c].allowin,
                               !.register = urls \ {url}]
        BY <1>1 DEF CtState
      <4> QED
        BY <1>1, <4>1 DEF Knowledge
    <3>2. Say(q(regs, urls \ {url}, pg.ct[c].allowin), c, Message("UNREGED"))
      BY <1>5, <2>2, <3>1 DEF Unreg
    <3> HIDE DEF q
    <3> QED
      BY <1>2, <1>3, <3>2
  <2> QED
    BY <2>1, <2>2
<1>6. CASE AllowIn(c)
  <2>1. [pg EXCEPT !.ct[c].allowin = TRUE,
                   !.registrations = @ \cup (pg.ct[c].register \X {c})]
        = q(regs \cup (urls \X {c}), urls, TRUE)
    BY <1>1 DEF Knowledge, CtState
  <2>2. Say(q(regs \cup (urls \X {c}), urls, TRUE), c, Message("ALLOWEDIN"))
    BY <1>6, <2>1 DEF AllowIn
  <2> HIDE DEF q
  <2> QED
    BY <1>2, <1>3, <2>2
<1>7. CASE StopIn(c)
  <2>1. [pg EXCEPT !.ct[c].allowin = TRUE,
                   !.registrations = @ \ (pg.ct[c].register \X {c})]
        = q(regs \ (urls \X {c}), urls, TRUE)
    BY <1>1 DEF Knowledge, CtState
  <2>2. Say(q(regs \ (urls \X {c}), urls, TRUE), c, Message("STOPPEDIN"))
    BY <1>7, <2>1 DEF StopIn
  <2> HIDE DEF q
  <2> QED
    BY <1>2, <1>3, <2>2
<1> QED
  BY <1>4, <1>5, <1>6, <1>7

\* What a step of phoneglue does to the calls in Asterisk: it may ask for one to
\* be hung up or made.
SameCalls ==
  /\ caller' \in [Channels -> CallState]
  /\ \A ch \in Channels : /\ caller'[ch].line = caller[ch].line
                          /\ caller'[ch].self = caller[ch].self
                          /\ caller'[ch].leg = caller[ch].leg
MadeKnown == /\ originating' \subseteq Makes
             /\ \A mk \in originating' : pg'.ct[mk.client].toself
ServerDoes == Fine(pg') /\ ClientWires' /\ SameCalls /\ MadeKnown

LEMMA QuietCalls ==
  ASSUME IInv, Fine(pg'), ClientWires', UNCHANGED astVars
  PROVE  ServerDoes
<1>1. caller' = caller /\ originating' = originating
  BY DEF astVars
<1>2. SameCalls
  BY <1>1 DEF SameCalls, IInv, AsteriskTyped
<1>3. ASSUME NEW mk \in originating'  PROVE pg'.ct[mk.client].toself
  <2>1. mk \in Makes /\ mk.client \in Clients
    BY <1>1, <1>3 DEF IInv, AsteriskTyped, Makes, Others
  <2>2. pg.ct[mk.client].toself
    BY <1>1, <1>3 DEF IInv, LegsKnown
  <2>3. Follows(pg')
    BY DEF Fine
  <2> QED
    BY <2>1, <2>2, <2>3 DEF Follows
<1> QED
  BY <1>1, <1>2, <1>3 DEF ServerDoes, MadeKnown, IInv, AsteriskTyped

LEMMA HangupDoes ==
  ASSUME IInv, NEW c \in Clients, NEW ch \in Channels, Hangup(c, ch)
  PROVE  ServerDoes
<1>1. CASE Say(pg, c, AboutCall("HUNGUP", ch)) /\ UNCHANGED caller
  BY <1>1, SameIsFine, CallMessages, SayFine, QuietCalls
     DEF Hangup, IInv, Told, astVars
<1>2. CASE caller' = [caller EXCEPT ![ch].bye = TRUE] /\ UNCHANGED <<pg, toClients>>
  <2>1. caller \in [Channels -> CallState]
    BY DEF IInv, AsteriskTyped
  <2>2. SameCalls
    <3>1. [caller[ch] EXCEPT !.bye = TRUE] \in CallState
      BY <2>1 DEF CallState
    <3>2. caller' = [caller EXCEPT ![ch] = [caller[ch] EXCEPT !.bye = TRUE]]
      BY <1>2
    <3>3. caller' \in [Channels -> CallState]
      BY <2>1, <3>1, <3>2
    <3>4. ASSUME NEW x \in Channels
          PROVE  /\ caller'[x].line = caller[x].line
                 /\ caller'[x].self = caller[x].self
                 /\ caller'[x].leg = caller[x].leg
      BY <2>1, <3>2 DEF CallState
    <3> QED
      BY <3>3, <3>4 DEF SameCalls
  <2>3. Fine(pg') /\ ClientWires'
    <3>1. Fine(pg)
      BY SameIsFine DEF IInv
    <3> QED
      BY <1>2, <3>1 DEF IInv, ClientWires, toClients
  <2>4. MadeKnown
    BY <1>2 DEF Hangup, MadeKnown, IInv, AsteriskTyped, LegsKnown
  <2> QED
    BY <2>2, <2>3, <2>4 DEF ServerDoes
<1> QED
  BY <1>1, <1>2 DEF Hangup

LEMMA ReleaseDoes ==
  ASSUME IInv, NEW c \in Clients, NEW ch \in Channels, Release(c, ch)
  PROVE  ServerDoes
<1>1. UNCHANGED astVars /\ ClientWires /\ Good(pg)
  BY DEF Release, astVars, IInv
<1>2. CASE pg.callobj[ch] = None
  BY <1>1, <1>2, SameIsFine, CallMessages, SayFine, QuietCalls DEF Release, Requests
<1>3. CASE pg.callobj[ch] # None
  BY <1>1, <1>3, AgiFinishedFine, QuietCalls DEF Release
<1> QED
  BY <1>2, <1>3

LEMMA MakeCallDoes ==
  ASSUME IInv, NEW c \in Clients, NEW mk \in Makes, mk.client = c, MakeCall(c, mk)
  PROVE  ServerDoes
<1>1. ClientWires /\ Good(pg) /\ Fine(pg)
  BY SameIsFine DEF IInv
<1>2. CASE ~pg.ct[c].toself
  BY <1>1, <1>2, MadeMessages, SayFine, QuietCalls DEF MakeCall, astVars
<1>3. CASE pg.ct[c].toself
  <2>1. /\ pg' = [pg EXCEPT !.callmaking = @ \cup {mk}]
        /\ originating' = originating \cup {mk} /\ UNCHANGED <<caller, toClients>>
    BY <1>3 DEF MakeCall
  <2>2. pg \in Knowledge
    BY <1>1 DEF Good
  <2>3. /\ pg'.ct = pg.ct /\ pg'.callobj = pg.callobj /\ pg'.agi = pg.agi
        /\ pg'.awaiting = pg.awaiting /\ pg' \in Knowledge
    BY <2>1, <2>2 DEF Knowledge
  <2>4. Fine(pg')
    <3> DEFINE q == pg'
    <3>1. /\ q.ct = pg.ct /\ q.callobj = pg.callobj /\ q.agi = pg.agi
          /\ q.awaiting = pg.awaiting /\ q \in Knowledge
      BY <2>3
    <3> HIDE DEF q
    <3>2. Fine(q)
      BY <1>1, <3>1, OtherFine
    <3> QED
      BY <3>2 DEF q
  <2>5. MadeKnown
    BY <1>3, <2>1, <2>3 DEF MadeKnown, IInv, AsteriskTyped, LegsKnown
  <2>6. SameCalls /\ ClientWires'
    BY <1>1, <2>1 DEF SameCalls, ClientWires, toClients, IInv, AsteriskTyped
  <2> QED
    BY <2>4, <2>5, <2>6 DEF ServerDoes
<1> QED
  BY <1>2, <1>3

LEMMA HandleMsgDoes ==
  ASSUME IInv, NEW c \in Clients, NEW m \in FromClient(c), HandleMsg(c, m)
  PROVE  ServerDoes
<1>1. ClientWires /\ Good(pg)
  BY DEF IInv
<1>2. /\ m.toself \in BOOLEAN
      /\ m.type \in {"RELEASE", "HANGUP"} => m.call \in Channels
      /\ m.type \in {"REG", "UNREG"} => m.url \in Urls
      /\ m.type = "MAKECALL" => m.make \in Makes /\ m.make.client = c
  BY DEF FromClient, Messages
<1>3. CASE m.type = "START" /\ Start(c, m.toself)
  BY <1>1, <1>2, <1>3, StartFine, QuietCalls DEF Start, astVars
<1>4. CASE m.type = "STOP" /\ Stop(c)
  BY <1>1, <1>4, StopFine, QuietCalls DEF Stop, astVars
<1>5. CASE m.type = "REG" /\ Reg(c, m.url)
  BY <1>1, <1>2, <1>5, RegistrationsFine, QuietCalls DEF Reg, astVars
<1>6. CASE m.type = "UNREG" /\ Unreg(c, m.url)
  BY <1>1, <1>2, <1>6, RegistrationsFine, QuietCalls DEF Unreg, astVars
<1>7. CASE m.type = "ALLOWIN" /\ AllowIn(c)
  BY <1>1, <1>7, RegistrationsFine, QuietCalls DEF AllowIn, astVars
<1>8. CASE m.type = "STOPIN" /\ StopIn(c)
  BY <1>1, <1>8, RegistrationsFine, QuietCalls DEF StopIn, astVars
<1>9. CASE m.type = "RELEASE" /\ Release(c, m.call)
  BY <1>2, <1>9, ReleaseDoes
<1>10. CASE m.type = "HANGUP" /\ Hangup(c, m.call)
  BY <1>2, <1>10, HangupDoes
<1>11. CASE m.type = "MAKECALL" /\ MakeCall(c, m.make)
  BY <1>2, <1>11, MakeCallDoes
<1> QED
  BY <1>3, <1>4, <1>5, <1>6, <1>7, <1>8, <1>9, <1>10, <1>11 DEF HandleMsg

-----------------------------------------------------------------------------
(* Events of phoneglue.                                                     *)

\* The step of LegsReachTheirMaker.
LegsStep ==
  \A ch \in Channels :
    LET mk == caller[ch].leg
    IN mk # None /\ pg.callobj[ch] = None /\ pg'.callobj[ch] # None =>
         \/ pg'.callobj[ch] = mk.client
         \/ ch \in pg.received
         \/ pg.ct[mk.client].fh = "gone"

\* The events of the manager that are left.
FewerEvents ==
  /\ manager' \in Seq(Events)
  /\ \A i \in 1..Len(manager') : \E j \in 1..Len(manager) : manager'[i] = manager[j]

LEMMA SameEvents ==
  ASSUME IInv, UNCHANGED manager
  PROVE  FewerEvents
BY DEF FewerEvents, IInv, AsteriskTyped

LEMMA SameWires ==
  ASSUME IInv
  PROVE  /\ UNCHANGED toServer => RequestWire'
         /\ UNCHANGED batch => BatchTyped'
BY DEF IInv, RequestWire, BatchTyped

\* What phoneglue may do keeps the invariant, and gives legs to their makers.
LEMMA ServerKeeps ==
  ASSUME IInv, ServerDoes, RequestWire', BatchTyped', FewerEvents
  PROVE  IInv' /\ LegsStep
<1>1. Good(pg') /\ Follows(pg') /\ Given(pg') /\ SameCalls /\ MadeKnown
      /\ ClientWires'
  BY DEF ServerDoes, Fine
<1>2. AsteriskTyped'
  BY <1>1 DEF AsteriskTyped, SameCalls, MadeKnown, FewerEvents
<1>3. Unused'
  BY <1>1 DEF Unused, SameCalls, Follows, IInv
<1>4. LegsKnown'
  <2>1. \A mk \in originating' : pg'.ct[mk.client].toself
    BY <1>1 DEF MadeKnown
  <2>2. ASSUME NEW ch \in Channels
        PROVE  /\ caller'[ch].leg # None =>
                    /\ caller'[ch].self
                    /\ pg'.ct[caller'[ch].leg.client].toself
               /\ caller'[ch].line = "answered" => caller'[ch].leg # None
               /\ pg'.awaiting[ch] \in {None, caller'[ch].leg}
    <3>1. /\ caller'[ch].self = caller[ch].self /\ caller'[ch].leg = caller[ch].leg
          /\ caller'[ch].line = caller[ch].line /\ caller[ch] \in CallState
      BY <1>1 DEF SameCalls, IInv, AsteriskTyped
    <3>2. caller[ch].leg # None => /\ caller[ch].self
                                   /\ caller[ch].leg.client \in Clients
                                   /\ pg.ct[caller[ch].leg.client].toself
      BY <3>1 DEF IInv, LegsKnown, CallState, Makes, Others
    <3>3. pg'.awaiting[ch] \in {None, caller[ch].leg}
      BY <1>1 DEF Follows, IInv, LegsKnown
    <3>4. caller[ch].line = "answered" => caller[ch].leg # None
      BY DEF IInv, LegsKnown
    <3> QED
      BY <1>1, <3>1, <3>2, <3>3, <3>4 DEF Follows
  <2>3. ASSUME NEW i \in 1..Len(manager'), manager'[i].type = "SUCCESS"
        PROVE  caller'[manager'[i].call].leg = manager'[i].make
    <3>1. PICK j \in 1..Len(manager) : manager'[i] = manager[j]
      BY DEF FewerEvents
    <3>2. caller[manager[j].call].leg = manager[j].make
      BY <2>3, <3>1 DEF IInv, LegsKnown
    <3>3. manager[j] \in Events
      BY <3>1 DEF IInv, AsteriskTyped
    <3>4. manager[j].call \in Channels
      BY <2>3, <3>1, <3>3 DEF Events
    <3> QED
      BY <1>1, <3>1, <3>2, <3>4 DEF SameCalls
  <2> QED
    BY <2>1, <2>2, <2>3 DEF LegsKnown
<1>5. LegsStep
  BY <1>1 DEF LegsStep, Given, MayTake
<1> QED
  BY <1>1, <1>2, <1>3, <1>4, <1>5 DEF IInv

LEMMA HandleBytesKeeps ==
  ASSUME IInv, HandleBytes
  PROVE  IInv' /\ LegsStep
<1> DEFINE c == batch.client
           m == Head(batch.msgs)
<1>1. /\ batch.msgs # <<>> /\ HandleMsg(c, m)
      /\ batch' = [batch EXCEPT !.msgs = Tail(@)]
      /\ UNCHANGED <<toServer, manager>>
  BY DEF HandleBytes
<1>2. c \in Clients /\ batch.msgs \in Seq(FromClient(c))
  BY <1>1 DEF IInv, BatchTyped
<1>3. m \in FromClient(c) /\ Tail(batch.msgs) \in Seq(FromClient(c))
  BY <1>1, <1>2, HeadTailProperties
<1>4. ServerDoes
  BY <1>1, <1>2, <1>3, HandleMsgDoes
<1>5. BatchTyped'
  <2>1. batch = [client |-> batch.client, msgs |-> batch.msgs]
    BY DEF IInv, BatchTyped
  <2>2. batch' = [client |-> c, msgs |-> Tail(batch.msgs)]
    BY <1>1, <2>1
  <2> QED
    BY <1>2, <1>3, <2>2 DEF BatchTyped
<1> QED
  BY <1>1, <1>4, <1>5, SameWires, SameEvents, ServerKeeps

LEMMA ReadBytesKeeps ==
  ASSUME IInv, NEW c \in Clients, ReadBytes(c)
  PROVE  IInv' /\ LegsStep
<1>1. PICK n \in 1..Len(toServer[c]) :
        /\ batch' = [client |-> c, msgs |-> SubSeq(toServer[c], 1, n)]
        /\ toServer' = [toServer EXCEPT ![c] =
                          SubSeq(@, n + 1, Len(@))]
  BY DEF ReadBytes
<1>2. UNCHANGED <<pg, manager, toClients, astVars>>
  BY DEF ReadBytes
<1>3. toServer[c] \in Seq(FromClient(c)) /\ toServer \in [Clients -> Seq(Messages)]
  BY DEF IInv, RequestWire
<1>4. /\ SubSeq(toServer[c], 1, n) \in Seq(FromClient(c))
      /\ SubSeq(toServer[c], n + 1, Len(toServer[c])) \in Seq(FromClient(c))
  <2>1. n \in Nat /\ n <= Len(toServer[c]) /\ n >= 1
    BY <1>3
  <2>2. \A i \in 1..n : toServer[c][i] \in FromClient(c)
    BY <1>3, <2>1, ElementOfSeq
  <2>3. \A i \in n + 1..Len(toServer[c]) : toServer[c][i] \in FromClient(c)
    BY <1>3, <2>1, ElementOfSeq
  <2> QED
    BY <1>3, <2>1, <2>2, <2>3, SubSeqProperties
<1>5. RequestWire'
  <2>1. FromClient(c) \subseteq Messages
    BY DEF FromClient
  <2>2. SubSeq(toServer[c], n + 1, Len(toServer[c])) \in Seq(Messages)
    BY <1>4, <2>1
  <2> QED
    BY <1>1, <1>3, <1>4, <2>2 DEF RequestWire, IInv
<1>6. BatchTyped'
  BY <1>1, <1>4 DEF BatchTyped
<1>7. ServerDoes
  <2>1. Fine(pg)
    BY SameIsFine DEF IInv
  <2>2. Fine(pg') /\ ClientWires'
    BY <1>2, <2>1 DEF IInv, ClientWires, toClients
  <2> QED
    BY <1>2, <2>2, QuietCalls
<1> QED
  BY <1>2, <1>5, <1>6, <1>7, SameEvents, ServerKeeps

\* The other events leave what is on its way to phoneglue alone.
LEMMA EventKeeps ==
  ASSUME IInv, Fine(pg'), ClientWires', UNCHANGED <<batch, toServer, astVars>>,
         FewerEvents
  PROVE  IInv' /\ LegsStep
BY QuietCalls, SameWires, ServerKeeps

LEMMA SeesEofKeeps ==
  ASSUME IInv, NEW c \in Clients, SeesEof(c)
  PROVE  IInv' /\ LegsStep
<1> DEFINE r == [pg.ct[c] EXCEPT !.fh = "closed"]
           q == [pg EXCEPT !.ct[c].fh = "closed"]
<1>1. /\ pg' = q /\ UNCHANGED <<batch, toServer, manager, toClients, astVars>>
  BY DEF SeesEof
<1>2. pg \in Knowledge /\ pg.ct[c] \in CtState /\ Fine(pg)
  BY SameIsFine, KnowledgeIs DEF IInv, Good
<1>3. /\ r \in CtState /\ r.calls = pg.ct[c].calls /\ r.fh = "closed"
      /\ r.toself = pg.ct[c].toself
  BY <1>2 DEF CtState
<1>4. /\ q = [pg EXCEPT !.ct = [pg.ct EXCEPT ![c] = r],
                        !.registrations = q.registrations]
      /\ q.registrations = pg.registrations
  BY <1>2 DEF Knowledge
<1>5. pg.registrations \subseteq Urls \X Clients
  BY <1>2, KnowledgeIs
<1>6. Fine(q)
  <2> HIDE DEF q, r
  <2> QED
    BY <1>2, <1>3, <1>4, <1>5, ClientObjectFine
<1>7. ClientWires'
  BY <1>1 DEF IInv, ClientWires, toClients
<1> HIDE DEF q
<1> QED
  BY <1>1, <1>6, <1>7, SameEvents, EventKeeps

LEMMA ClientStoppedKeeps ==
  ASSUME IInv, NEW c \in Clients, ClientStopped(c)
  PROVE  IInv' /\ LegsStep
<1>1. pg' = Removed(pg, c) /\ UNCHANGED <<batch, toServer, manager, toClients, astVars>>
  BY DEF ClientStopped
<1>2. Fine(pg')
  BY <1>1, SameIsFine, RemovedFine DEF IInv
<1>3. ClientWires'
  BY <1>1 DEF IInv, ClientWires, toClients
<1> QED
  BY <1>1, <1>2, <1>3, SameEvents, EventKeeps

LEMMA NewAgiKeeps ==
  ASSUME IInv, NEW ch \in Channels, NewAgi(ch)
  PROVE  IInv' /\ LegsStep
<1> USE RoutingAssumption
<1>1. /\ Good(pg) /\ Fine(pg) /\ ClientWires /\ pg \in Knowledge
      /\ pg.agi[ch] = "dump" /\ UNCHANGED <<batch, toServer, manager, astVars>>
  BY SameIsFine DEF IInv, Good, NewAgi
<1>2. \/ /\ pg.awaiting[ch] # None
         /\ OutgoingCall([pg EXCEPT !.awaiting[ch] = None], ch, pg.awaiting[ch])
      \/ /\ pg' = [pg EXCEPT !.agi[ch] = "parked", !.received = @ \cup {ch}]
         /\ UNCHANGED toClients
      \/ /\ ~PotentialOutboundLeg(ch) /\ IncomingCall(pg, ch)
  BY DEF NewAgi
<1>3. CASE /\ pg.awaiting[ch] # None
           /\ OutgoingCall([pg EXCEPT !.awaiting[ch] = None], ch, pg.awaiting[ch])
  <2> DEFINE q == [pg EXCEPT !.awaiting[ch] = None]
  <2>1. /\ q \in Knowledge /\ q.ct = pg.ct /\ q.callobj = pg.callobj /\ q.agi = pg.agi
        /\ q.awaiting = [pg.awaiting EXCEPT ![ch] = None]
    BY <1>1 DEF Knowledge
  <2>2. \A x \in Channels : q.awaiting[x] \in {pg.awaiting[x], None, caller[x].leg}
    BY <1>1, <2>1, KnowledgeIs
  <2>3. Fine(q)
    <3> HIDE DEF q
    <3> QED
      BY <1>1, <2>1, <2>2, OtherFine
  <2>4. pg.awaiting[ch] \in Makes /\ caller[ch].leg = pg.awaiting[ch]
    BY <1>1, <1>3, KnowledgeIs DEF IInv, LegsKnown
  <2>5. OutgoingCall(q, ch, pg.awaiting[ch])
    BY <1>3
  <2>6. q.agi[ch] # "attached" /\ pg.agi[ch] # "none"
    BY <1>1, <2>1
  <2>7. Fine(pg') /\ ClientWires'
    <3> DEFINE mk == pg.awaiting[ch]
    <3>1. mk \in Makes /\ caller[ch].leg = mk /\ OutgoingCall(q, ch, mk)
      BY <2>4, <2>5
    <3> HIDE DEF q, mk
    <3> QED
      BY <1>1, <2>3, <2>6, <3>1, OutgoingCallFine
  <2> QED
    BY <1>1, <2>7, SameEvents, EventKeeps
<1>4. CASE /\ pg' = [pg EXCEPT !.agi[ch] = "parked", !.received = @ \cup {ch}]
           /\ UNCHANGED toClients
  <2> DEFINE p == [pg EXCEPT !.agi[ch] = "parked"]
             q == [pg EXCEPT !.agi[ch] = "parked", !.received = @ \cup {ch}]
  <2>1. Fine(p)
    BY <1>1, AgiFine
  <2>2. /\ q.ct = p.ct /\ q.callobj = p.callobj /\ q.agi = p.agi
        /\ q.awaiting = p.awaiting
        /\ q = [p EXCEPT !.received = pg.received \cup {ch}]
    BY <1>1 DEF Knowledge
  <2>3. pg.received \cup {ch} \subseteq Channels
    BY <1>1, KnowledgeIs
  <2>4. Fine(q)
    <3> HIDE DEF p, q
    <3>1. p \in Knowledge
      BY <2>1 DEF Fine, Good
    <3>2. q \in Knowledge
      BY <2>2, <2>3, <3>1 DEF Knowledge
    <3> QED
      BY <2>1, <2>2, <3>2, OtherFine
  <2>5. pg' = q
    BY <1>4
  <2>6. ClientWires'
    BY <1>1, <1>4 DEF ClientWires, toClients
  <2> HIDE DEF q
  <2> QED
    BY <1>1, <2>4, <2>5, <2>6, SameEvents, EventKeeps
<1>5. CASE ~PotentialOutboundLeg(ch) /\ IncomingCall(pg, ch)
  <2>1. ASSUME NEW c \in Clients, caller[ch].leg # None
        PROVE  MayTake(ch, c)
    <3>1. /\ caller[ch].self /\ caller[ch].leg.client \in Clients
          /\ pg.ct[caller[ch].leg.client].toself
      BY <2>1 DEF IInv, LegsKnown, AsteriskTyped, CallState, Makes, Others
    <3>2. pg.ct[caller[ch].leg.client].fh = "gone"
      BY <1>5, <3>1 DEF PotentialOutboundLeg
    <3> QED
      BY <3>2 DEF MayTake
  <2>2. \A c \in Clients : MayTake(ch, c)
    BY <2>1 DEF MayTake
  <2>3. Fine(pg') /\ ClientWires'
    BY <1>1, <1>5, <2>2, IncomingCallFine
  <2> QED
    BY <1>1, <2>3, SameEvents, EventKeeps
<1> QED
  BY <1>2, <1>3, <1>4, <1>5

LEMMA AgiClosedKeeps ==
  ASSUME IInv, NEW ch \in Channels, AgiClosed(ch)
  PROVE  IInv' /\ LegsStep
<1>1. /\ Good(pg) /\ Fine(pg) /\ ClientWires
      /\ UNCHANGED <<batch, toServer, manager, astVars>>
  BY SameIsFine DEF IInv, AgiClosed
<1>2. CASE pg.agi[ch] = "attached" /\ AgiFinished(ch, "HUNGUP")
  <2>1. pg.callobj[ch] # None
    BY <1>1, <1>2 DEF Good, Matches
  <2> QED
    BY <1>1, <1>2, <2>1, AgiFinishedFine, SameEvents, EventKeeps
<1>3. CASE /\ pg.agi[ch] = "parked" /\ pg' = [pg EXCEPT !.agi[ch] = "closed"]
           /\ UNCHANGED toClients
  <2>1. Fine(pg')
    BY <1>1, <1>3, AgiFine
  <2>2. ClientWires'
    BY <1>1, <1>3 DEF ClientWires, toClients
  <2> QED
    BY <1>1, <2>1, <2>2, SameEvents, EventKeeps
<1> QED
  BY <1>2, <1>3 DEF AgiClosed

\* A call is no longer kept for a report.
LEMMA ReceivedFine ==
  ASSUME NEW p, Fine(p), NEW q, q = [p EXCEPT !.received = q.received],
         q.received \subseteq Channels
  PROVE  Fine(q) /\ q.agi = p.agi /\ q.ct = p.ct
<1>1. p \in Knowledge
  BY DEF Fine, Good
<1>2. /\ q.ct = p.ct /\ q.callobj = p.callobj /\ q.agi = p.agi
      /\ q.awaiting = p.awaiting /\ q \in Knowledge
  BY <1>1 DEF Knowledge
<1> QED
  BY <1>2, OtherFine

LEMMA ReceivedTimeoutKeeps ==
  ASSUME IInv, NEW ch \in Channels, ReceivedTimeout(ch)
  PROVE  IInv' /\ LegsStep
<1> DEFINE q == [pg EXCEPT !.received = @ \ {ch}]
<1>1. /\ Good(pg) /\ Fine(pg) /\ ClientWires /\ ch \in pg.received
      /\ UNCHANGED <<batch, toServer, manager, astVars>>
  BY SameIsFine DEF IInv, ReceivedTimeout
<1>2. Fine(q) /\ q.agi = pg.agi
  <2>1. pg \in Knowledge
    BY <1>1 DEF Good
  <2>2. q = [pg EXCEPT !.received = q.received] /\ q.received = pg.received \ {ch}
    BY <2>1 DEF Knowledge
  <2>3. pg.received \subseteq Channels
    BY <2>1, KnowledgeIs
  <2> HIDE DEF q
  <2> QED
    BY <1>1, <2>2, <2>3, ReceivedFine
<1>3. IF pg.agi[ch] = "parked" THEN IncomingCall(q, ch)
      ELSE pg' = q /\ UNCHANGED toClients
  BY DEF ReceivedTimeout
<1>4. Fine(pg') /\ ClientWires'
  <2> HIDE DEF q
  <2>1. CASE pg.agi[ch] = "parked" /\ IncomingCall(q, ch)
    <3>1. \A c \in Clients : MayTake(ch, c)
      BY <1>1 DEF MayTake
    <3> QED
      BY <1>1, <1>2, <2>1, <3>1, IncomingCallFine
  <2>2. CASE pg' = q /\ UNCHANGED toClients
    BY <1>1, <1>2, <2>2 DEF ClientWires, toClients
  <2> QED
    BY <1>3, <2>1, <2>2
<1> QED
  BY <1>1, <1>4, SameEvents, EventKeeps

\* A call is no longer being made.
LEMMA MakingFine ==
  ASSUME Good(pg), NEW mk \in Makes
  PROVE  /\ Fine([pg EXCEPT !.callmaking = @ \ {mk}])
         /\ [pg EXCEPT !.callmaking = @ \ {mk}].ct = pg.ct
         /\ [pg EXCEPT !.callmaking = @ \ {mk}].agi = pg.agi
         /\ [pg EXCEPT !.callmaking = @ \ {mk}].awaiting = pg.awaiting
         /\ [pg EXCEPT !.callmaking = @ \ {mk}].received = pg.received
<1> DEFINE q == [pg EXCEPT !.callmaking = @ \ {mk}]
<1>1. pg \in Knowledge /\ Fine(pg)
  BY SameIsFine DEF Good
<1>2. /\ q.ct = pg.ct /\ q.callobj = pg.callobj /\ q.agi = pg.agi
      /\ q.awaiting = pg.awaiting /\ q.received = pg.received /\ q \in Knowledge
  BY <1>1 DEF Knowledge
<1>3. Fine(q)
  <2> HIDE DEF q
  <2> QED
    BY <1>1, <1>2, OtherFine
<1> QED
  BY <1>2, <1>3

LEMMA OriginateSucceededFine ==
  ASSUME ClientWires, Good(pg), NEW mk \in Makes, NEW ch \in Channels,
         caller[ch].leg = mk, OriginateSucceeded(mk, ch)
  PROVE  Fine(pg') /\ ClientWires'
<1> DEFINE p == [pg EXCEPT !.callmaking = @ \ {mk}]
<1>1. /\ Fine(p) /\ p.ct = pg.ct /\ p.agi = pg.agi /\ p.awaiting = pg.awaiting
      /\ p.received = pg.received
  BY MakingFine
<1>2. p \in Knowledge
  BY <1>1 DEF Fine, Good
<1>3. \/ pg' = p /\ UNCHANGED toClients
      \/ pg.agi[ch] = "parked" /\ OutgoingCall([p EXCEPT !.received = @ \ {ch}], ch, mk)
      \/ pg' = [p EXCEPT !.awaiting[ch] = mk] /\ UNCHANGED toClients
  BY DEF OriginateSucceeded
<1> HIDE DEF p
<1>4. CASE pg' = p /\ UNCHANGED toClients
  BY <1>1, <1>4 DEF ClientWires, toClients
<1>5. CASE pg.agi[ch] = "parked" /\ OutgoingCall([p EXCEPT !.received = @ \ {ch}], ch, mk)
  <2> DEFINE q == [p EXCEPT !.received = @ \ {ch}]
  <2>1. q = [p EXCEPT !.received = q.received] /\ q.received = p.received \ {ch}
    BY <1>2 DEF Knowledge
  <2>2. OutgoingCall(q, ch, mk)
    BY <1>5
  <2> HIDE DEF q
  <2>3. Fine(q) /\ q.agi = p.agi
    BY <1>1, <1>2, <2>1, KnowledgeIs, ReceivedFine
  <2> QED
    BY <1>1, <1>5, <2>2, <2>3, OutgoingCallFine
<1>6. CASE pg' = [p EXCEPT !.awaiting[ch] = mk] /\ UNCHANGED toClients
  <2> DEFINE q == [p EXCEPT !.awaiting[ch] = mk]
  <2>1. /\ q.ct = p.ct /\ q.callobj = p.callobj /\ q.agi = p.agi
        /\ q.awaiting = [p.awaiting EXCEPT ![ch] = mk] /\ q \in Knowledge
    BY <1>2 DEF Knowledge
  <2>2. \A x \in Channels : q.awaiting[x] \in {p.awaiting[x], None, caller[x].leg}
    BY <1>2, <2>1, KnowledgeIs
  <2>3. pg' = q
    BY <1>6
  <2> HIDE DEF q
  <2>4. Fine(q)
    BY <1>1, <2>1, <2>2, OtherFine
  <2> QED
    BY <1>6, <2>3, <2>4 DEF ClientWires, toClients
<1> QED
  BY <1>3, <1>4, <1>5, <1>6

LEMMA ManagerEventKeeps ==
  ASSUME IInv, ManagerEvent
  PROVE  IInv' /\ LegsStep
<1> DEFINE e == Head(manager)
<1>1. /\ Good(pg) /\ Fine(pg) /\ ClientWires /\ manager # <<>>
      /\ manager' = Tail(manager) /\ UNCHANGED <<batch, toServer, astVars>>
  BY SameIsFine DEF IInv, ManagerEvent
<1>2. manager \in Seq(Events) /\ e \in Events /\ e = manager[1] /\ Len(manager) >= 1
  BY <1>1, HeadTailProperties DEF IInv, AsteriskTyped
<1>3. FewerEvents
  <2>1. /\ manager' \in Seq(Events) /\ Len(manager') = Len(manager) - 1
        /\ \A i \in 1..Len(manager') : manager'[i] = manager[i + 1]
    BY <1>1, <1>2, HeadTailProperties
  <2> QED
    BY <1>2, <2>1 DEF FewerEvents
<1>4. CASE e.type = "SUCCESS" /\ OriginateSucceeded(e.make, e.call)
  <2>1. e.make \in Makes /\ e.call \in Channels
    BY <1>2, <1>4 DEF Events
  <2>2. caller[e.call].leg = e.make
    BY <1>2, <1>4 DEF IInv, LegsKnown
  <2>3. Fine(pg') /\ ClientWires'
    BY <1>1, <1>4, <2>1, <2>2, OriginateSucceededFine
  <2> QED
    BY <1>1, <1>3, <2>3, EventKeeps
<1>5. CASE e.type = "FAILURE" /\ OriginateFailed(e.make)
  <2>1. e.make \in Makes
    BY <1>2, <1>5 DEF Events
  <2>2. Fine(pg') /\ ClientWires'
    BY <1>1, <1>5, <2>1, MakingFine, MakeCallFailedFine DEF OriginateFailed
  <2> QED
    BY <1>1, <1>3, <2>2, EventKeeps
<1>6. CASE e.type = "HANGUP" /\ AwaitedHangup(e.call)
  <2> DEFINE ch == e.call
             mk == pg.awaiting[ch]
             q == [pg EXCEPT !.awaiting[ch] = None]
  <2>1. ch \in Channels /\ pg \in Knowledge
    BY <1>1, <1>2, <1>6 DEF Events, Good
  <2>2. CASE mk = None
    BY <1>1, <1>3, <1>6, <2>2, EventKeeps DEF AwaitedHangup, ClientWires, toClients
  <2>3. CASE mk # None
    <3>1. /\ q \in Knowledge /\ q.ct = pg.ct /\ q.callobj = pg.callobj
          /\ q.agi = pg.agi /\ q.awaiting = [pg.awaiting EXCEPT ![ch] = None]
      BY <2>1 DEF Knowledge
    <3>2. \A x \in Channels : q.awaiting[x] \in {pg.awaiting[x], None, caller[x].leg}
      BY <2>1, <3>1, KnowledgeIs
    <3>3. MakeCallFailed(q, mk) /\ mk \in Makes
      BY <1>6, <2>1, <2>3, KnowledgeIs DEF AwaitedHangup
    <3> HIDE DEF q, mk
    <3>4. Fine(q)
      BY <1>1, <3>1, <3>2, OtherFine
    <3>5. Fine(pg') /\ ClientWires'
      BY <1>1, <3>3, <3>4, MakeCallFailedFine
    <3> QED
      BY <1>1, <1>3, <3>5, EventKeeps
  <2> QED
    BY <2>2, <2>3
<1> QED
  BY <1>4, <1>5, <1>6 DEF ManagerEvent

LEMMA ServerStepKeeps ==
  ASSUME IInv, ServerStep
  PROVE  IInv' /\ LegsStep
BY HandleBytesKeeps, ReadBytesKeeps, SeesEofKeeps, ClientStoppedKeeps,
   NewAgiKeeps, AgiClosedKeeps, ReceivedTimeoutKeeps, ManagerEventKeeps
   DEF ServerStep

-----------------------------------------------------------------------------
(* Asterisk.                                                                *)

LEMMA NothingGiven ==
  ASSUME UNCHANGED pg
  PROVE  LegsStep
BY DEF LegsStep

\* An event that the manager queues.
LEMMA EventQueued ==
  ASSUME IInv, NEW e \in Events, manager' = Append(manager, e)
  PROVE  /\ manager' \in Seq(Events)
         /\ \A i \in 1..Len(manager') :
              \/ manager'[i] = e
              \/ i \in 1..Len(manager) /\ manager'[i] = manager[i]
<1>1. manager \in Seq(Events)
  BY DEF IInv, AsteriskTyped
<1>2. /\ manager' \in Seq(Events) /\ Len(manager') = Len(manager) + 1
      /\ \A i \in 1..Len(manager) : manager'[i] = manager[i]
      /\ manager'[Len(manager) + 1] = e
  BY <1>1, AppendProperties
<1>3. Len(manager) \in Nat
  BY <1>1
<1>4. ASSUME NEW i \in 1..Len(manager')
      PROVE  \/ manager'[i] = e
             \/ i \in 1..Len(manager) /\ manager'[i] = manager[i]
  <2>1. i \in 1..Len(manager) \/ i = Len(manager) + 1
    BY <1>2, <1>3
  <2> QED
    BY <1>2, <2>1
<1> QED
  BY <1>2, <1>4

\* Connects opens a connection on a channel that has none.
LEMMA ConnectsGood ==
  ASSUME IInv, NEW ch \in Channels, pg.agi[ch] = "none", Connects(ch)
  PROVE  /\ Good(pg') /\ LegsStep
         /\ pg'.ct = pg.ct /\ pg'.awaiting = pg.awaiting
         /\ \A x \in Channels : x # ch => pg'.agi[x] = pg.agi[x]
<1>1. pg \in Knowledge /\ pg' = [pg EXCEPT !.agi[ch] = "dump"]
  BY DEF IInv, Good, Connects
<1>2. /\ pg'.ct = pg.ct /\ pg'.awaiting = pg.awaiting /\ pg'.callobj = pg.callobj
      /\ pg'.agi = [pg.agi EXCEPT ![ch] = "dump"]
      /\ pg' = [pg EXCEPT !.agi = pg'.agi]
  BY <1>1 DEF Knowledge
<1>3. /\ pg'.agi \in [Channels -> {"none", "dump", "parked", "attached", "closed"}]
      /\ pg'.agi[ch] = "dump"
      /\ \A x \in Channels : x # ch => pg'.agi[x] = pg.agi[x]
  BY <1>1, <1>2, KnowledgeIs
<1>4. pg' \in Knowledge
  BY <1>1, <1>2, <1>3 DEF Knowledge
<1>5. Matches(pg')
  BY <1>2, <1>3 DEF Matches, IInv, Good
<1>6. LegsStep
  BY <1>2 DEF LegsStep
<1> QED
  BY <1>2, <1>3, <1>4, <1>5, <1>6 DEF Good

\* A step that leaves everything alone but a channel, or events.
LEMMA CallChanges ==
  ASSUME IInv, Good(pg'), NEW ch \in Channels, NEW new \in CallState,
         pg'.ct = pg.ct, pg'.awaiting = pg.awaiting,
         \A x \in Channels : x # ch => pg'.agi[x] = pg.agi[x],
         caller' = [caller EXCEPT ![ch] = new], new.line # "idle",
         new.line = "answered" => new.leg # None,
         originating' \subseteq originating,
         \/ new.leg = caller[ch].leg /\ new.self = caller[ch].self
         \/ /\ caller[ch].line = "idle"
            /\ new.leg # None => new.self /\ new.leg \in originating,
         manager' \in Seq(Events),
         \A i \in 1..Len(manager') :
           \/ i \in 1..Len(manager) /\ manager'[i] = manager[i]
           \/ manager'[i].type = "SUCCESS" =>
                manager'[i].call = ch /\ manager'[i].make = new.leg,
         UNCHANGED <<batch, toServer, toClients>>
  PROVE  IInv'
<1>1. /\ caller \in [Channels -> CallState] /\ caller' \in [Channels -> CallState]
      /\ caller'[ch] = new /\ \A x \in Channels : x # ch => caller'[x] = caller[x]
  BY DEF IInv, AsteriskTyped
<1>2. AsteriskTyped'
  BY <1>1 DEF IInv, AsteriskTyped
<1>3. Unused'
  BY <1>1 DEF IInv, Unused
<1>4. LegsKnown'
  <2>1. \A mk \in originating' : pg'.ct[mk.client].toself
    BY DEF IInv, LegsKnown
  <2>2. ASSUME NEW x \in Channels
        PROVE  /\ caller'[x].leg # None => /\ caller'[x].self
                                           /\ pg'.ct[caller'[x].leg.client].toself
               /\ caller'[x].line = "answered" => caller'[x].leg # None
               /\ pg'.awaiting[x] \in {None, caller'[x].leg}
    <3>1. /\ caller[x].leg # None => /\ caller[x].self
                                     /\ pg.ct[caller[x].leg.client].toself
          /\ pg.awaiting[x] \in {None, caller[x].leg}
          /\ caller[x].line = "idle" => caller[x].leg = None
          /\ caller[x].line = "answered" => caller[x].leg # None
      BY DEF IInv, LegsKnown, Unused
    <3>2. \A mk \in originating : pg.ct[mk.client].toself
      BY DEF IInv, LegsKnown
    <3>3. CASE x # ch
      BY <1>1, <3>1, <3>3
    <3>4. CASE x = ch
      BY <1>1, <3>1, <3>2, <3>4
    <3> QED
      BY <3>3, <3>4
  <2>3. ASSUME NEW i \in 1..Len(manager'), manager'[i].type = "SUCCESS"
        PROVE  caller'[manager'[i].call].leg = manager'[i].make
    <3>1. CASE i \in 1..Len(manager) /\ manager'[i] = manager[i]
      <4>1. manager[i] \in Events
        BY <3>1 DEF IInv, AsteriskTyped
      <4>2. /\ manager[i].call \in Channels /\ manager[i].make # None
            /\ caller[manager[i].call].leg = manager[i].make
        BY <2>3, <3>1, <4>1, RoutingAssumption DEF Events, IInv, LegsKnown
      <4>3. caller[manager[i].call].line # "idle"
        BY <4>2 DEF IInv, Unused
      <4> QED
        BY <1>1, <3>1, <4>2, <4>3
    <3>2. CASE manager'[i].call = ch /\ manager'[i].make = new.leg
      BY <1>1, <3>2
    <3> QED
      BY <2>3, <3>1, <3>2
  <2> QED
    BY <2>1, <2>2, <2>3 DEF LegsKnown
<1>5. ClientWires'
  BY DEF IInv, ClientWires, toClients
<1> QED
  BY <1>2, <1>3, <1>4, <1>5, SameWires DEF IInv

LEMMA CallComesKeeps ==
  ASSUME IInv, NEW ch \in Channels, CallComes(ch)
  PROVE  IInv' /\ LegsStep
<1>1. PICK dnis \in Dnis, self \in BOOLEAN :
        caller' = [caller EXCEPT ![ch] = [line |-> "up", dnis |-> dnis,
                                          self |-> self, leg |-> None,
                                          bye |-> FALSE]]
  BY DEF CallComes
<1>2. /\ caller[ch].line = "idle" /\ Connects(ch)
      /\ UNCHANGED <<batch, toServer, manager, toClients, originating>>
  BY DEF CallComes
<1>3. pg.agi[ch] = "none"
  BY <1>2 DEF IInv, Unused
<1> DEFINE new == [line |-> "up", dnis |-> dnis, self |-> self, leg |-> None,
                   bye |-> FALSE]
<1>4. new \in CallState /\ new.line = "up" /\ new.leg = None
  BY DEF CallState
<1>5. caller' = [caller EXCEPT ![ch] = new]
  BY <1>1
<1>6. manager' \in Seq(Events)
  BY <1>2 DEF IInv, AsteriskTyped
<1> HIDE DEF new
<1> QED
  BY <1>2, <1>3, <1>4, <1>5, <1>6, ConnectsGood, CallChanges

LEMMA AnswersKeeps ==
  ASSUME IInv, NEW ch \in Channels, NEW mk \in Makes, Answers(ch, mk)
  PROVE  IInv' /\ LegsStep
<1> DEFINE new == [line |-> "answered", dnis |-> LegDnis, self |-> TRUE,
                   leg |-> mk, bye |-> FALSE]
<1>1. /\ mk \in originating /\ caller[ch].line = "idle"
      /\ originating' = originating \ {mk}
      /\ caller' = [caller EXCEPT ![ch] = new]
      /\ UNCHANGED <<pg, batch, toServer, manager, toClients>>
  BY DEF Answers, serverVars
<1>2. /\ new \in CallState /\ new.line # "idle" /\ new.leg = mk /\ new.self
      /\ mk # None
  BY RoutingAssumption DEF CallState
<1>3. manager' \in Seq(Events) /\ Good(pg')
  BY <1>1 DEF IInv, AsteriskTyped
<1> HIDE DEF new
<1> QED
  BY <1>1, <1>2, <1>3, NothingGiven, CallChanges

LEMMA AnswerReportedKeeps ==
  ASSUME IInv, NEW ch \in Channels, AnswerReported(ch)
  PROVE  IInv' /\ LegsStep
<1> DEFINE new == [caller[ch] EXCEPT !.line = "up"]
           e   == Event("SUCCESS", caller[ch].leg, ch)
<1>1. /\ caller' = [caller EXCEPT ![ch] = new] /\ manager' = Append(manager, e)
      /\ UNCHANGED <<pg, batch, toServer, toClients, originating>>
  BY DEF AnswerReported, serverVars
<1>2. caller[ch] \in CallState /\ caller[ch].leg # None
  BY DEF IInv, AsteriskTyped, LegsKnown, AnswerReported
<1>3. /\ new \in CallState /\ new.line = "up" /\ new.leg = caller[ch].leg
      /\ new.self = caller[ch].self
  BY <1>2 DEF CallState
<1>4. e \in Events /\ e.call = ch /\ e.make = caller[ch].leg
  BY <1>2 DEF Event, Events, CallState
<1>5. Good(pg')
  BY <1>1 DEF IInv
<1> HIDE DEF new, e
<1>6. /\ manager' \in Seq(Events)
      /\ \A i \in 1..Len(manager') :
           \/ i \in 1..Len(manager) /\ manager'[i] = manager[i]
           \/ manager'[i].call = ch /\ manager'[i].make = new.leg
  BY <1>1, <1>3, <1>4, EventQueued
<1> QED
  BY <1>1, <1>3, <1>5, <1>6, NothingGiven, CallChanges

LEMMA HangsUpKeeps ==
  ASSUME IInv, NEW ch \in Channels, HangsUp(ch)
  PROVE  IInv' /\ LegsStep
<1> DEFINE new == [caller[ch] EXCEPT !.line = "over"]
           e   == Event("HANGUP", None, ch)
<1>1. /\ caller' = [caller EXCEPT ![ch] = new]
      /\ manager' = manager \/ manager' = Append(manager, e)
      /\ UNCHANGED <<pg, batch, toServer, toClients, originating>>
  BY DEF HangsUp, serverVars
<1>2. caller[ch] \in CallState /\ manager \in Seq(Events)
  BY DEF IInv, AsteriskTyped
<1>3. /\ new \in CallState /\ new.line = "over" /\ new.leg = caller[ch].leg
      /\ new.self = caller[ch].self
  BY <1>2 DEF CallState
<1>4. e \in Events /\ e.type = "HANGUP"
  BY DEF Event, Events
<1>5. Good(pg')
  BY <1>1 DEF IInv
<1> HIDE DEF new, e
<1> QED
  BY <1>1, <1>2, <1>3, <1>4, <1>5, EventQueued, NothingGiven, CallChanges

LEMMA LegConnectsKeeps ==
  ASSUME IInv, NEW ch \in Channels, LegConnects(ch)
  PROVE  IInv' /\ LegsStep
<1>1. /\ caller[ch].line # "idle" /\ pg.agi[ch] = "none" /\ Connects(ch)
      /\ UNCHANGED <<batch, toServer, manager, toClients, caller, originating>>
  BY DEF LegConnects, astVars
<1>2. /\ caller[ch] \in CallState
      /\ caller' = [caller EXCEPT ![ch] = caller[ch]]
      /\ manager' \in Seq(Events)
      /\ caller[ch].line = "answered" => caller[ch].leg # None
  BY <1>1 DEF IInv, AsteriskTyped, LegsKnown
<1>3. /\ Good(pg') /\ LegsStep /\ pg'.ct = pg.ct /\ pg'.awaiting = pg.awaiting
      /\ \A x \in Channels : x # ch => pg'.agi[x] = pg.agi[x]
  BY <1>1, ConnectsGood
<1> DEFINE new == caller[ch]
<1>5. /\ new \in CallState /\ new.line # "idle"
      /\ caller' = [caller EXCEPT ![ch] = new]
      /\ new.line = "answered" => new.leg # None
      /\ new.leg = caller[ch].leg /\ new.self = caller[ch].self
  BY <1>1, <1>2
<1> HIDE DEF new
<1> QED
  BY <1>1, <1>2, <1>3, <1>5, CallChanges

LEMMA FailsKeeps ==
  ASSUME IInv, NEW mk \in Makes, Fails(mk)
  PROVE  IInv' /\ LegsStep
<1> DEFINE e == Event("FAILURE", mk, None)
<1>1. /\ manager' = Append(manager, e) /\ originating' = originating \ {mk}
      /\ UNCHANGED <<pg, batch, toServer, toClients, caller>>
  BY DEF Fails, serverVars
<1>2. e \in Events /\ e.type = "FAILURE"
  BY DEF Event, Events
<1> HIDE DEF e
<1>3. AsteriskTyped' /\ Unused' /\ Good(pg') /\ ClientWires'
  BY <1>1, <1>2, EventQueued
     DEF IInv, AsteriskTyped, Unused, ClientWires, toClients
<1>4. LegsKnown'
  <2>1. \A i \in 1..Len(manager') : manager'[i].type = "SUCCESS" =>
          i \in 1..Len(manager) /\ manager'[i] = manager[i]
    BY <1>1, <1>2, EventQueued
  <2> QED
    BY <1>1, <2>1 DEF IInv, LegsKnown
<1> QED
  BY <1>1, <1>3, <1>4, SameWires, NothingGiven DEF IInv

LEMMA AsteriskStepKeeps ==
  ASSUME IInv, AsteriskStep
  PROVE  IInv' /\ LegsStep
BY CallComesKeeps, AnswerReportedKeeps, LegConnectsKeeps, HangsUpKeeps,
   AnswersKeeps, FailsKeeps
   DEF AsteriskStep

-----------------------------------------------------------------------------
(* Clients, and voiceglue among them.                                       *)

\* They change what is on its way between them and phoneglue.
LEMMA WiresKeep ==
  ASSUME IInv, RequestWire', ClientWires', UNCHANGED <<serverVars, manager, astVars>>
  PROVE  IInv' /\ LegsStep
<1>1. UNCHANGED <<pg, batch, manager, caller, originating>>
  BY DEF serverVars, astVars
<1>2. Good(pg') /\ BatchTyped' /\ AsteriskTyped' /\ Unused' /\ LegsKnown'
  BY <1>1 DEF IInv, BatchTyped, AsteriskTyped, Unused, LegsKnown
<1> QED
  BY <1>1, <1>2, NothingGiven DEF IInv

LEMMA SendsTyped ==
  ASSUME IInv, NEW c \in Clients, NEW m \in FromClient(c),
         toServer' = [toServer EXCEPT ![c] = Append(@, m)]
  PROVE  RequestWire'
<1>1. /\ toServer \in [Clients -> Seq(Messages)]
      /\ \A d \in Clients : toServer[d] \in Seq(FromClient(d))
  BY DEF IInv, RequestWire
<1>2. m \in Messages
  BY DEF FromClient
<1>3. /\ Append(toServer[c], m) \in Seq(Messages)
      /\ Append(toServer[c], m) \in Seq(FromClient(c))
  BY <1>1, <1>2
<1> QED
  BY <1>1, <1>3 DEF RequestWire

LEMMA PlainRequests ==
  ASSUME NEW c \in Clients,
         NEW type \in {"START", "STOP", "ALLOWIN", "STOPIN"}
  PROVE  Message(type) \in FromClient(c)
BY DEF Message, FromClient, Messages, Requests

LEMMA StartRequests ==
  ASSUME NEW c \in Clients, NEW toself \in BOOLEAN
  PROVE  [Message("START") EXCEPT !.toself = toself] \in FromClient(c)
BY DEF Message, FromClient, Messages, Requests

LEMMA UrlRequests ==
  ASSUME NEW c \in Clients, NEW type \in {"REG", "UNREG"}, NEW url \in Urls
  PROVE  AboutUrl(type, url) \in FromClient(c)
BY DEF AboutUrl, Message, FromClient, Messages, Requests

LEMMA CallRequests ==
  ASSUME NEW c \in Clients, NEW type \in {"RELEASE", "HANGUP"}, NEW ch \in Channels
  PROVE  AboutCall(type, ch) \in FromClient(c)
BY DEF AboutCall, Message, FromClient, Messages, Requests

LEMMA MakeRequests ==
  ASSUME NEW mk \in Makes
  PROVE  [Message("MAKECALL") EXCEPT !.make = mk] \in FromClient(mk.client)
BY DEF Message, FromClient, Messages, Requests

\* One more message sent.
LEMMA SentTyped ==
  ASSUME NEW s \in ClientState
  PROVE  /\ s.sent + 1 \in Nat /\ s.made + 1 \in Nat
         /\ [s EXCEPT !.sent = @ + 1] \in ClientState
<1>1. s.sent \in Nat /\ s.made \in Nat
  BY DEF ClientState
<1>2. s.sent + 1 \in Nat /\ s.made + 1 \in Nat
  BY <1>1
<1> DEFINE n == s.sent + 1
<1>3. [s EXCEPT !.sent = n] \in ClientState
  <2>1. n \in Nat
    BY <1>2
  <2> HIDE DEF n
  <2> QED
    BY <2>1 DEF ClientState
<1> QED
  BY <1>2, <1>3

\* What a client that is not voiceglue remembers of what it asked.
LEMMA AsksTyped ==
  ASSUME IInv, NEW c \in Others, NEW m \in FromClient(c), Asks(c, m),
         UNCHANGED fromServer
  PROVE  RequestWire' /\ ClientWires'
<1> DEFINE new == [client[c] EXCEPT !.asked = m.type, !.started = TRUE,
                                    !.sent = @ + 1]
<1>1. c \in Clients /\ client \in [Others -> ClientState] /\ client[c] \in ClientState
  BY DEF Others, IInv, ClientWires
<1>2. m.type \in Requests \cup Told
  BY DEF FromClient, Messages
<1>3. /\ toServer' = [toServer EXCEPT ![c] = Append(@, m)]
      /\ client' = [client EXCEPT ![c] = new]
  BY <1>1 DEF Asks, Request
<1>4. new \in ClientState
  <2> DEFINE one == [client[c] EXCEPT !.sent = @ + 1]
  <2>1. one \in ClientState
    BY <1>1, SentTyped
  <2>2. new = [one EXCEPT !.asked = m.type, !.started = TRUE]
    BY <1>1 DEF ClientState
  <2> HIDE DEF one, new
  <2>3. [one EXCEPT !.asked = m.type, !.started = TRUE] \in ClientState
    BY <2>1, <1>2 DEF ClientState
  <2> QED
    BY <2>2, <2>3
<1>5. RequestWire'
  BY <1>1, <1>3, SendsTyped
<1>6. ClientWires'
  <2> HIDE DEF new
  <2> QED
    BY <1>1, <1>3, <1>4 DEF IInv, ClientWires
<1> QED
  BY <1>5, <1>6

LEMMA ConfiguresTyped ==
  ASSUME IInv, NEW c \in Others, Configures(c), UNCHANGED fromServer
  PROVE  RequestWire' /\ ClientWires'
<1>1. c \in Clients
  BY DEF Others
<1>2. ASSUME NEW toself \in BOOLEAN,
             Asks(c, [Message("START") EXCEPT !.toself = toself])
      PROVE  RequestWire' /\ ClientWires'
  BY <1>1, <1>2, StartRequests, AsksTyped
<1>3. ASSUME NEW type \in {"ALLOWIN", "STOPIN", "STOP"}, Asks(c, Message(type))
      PROVE  RequestWire' /\ ClientWires'
  BY <1>1, <1>3, PlainRequests, AsksTyped
<1>4. ASSUME NEW type \in {"REG", "UNREG"}, NEW url \in Urls,
             Asks(c, AboutUrl(type, url))
      PROVE  RequestWire' /\ ClientWires'
  BY <1>1, <1>4, UrlRequests, AsksTyped
<1> QED
  BY <1>2, <1>3, <1>4 DEF Configures

LEMMA MakesCallTyped ==
  ASSUME IInv, NEW c \in Others, MakesCall(c), UNCHANGED fromServer
  PROVE  RequestWire' /\ ClientWires'
<1> DEFINE mk  == [client |-> c, id |-> client[c].made + 1]
           m   == [Message("MAKECALL") EXCEPT !.make = mk]
           new == [client[c] EXCEPT !.made = @ + 1, !.sent = @ + 1,
                                    !.making = @ \cup {mk}]
<1>1. c \in Clients /\ client \in [Others -> ClientState] /\ client[c] \in ClientState
  BY DEF Others, IInv, ClientWires
<1>2. /\ client[c].made < MaxMakes
      /\ toServer' = [toServer EXCEPT ![c] = Append(@, m)]
      /\ client' = [client EXCEPT ![c] = new]
  BY <1>1 DEF MakesCall, Request
<1>3. client[c].made \in Nat /\ client[c].making \subseteq Makes
      /\ client[c].sent \in Nat
  BY <1>1 DEF ClientState
<1>4. mk \in Makes
  BY <1>2, <1>3, RoutingAssumption DEF Makes
<1>5. new \in ClientState
  <2> DEFINE one  == [client[c] EXCEPT !.sent = @ + 1]
             made == client[c].made + 1
             all  == client[c].making \cup {mk}
  <2>1. one \in ClientState /\ made \in Nat
    BY <1>1, SentTyped
  <2>2. all \subseteq Makes
    <3> HIDE DEF mk
    <3> QED
      BY <1>3, <1>4
  <2>3. new = [one EXCEPT !.made = made, !.making = all]
    <3> HIDE DEF mk
    <3> QED
      BY <1>1 DEF ClientState
  <2> HIDE DEF one, made, all, new
  <2>4. [one EXCEPT !.made = made, !.making = all] \in ClientState
    BY <2>1, <2>2 DEF ClientState
  <2> QED
    BY <2>3, <2>4
<1>6. m \in FromClient(c)
  <2>1. mk.client = c
    OBVIOUS
  <2> HIDE DEF mk
  <2> QED
    BY <1>4, <2>1, MakeRequests
<1>7. RequestWire'
  <2> HIDE DEF m
  <2> QED
    BY <1>1, <1>2, <1>6, SendsTyped
<1>8. ClientWires'
  <2> HIDE DEF new
  <2> QED
    BY <1>1, <1>2, <1>5 DEF IInv, ClientWires
<1> QED
  BY <1>7, <1>8

LEMMA ReleasesTyped ==
  ASSUME IInv, NEW c \in Others, NEW ch \in Channels, Releases(c, ch),
         UNCHANGED fromServer
  PROVE  RequestWire' /\ ClientWires'
<1> DEFINE new == [client[c] EXCEPT !.calls = @ \ {ch}, !.sent = @ + 1]
<1>1. c \in Clients /\ client \in [Others -> ClientState] /\ client[c] \in ClientState
  BY DEF Others, IInv, ClientWires
<1>2. /\ toServer' = [toServer EXCEPT ![c] = Append(@, AboutCall("RELEASE", ch))]
      /\ client' = [client EXCEPT ![c] = new]
  BY <1>1 DEF Releases, Request
<1>3. new \in ClientState
  <2> DEFINE one == [client[c] EXCEPT !.sent = @ + 1]
             cs  == client[c].calls \ {ch}
  <2>1. one \in ClientState
    BY <1>1, SentTyped
  <2>2. cs \subseteq Channels
    BY <1>1 DEF ClientState
  <2>3. new = [one EXCEPT !.calls = cs]
    BY <1>1 DEF ClientState
  <2> HIDE DEF one, cs, new
  <2>4. [one EXCEPT !.calls = cs] \in ClientState
    BY <2>1, <2>2 DEF ClientState
  <2> QED
    BY <2>3, <2>4
<1>4. RequestWire'
  BY <1>1, <1>2, CallRequests, SendsTyped
<1>5. ClientWires'
  <2> HIDE DEF new
  <2> QED
    BY <1>1, <1>2, <1>3 DEF IInv, ClientWires
<1> QED
  BY <1>4, <1>5

LEMMA ClientStepKeeps ==
  ASSUME IInv, NEW c \in Others, ClientStep(c)
  PROVE  IInv' /\ LegsStep
<1>1. UNCHANGED <<serverVars, fromServer, manager, astVars>>
  BY DEF ClientStep
<1>2. CASE ClientDies(c)
  <2>1. Fresh \in ClientState
    BY DEF Fresh, ClientState
  <2>2. client' = [client EXCEPT ![c] = Fresh] /\ UNCHANGED toServer
    BY <1>2 DEF ClientDies
  <2>3. RequestWire' /\ ClientWires'
    BY <1>1, <2>1, <2>2, SameWires DEF IInv, ClientWires
  <2> QED
    BY <1>1, <2>3, WiresKeep
<1> QED
  BY <1>1, <1>2, ConfiguresTyped, MakesCallTyped, ReleasesTyped, WiresKeep
     DEF ClientStep

\* The first messages of phoneglue are read.
LEMMA ReadsTyped ==
  ASSUME IInv, UNCHANGED client, NEW n \in 1..Len(fromServer),
         fromServer' = SubSeq(fromServer, n + 1, Len(fromServer))
  PROVE  ClientWires'
<1>1. fromServer \in Seq(ToClients)
  BY DEF IInv, ClientWires
<1>2. n \in Nat /\ n <= Len(fromServer) /\ n >= 1
  BY <1>1
<1>3. \A i \in n + 1..Len(fromServer) : fromServer[i] \in ToClients
  BY <1>1, <1>2, ElementOfSeq
<1>4. SubSeq(fromServer, n + 1, Len(fromServer)) \in Seq(ToClients)
  BY <1>1, <1>2, <1>3, SubSeqProperties
<1> QED
  BY <1>4 DEF IInv, ClientWires

LEMMA VglueStepKeeps ==
  ASSUME IInv, VglueStep \/ StopCommand
  PROVE  IInv' /\ LegsStep
<1>1. Vglue \in Clients
  BY RoutingAssumption
<1>2. ASSUME NEW m \in FromClient(Vglue), Send(m)
      PROVE  RequestWire'
  BY <1>1, <1>2, SendsTyped DEF Send
<1>3. UNCHANGED toServer => RequestWire'
  BY SameWires
<1>4. UNCHANGED <<fromServer, client>> => ClientWires'
  BY DEF IInv, ClientWires
<1>5. CASE Begin
  <2>1. UNCHANGED <<serverVars, manager, astVars, fromServer, client>>
    BY <1>5 DEF Begin
  <2>2. RequestWire'
    BY <1>1, <1>2, <1>5, StartRequests DEF Begin
  <2> QED
    BY <1>4, <2>1, <2>2, WiresKeep
<1>6. ASSUME NEW request, NEW answer, NEW next \in {"REG", "ALLOWIN", "run"},
             Initialize(request, answer, next)
      PROVE  IInv' /\ LegsStep
  <2>1. UNCHANGED <<serverVars, manager, astVars, client>>
    BY <1>6 DEF Initialize
  <2>2. ClientWires'
    BY <1>6, ReadsTyped DEF Initialize
  <2>3. RequestWire'
    <3>1. Registered \in Urls
      BY LifecycleAssumption
    <3>2. CASE next = "run"
      BY <1>3, <1>6, <3>2 DEF Initialize
    <3>3. CASE next = "REG"
      BY <1>1, <1>2, <1>6, <3>1, <3>3, UrlRequests DEF Initialize
    <3>4. CASE next = "ALLOWIN"
      BY <1>1, <1>2, <1>6, <3>4, PlainRequests DEF Initialize
    <3> QED
      BY <3>2, <3>3, <3>4
  <2> QED
    BY <2>1, <2>2, <2>3, WiresKeep
<1>7. CASE HandleMsgFromCtServer
  <2>1. /\ UNCHANGED <<serverVars, manager, astVars, client>>
        /\ fromServer # <<>> /\ fromServer' = Tail(fromServer)
    BY <1>7 DEF HandleMsgFromCtServer
  <2>2. /\ fromServer \in Seq(ToClients) /\ Head(fromServer) \in ToClients
        /\ Tail(fromServer) \in Seq(ToClients)
    BY <2>1, HeadTailProperties DEF IInv, ClientWires
  <2>3. ClientWires'
    BY <2>1, <2>2 DEF IInv, ClientWires
  <2>4. \/ UNCHANGED toServer
        \/ /\ Head(fromServer).type = "INCOMING"
           /\ Send(AboutCall("HANGUP", Head(fromServer).call))
    BY <1>7 DEF HandleMsgFromCtServer, HandleSatcIncoming, HandleSatcHungupOrReleased
  <2>5. RequestWire'
    BY <1>1, <1>2, <1>3, <2>2, <2>4, CallRequests DEF ToClients
  <2> QED
    BY <2>1, <2>3, <2>5, WiresKeep
<1>8. CASE Shutdown
  <2>1. UNCHANGED <<serverVars, manager, astVars, fromServer, client>>
    BY <1>8 DEF Shutdown
  <2>2. RequestWire'
    BY <1>1, <1>2, <1>8, PlainRequests DEF Shutdown
  <2> QED
    BY <1>4, <2>1, <2>2, WiresKeep
<1>9. ASSUME NEW ch \in Channels, ThreadEnds(ch)
      PROVE  IInv' /\ LegsStep
  <2>1. UNCHANGED <<serverVars, manager, astVars, fromServer, client>>
    BY <1>9 DEF ThreadEnds
  <2>2. RequestWire'
    BY <1>1, <1>2, <1>3, <1>9, CallRequests DEF ThreadEnds
  <2> QED
    BY <1>4, <2>1, <2>2, WiresKeep
<1>10. CASE StopCommand
  <2>1. UNCHANGED <<serverVars, manager, astVars, fromServer, client>>
    BY <1>10 DEF StopCommand
  <2>2. RequestWire'
    BY <1>1, <1>2, <1>10, PlainRequests DEF StopCommand
  <2> QED
    BY <1>4, <2>1, <2>2, WiresKeep
<1> QED
  BY <1>5, <1>6, <1>7, <1>8, <1>9, <1>10 DEF VglueStep, InitializeCtServer

-----------------------------------------------------------------------------
(* The theorems.                                                            *)

LEMMA Initially ==
  ASSUME NEW here \in SUBSET Clients, NEW served \in SUBSET Others,
         NEW free \in SUBSET Channels,
         RoutingInit(here, {Registered} \X served, free)
  PROVE  IInv
<1> USE RoutingAssumption, LifecycleAssumption
<1> DEFINE regs == {Registered} \X served
           Of(c) == {u \in Urls : <<u, c>> \in regs}
<1>1. regs \subseteq Urls \X Clients
  BY DEF Others
<1> HIDE DEF regs
<1>2. /\ pg.ct = [c \in Clients |->
                    [fh |-> IF c \in here THEN "open" ELSE "gone",
                     toself |-> FALSE, allowin |-> Of(c) # {},
                     register |-> Of(c), calls |-> {}]]
      /\ pg.registrations = regs
      /\ pg.callobj = [ch \in Channels |-> None]
      /\ pg.agi = [ch \in Channels |-> IF ch \in free THEN "none" ELSE "closed"]
      /\ pg.received = {} /\ pg.callmaking = {}
      /\ pg.awaiting = [ch \in Channels |-> None]
      /\ pg = [ct |-> pg.ct, registrations |-> pg.registrations,
               callobj |-> pg.callobj, agi |-> pg.agi, received |-> pg.received,
               callmaking |-> pg.callmaking, awaiting |-> pg.awaiting]
  BY DEF RoutingInit, regs
<1>3. pg \in Knowledge
  <2>1. ASSUME NEW c \in Clients
        PROVE  [fh |-> IF c \in here THEN "open" ELSE "gone",
                toself |-> FALSE, allowin |-> Of(c) # {},
                register |-> Of(c), calls |-> {}] \in CtState
    <3>1. Of(c) \subseteq Urls /\ (Of(c) # {}) \in BOOLEAN
      OBVIOUS
    <3> HIDE DEF Of
    <3> QED
      BY <3>1 DEF CtState
  <2>2. pg.ct \in [Clients -> CtState]
    <3> HIDE DEF Of
    <3> QED
      BY <1>2, <2>1
  <2> HIDE DEF Of
  <2> QED
    BY <1>1, <1>2, <2>2 DEF Knowledge
<1>4. Matches(pg)
  <2> HIDE DEF Of
  <2> QED
    BY <1>2 DEF Matches
<1>5. /\ caller = [ch \in Channels |->
                     [line |-> IF ch \in free THEN "idle" ELSE "over",
                      dnis |-> LegDnis, self |-> FALSE, leg |-> None,
                      bye |-> FALSE]]
      /\ originating = {} /\ manager = <<>> /\ fromServer = <<>>
      /\ toServer = [c \in Clients |-> <<>>]
      /\ batch = [client |-> None, msgs |-> <<>>]
      /\ client = [c \in Others |-> IF Of(c) = {} THEN Fresh
                                    ELSE [Fresh EXCEPT !.started = TRUE,
                                                       !.sent = MaxSent]]
  BY DEF RoutingInit, regs
<1>6. AsteriskTyped
  BY <1>5 DEF AsteriskTyped, CallState
<1>7. Unused /\ LegsKnown
  <2> HIDE DEF Of
  <2> QED
    BY <1>2, <1>5 DEF Unused, LegsKnown
<1>8. RequestWire /\ BatchTyped
  BY <1>5 DEF RequestWire, BatchTyped
<1>9. ClientWires
  <2>1. /\ Fresh \in ClientState
        /\ [Fresh EXCEPT !.started = TRUE, !.sent = MaxSent] \in ClientState
    BY DEF Fresh, ClientState
  <2> HIDE DEF Of
  <2> QED
    BY <1>5, <2>1 DEF ClientWires
<1> QED
  BY <1>3, <1>4, <1>6, <1>7, <1>8, <1>9 DEF IInv, Good

LEMMA InitHolds ==
  ASSUME Init
  PROVE  IInv
<1>1. CASE RoutingInit({Vglue}, {}, Channels)
  <2>1. {Registered} \X {} = {}
    OBVIOUS
  <2>2. RoutingInit({Vglue}, {Registered} \X {}, Channels)
    BY <1>1, <2>1
  <2>3. {Vglue} \in SUBSET Clients /\ {} \in SUBSET Others
        /\ Channels \in SUBSET Channels
    BY RoutingAssumption
  <2> QED
    BY <2>2, <2>3, Initially
<1>2. CASE RoutingInit(Others, {Registered} \X Served, Free)
  BY <1>2, Initially, LifecycleAssumption DEF Others
<1> QED
  BY <1>1, <1>2 DEF Init

LEMMA StepKeeps ==
  ASSUME IInv, [Next]_vars
  PROVE  IInv' /\ (LegsStep \/ UNCHANGED vars)
<1>1. CASE Next
  BY <1>1, ServerStepKeeps, AsteriskStepKeeps, ClientStepKeeps, VglueStepKeeps
     DEF Next
<1>2. CASE UNCHANGED vars
  <2>1. UNCHANGED <<serverVars, manager, astVars, toServer, fromServer, client>>
    BY <1>2 DEF vars, routingVars, toClients
  <2>2. RequestWire' /\ ClientWires'
    BY <2>1, SameWires DEF IInv, ClientWires
  <2> QED
    BY <1>2, <2>1, <2>2, WiresKeep
<1> QED
  BY <1>1, <1>2

\* Phoneglue's tables, the connections and what is on its way agree, whatever
\* clients, Asterisk and voiceglue do (CallsMatchClients, LegsReachTheirMaker).
THEOREM RoutingInvariant == Spec => []IInv
<1>1. Init => IInv
  BY InitHolds
<1>2. IInv /\ [Next]_vars => IInv'
  BY StepKeeps
<1> QED
  BY <1>1, <1>2, PTL DEF Spec

\* A call object, its client and its AGI connection know of each other, and a
\* client that is gone has no calls (remove_client, incoming_call,
\* outgoing_call, agi_client_finished).
THEOREM CallsAreMatched == Spec => []CallsMatchClients
<1>1. IInv => CallsMatchClients
  BY DEF IInv, Good, Matches, CallsMatchClients
<1> QED
  BY <1>1, RoutingInvariant, PTL

\* A call made for one client is given to another only if it was not reported in
\* time or the client is gone (potential_outbound_incoming_leg, OriginateResponse).
THEOREM LegsReachMakers == Spec => LegsReachTheirMaker
<1>1. IInv /\ [Next]_vars => [LegsStep]_vars
  BY StepKeeps
<1>2. [][LegsStep]_vars => LegsReachTheirMaker
  BY PTL DEF LegsStep, LegsReachTheirMaker
<1> QED
  BY <1>1, <1>2, RoutingInvariant, PTL DEF Spec
-----------------------------------------------------------------------------
(* The calls of voiceglue.                                                  *)

\* A channel that phoneglue has told a client of.
Taken(p, ch) == p.agi[ch] \in {"attached", "closed"}

\* What is on its way to phoneglue is about calls that voiceglue was told of;
AsksOfKnown(p, msgs) ==
  \A i \in 1..Len(msgs) : \A ch \in Channels : msgs[i].call = ch => Taken(p, ch)

\* so is what is on its way back, and a call said to be over is over.
TellsOfKnown(p, msgs) ==
  \A i \in 1..Len(msgs) : \A ch \in Channels : msgs[i].call = ch =>
    /\ Taken(p, ch)
    /\ msgs[i].type \in {"HUNGUP", "RELEASED"} => p.agi[ch] = "closed"

SessionsKnown(p) ==
  \A ch \in Channels : session[ch] # None =>
    /\ session[ch] \in {"connected", "hungup"} /\ Taken(p, ch)
    /\ session[ch] = "hungup" => p.agi[ch] = "closed"

VglueKnows(p) ==
  /\ AsksOfKnown(p, toServer[Vglue])
  /\ batch.client = Vglue => AsksOfKnown(p, batch.msgs)
  /\ TellsOfKnown(p, fromServer) /\ SessionsKnown(p)

Serving ==
  /\ session \in [Channels -> {None, "connected", "hungup"}]
  /\ phase # "over" => Vglue \in alive
  /\ VglueKnows(pg) /\ CallsServed
-----------------------------------------------------------------------------
(* What phoneglue may do to its calls while it says something: they stay as  *)
(* they are, or are over.                                                    *)

Shrinks(p, q) ==
  /\ \A ch \in Channels :
       \/ q.callobj[ch] = p.callobj[ch] /\ q.agi[ch] = p.agi[ch]
       \/ p.agi[ch] = "attached" /\ q.callobj[ch] = None /\ q.agi[ch] = "closed"
  /\ q.callmaking = p.callmaking /\ q.awaiting = p.awaiting
  /\ q.received = p.received
  /\ \A c \in Clients : q.ct[c].fh = "open" => p.ct[c].fh = "open"

\* What a client is told of a step: nothing, or m.
Tells(c, m) ==
  \/ UNCHANGED toClients
  \/ /\ c = Vglue /\ fromServer' = Append(fromServer, m) /\ UNCHANGED client
  \/ /\ c # Vglue /\ c \in alive
     /\ client' = [client EXCEPT ![c] = Reads(@, m)] /\ UNCHANGED fromServer

LEMMA HeardTells ==
  ASSUME NEW p, NEW c, NEW m, Heard(p, c, m)
  PROVE  /\ Tells(c, m)
         /\ p.ct[c].fh # "open" => UNCHANGED toClients
         /\ p.ct[c].fh = "open" /\ c \in alive =>
              IF c = Vglue THEN fromServer' = Append(fromServer, m)
              ELSE client' = [client EXCEPT ![c] = Reads(@, m)]
BY DEF Heard, Tells

LEMMA ShrinksTwice ==
  ASSUME NEW p, NEW q, NEW r, Shrinks(p, q), Shrinks(q, r)
  PROVE  Shrinks(p, r)
<1>1. ASSUME NEW ch \in Channels
      PROVE  \/ r.callobj[ch] = p.callobj[ch] /\ r.agi[ch] = p.agi[ch]
             \/ p.agi[ch] = "attached" /\ r.callobj[ch] = None /\ r.agi[ch] = "closed"
  BY DEF Shrinks
<1> QED
  BY <1>1 DEF Shrinks

\* A client whose calls are those it is said to have is removed.
LEMMA RemovedShrinks ==
  ASSUME NEW p \in Knowledge, NEW c \in Clients,
         \A ch \in p.ct[c].calls : p.agi[ch] = "attached"
  PROVE  /\ Shrinks(p, Removed(p, c))
         /\ \A ch \in p.ct[c].calls : Removed(p, c).callobj[ch] = None
<1> DEFINE q == Removed(p, c)
<1>1. /\ q.callobj = [ch \in Channels |->
                        IF ch \in p.ct[c].calls THEN None ELSE p.callobj[ch]]
      /\ q.agi = [ch \in Channels |->
                    IF ch \in p.ct[c].calls THEN "closed" ELSE p.agi[ch]]
  BY DEF Removed, Knowledge
<1>2. /\ q.callmaking = p.callmaking /\ q.awaiting = p.awaiting
      /\ q.received = p.received
  BY DEF Removed, Knowledge
<1>3. \A d \in Clients : q.ct[d].fh = "open" => p.ct[d].fh = "open"
  <2>1. p.ct \in [Clients -> CtState]
    BY KnowledgeIs
  <2>2. q.ct = [p.ct EXCEPT ![c] = [p.ct[c] EXCEPT !.fh = "gone", !.calls = {}]]
    BY <2>1 DEF Removed, Knowledge, CtState
  <2>3. q.ct[c].fh = "gone"
    BY <2>1, <2>2 DEF CtState
  <2> QED
    BY <2>1, <2>2, <2>3
<1>4. p.ct[c].calls \subseteq Channels
  BY KnowledgeIs DEF CtState
<1> QED
  BY <1>1, <1>2, <1>3, <1>4 DEF Shrinks

\* A client that cannot be written to is removed with its calls.
LEMMA SentShrinks ==
  ASSUME NEW p \in Knowledge, Matches(p), NEW c \in Clients
  PROVE  /\ Shrinks(p, Sent(p, c))
         /\ p.ct[c].fh = "closed" =>
              \A ch \in Channels : Sent(p, c).callobj[ch] # c
<1>1. p.ct[c].calls \subseteq Channels
  BY KnowledgeIs DEF CtState
<1>2. \A ch \in p.ct[c].calls : p.agi[ch] = "attached"
  <2> TAKE ch \in p.ct[c].calls
  <2>1. p.callobj[ch] = c
    BY <1>1 DEF Matches
  <2> QED
    BY <1>1, <2>1, RoutingAssumption DEF Matches
<1>3. CASE p.ct[c].fh = "closed"
  <2>1. Sent(p, c) = Removed(p, c)
    BY <1>3 DEF Sent
  <2>2. Shrinks(p, Removed(p, c))
    BY <1>2, RemovedShrinks
  <2>3. ASSUME NEW ch \in Channels
        PROVE  Removed(p, c).callobj[ch] # c
    <3>1. CASE ch \in p.ct[c].calls
      BY <1>2, <3>1, RemovedShrinks, RoutingAssumption
    <3>2. CASE ch \notin p.ct[c].calls
      <4>1. p.callobj[ch] # c
        BY <3>2 DEF Matches
      <4> QED
        BY <2>2, <4>1, RoutingAssumption DEF Shrinks
    <3> QED
      BY <3>1, <3>2
  <2> QED
    BY <2>1, <2>2, <2>3
<1>4. CASE p.ct[c].fh # "closed"
  BY <1>4 DEF Sent, Shrinks
<1> QED
  BY <1>3, <1>4

\* A request of the config class changes what its client has set, and is
\* answered.
Set(c, toself, allowin, urls, regs) ==
  [pg EXCEPT !.ct = [pg.ct EXCEPT ![c] =
                       [pg.ct[c] EXCEPT !.toself = toself, !.allowin = allowin,
                                        !.register = urls]],
             !.registrations = regs]

LEMMA SetIs ==
  ASSUME Good(pg), NEW c \in Clients, NEW toself \in BOOLEAN,
         NEW allowin \in BOOLEAN, NEW urls \in SUBSET Urls,
         NEW regs \in SUBSET (Urls \X Clients)
  PROVE  LET q == Set(c, toself, allowin, urls, regs)
         IN  q \in Knowledge /\ Matches(q) /\ Shrinks(pg, q)
<1> DEFINE r == [pg.ct[c] EXCEPT !.toself = toself, !.allowin = allowin,
                                 !.register = urls]
           q == Set(c, toself, allowin, urls, regs)
<1>1. pg \in Knowledge /\ pg.ct \in [Clients -> CtState] /\ pg.ct[c] \in CtState
  BY KnowledgeIs DEF Good
<1>2. r \in CtState /\ r.calls = pg.ct[c].calls /\ r.fh = pg.ct[c].fh
  BY <1>1 DEF CtState
<1>3. q = [pg EXCEPT !.ct = [pg.ct EXCEPT ![c] = r], !.registrations = regs]
  BY DEF Set
<1> HIDE DEF r, q
<1>4. /\ q.ct = [pg.ct EXCEPT ![c] = r] /\ q.registrations = regs
      /\ q.callobj = pg.callobj /\ q.agi = pg.agi /\ q.callmaking = pg.callmaking
      /\ q.awaiting = pg.awaiting /\ q.received = pg.received
      /\ q.ct \in [Clients -> CtState]
  BY <1>1, <1>2, <1>3 DEF Knowledge
<1>5. q \in Knowledge
  BY <1>1, <1>3, <1>4 DEF Knowledge
<1>6. \A d \in Clients : q.ct[d].calls = pg.ct[d].calls /\ q.ct[d].fh = pg.ct[d].fh
  BY <1>1, <1>2, <1>4
<1>7. Matches(q)
  <2> SUFFICES ASSUME NEW ch \in Channels
               PROVE  /\ \A d \in Clients : q.callobj[ch] = d <=> ch \in q.ct[d].calls
                      /\ q.callobj[ch] # None <=> q.agi[ch] = "attached"
                      /\ q.callobj[ch] # None => q.ct[q.callobj[ch]].fh # "gone"
    BY DEF Matches
  <2>1. pg.callobj[ch] \in Clients \cup {None}
    BY <1>1, KnowledgeIs
  <2> QED
    BY <1>4, <1>6, <2>1, RoutingAssumption DEF Good, Matches
<1>8. Shrinks(pg, q)
  BY <1>4, <1>6 DEF Shrinks
<1> QED
  BY <1>5, <1>7, <1>8 DEF q

LEMMA SetShrinks ==
  ASSUME Good(pg), NEW c \in Clients, NEW toself \in BOOLEAN,
         NEW allowin \in BOOLEAN, NEW urls \in SUBSET Urls,
         NEW regs \in SUBSET (Urls \X Clients), NEW m,
         Say(Set(c, toself, allowin, urls, regs), c, m)
  PROVE  Shrinks(pg, pg') /\ Tells(c, m)
<1> DEFINE q == Set(c, toself, allowin, urls, regs)
<1>1. q \in Knowledge /\ Matches(q) /\ Shrinks(pg, q)
  BY SetIs
<1>2. Say(q, c, m)
  OBVIOUS
<1> HIDE DEF q
<1>3. pg' = Sent(q, c) /\ Heard(q, c, m)
  BY <1>2 DEF Say
<1> QED
  BY <1>1, <1>3, SentShrinks, ShrinksTwice, HeardTells

LEMMA ConfigShrinks ==
  ASSUME Good(pg), NEW c \in Clients, NEW m,
         \/ m \in BOOLEAN /\ Start(c, m)
         \/ \E url \in Urls : Reg(c, url) \/ Unreg(c, url)
         \/ AllowIn(c) \/ StopIn(c)
  PROVE  /\ Shrinks(pg, pg') /\ UNCHANGED astVars
         /\ \E type \in {"STARTED", "REGED", "UNREGED", "ALLOWEDIN", "STOPPEDIN"} :
              Tells(c, Message(type))
<1> DEFINE s == pg.ct[c]
           regs == pg.registrations
           urls == s.register
<1>1. pg \in Knowledge /\ pg.ct \in [Clients -> CtState] /\ s \in CtState
  BY KnowledgeIs DEF Good
<1>2. /\ s.toself \in BOOLEAN /\ s.allowin \in BOOLEAN /\ s.register \in SUBSET Urls
      /\ regs \in SUBSET (Urls \X Clients)
  BY <1>1, KnowledgeIs DEF CtState
<1>3. \A u, a : [s EXCEPT !.register = u]
                = [s EXCEPT !.toself = s.toself, !.allowin = s.allowin, !.register = u]
  BY <1>1 DEF CtState
<1>4. [s EXCEPT !.toself = s.toself, !.allowin = s.allowin, !.register = s.register] = s
  BY <1>1 DEF CtState
<1>5. \A rs : [pg EXCEPT !.registrations = rs] = Set(c, s.toself, s.allowin, urls, rs)
  <2>1. [pg.ct EXCEPT ![c] = s] = pg.ct
    BY <1>1
  <2> QED
    BY <1>1, <1>4, <2>1 DEF Set, Knowledge
<1>6. \A us : [pg EXCEPT !.ct[c].register = us] = Set(c, s.toself, s.allowin, us, regs)
  BY <1>1, <1>3 DEF Set, Knowledge
<1>7. ASSUME m \in BOOLEAN, Start(c, m)
      PROVE  Shrinks(pg, pg') /\ Tells(c, Message("STARTED"))
  <2>1. [s EXCEPT !.toself = @ \/ m]
        = [s EXCEPT !.toself = s.toself \/ m, !.allowin = s.allowin,
                    !.register = s.register]
    BY <1>1 DEF CtState
  <2>2. [pg EXCEPT !.ct[c].toself = @ \/ m]
        = Set(c, s.toself \/ m, s.allowin, urls, regs)
    BY <1>1, <2>1 DEF Set, Knowledge
  <2>3. Say(Set(c, s.toself \/ m, s.allowin, urls, regs), c, Message("STARTED"))
    BY <1>7, <2>2 DEF Start
  <2>4. (s.toself \/ m) \in BOOLEAN
    OBVIOUS
  <2> QED
    BY <1>2, <2>3, <2>4, SetShrinks
<1>8. ASSUME NEW rs \in SUBSET (Urls \X Clients), NEW type,
             Say([pg EXCEPT !.registrations = rs], c, Message(type))
      PROVE  Shrinks(pg, pg') /\ Tells(c, Message(type))
  BY <1>2, <1>5, <1>8, SetShrinks
<1>9. ASSUME NEW us \in SUBSET Urls, NEW type,
             Say([pg EXCEPT !.ct[c].register = us], c, Message(type))
      PROVE  Shrinks(pg, pg') /\ Tells(c, Message(type))
  BY <1>2, <1>6, <1>9, SetShrinks
<1>10. ASSUME NEW rs \in SUBSET (Urls \X Clients), NEW type,
              Say([pg EXCEPT !.ct[c].allowin = TRUE, !.registrations = rs],
                  c, Message(type))
       PROVE  Shrinks(pg, pg') /\ Tells(c, Message(type))
  <2>1. [s EXCEPT !.allowin = TRUE]
        = [s EXCEPT !.toself = s.toself, !.allowin = TRUE, !.register = s.register]
    BY <1>1 DEF CtState
  <2>2. [pg EXCEPT !.ct[c].allowin = TRUE, !.registrations = rs]
        = Set(c, s.toself, TRUE, urls, rs)
    BY <1>1, <2>1 DEF Set, Knowledge
  <2>3. Say(Set(c, s.toself, TRUE, urls, rs), c, Message(type))
    BY <1>10, <2>2
  <2> HIDE DEF s, urls, regs
  <2> QED
    BY <1>2, <2>3, SetShrinks DEF urls
<1>11. ASSUME NEW url \in Urls, Reg(c, url)
       PROVE  Shrinks(pg, pg') /\ Tells(c, Message("REGED"))
  <2>1. CASE s.allowin
    <3>1. regs \cup {<<url, c>>} \in SUBSET (Urls \X Clients)
      BY <1>2
    <3>2. Say([pg EXCEPT !.registrations = regs \cup {<<url, c>>}], c, Message("REGED"))
      BY <1>11, <2>1 DEF Reg
    <3> QED
      BY <1>8, <3>1, <3>2
  <2>2. CASE ~s.allowin
    <3>1. urls \cup {url} \in SUBSET Urls
      BY <1>2
    <3>2. Say([pg EXCEPT !.ct[c].register = urls \cup {url}], c, Message("REGED"))
      BY <1>11, <2>2 DEF Reg
    <3> QED
      BY <1>9, <3>1, <3>2
  <2> QED
    BY <2>1, <2>2
<1>12. ASSUME NEW url \in Urls, Unreg(c, url)
       PROVE  Shrinks(pg, pg') /\ Tells(c, Message("UNREGED"))
  <2>1. CASE s.allowin
    <3>1. regs \ {<<url, c>>} \in SUBSET (Urls \X Clients)
      BY <1>2
    <3>2. Say([pg EXCEPT !.registrations = regs \ {<<url, c>>}], c, Message("UNREGED"))
      BY <1>12, <2>1 DEF Unreg
    <3> QED
      BY <1>8, <3>1, <3>2
  <2>2. CASE ~s.allowin
    <3>1. urls \ {url} \in SUBSET Urls
      BY <1>2
    <3>2. Say([pg EXCEPT !.ct[c].register = urls \ {url}], c, Message("UNREGED"))
      BY <1>12, <2>2 DEF Unreg
    <3> QED
      BY <1>9, <3>1, <3>2
  <2> QED
    BY <2>1, <2>2
<1>13. CASE AllowIn(c)
  <2>1. regs \cup (urls \X {c}) \in SUBSET (Urls \X Clients)
    BY <1>2
  <2>2. Say([pg EXCEPT !.ct[c].allowin = TRUE, !.registrations = regs \cup (urls \X {c})],
            c, Message("ALLOWEDIN"))
    BY <1>13 DEF AllowIn
  <2> QED
    BY <1>10, <1>13, <2>1, <2>2 DEF AllowIn, astVars
<1>14. CASE StopIn(c)
  <2>1. regs \ (urls \X {c}) \in SUBSET (Urls \X Clients)
    BY <1>2
  <2>2. Say([pg EXCEPT !.ct[c].allowin = TRUE, !.registrations = regs \ (urls \X {c})],
            c, Message("STOPPEDIN"))
    BY <1>14 DEF StopIn
  <2> QED
    BY <1>10, <1>14, <2>1, <2>2 DEF StopIn, astVars
<1> QED
  BY <1>7, <1>11, <1>12, <1>13, <1>14 DEF Start, Reg, Unreg, astVars

LEMMA FinishedShrinks ==
  ASSUME Good(pg), NEW ch \in Channels, pg.callobj[ch] # None, NEW type,
         AgiFinished(ch, type)
  PROVE  /\ pg.callobj[ch] \in Clients /\ Shrinks(pg, pg')
         /\ pg'.agi[ch] = "closed" /\ Tells(pg.callobj[ch], AboutCall(type, ch))
<1> DEFINE c == pg.callobj[ch]
           q == Over(ch)
<1>1. Say(q, c, AboutCall(type, ch))
  BY DEF AgiFinished, Over
<1>2. /\ c \in Clients /\ pg.agi[ch] = "attached" /\ q \in Knowledge /\ Matches(q)
      /\ q.callobj[ch] = None /\ q.agi[ch] = "closed"
      /\ \A x \in Channels : x # ch => /\ q.callobj[x] = pg.callobj[x]
                                       /\ q.agi[x] = pg.agi[x]
      /\ \A d \in Clients : q.ct[d].fh = pg.ct[d].fh
  BY FinishedFine DEF Fine, Good
<1>3. /\ q.callmaking = pg.callmaking /\ q.awaiting = pg.awaiting
      /\ q.received = pg.received
  BY DEF Over, Good, Knowledge
<1> HIDE DEF c, q
<1>4. Shrinks(pg, q)
  BY <1>2, <1>3 DEF Shrinks
<1>5. pg' = Sent(q, c) /\ Heard(q, c, AboutCall(type, ch))
  BY <1>1 DEF Say
<1>6. Shrinks(q, pg')
  BY <1>2, <1>5, SentShrinks
<1>7. pg'.agi[ch] = "closed"
  BY <1>2, <1>6 DEF Shrinks
<1>8. Tells(c, AboutCall(type, ch))
  BY <1>5, HeardTells
<1> QED
  BY <1>2, <1>4, <1>6, <1>7, <1>8, ShrinksTwice DEF c

\* A connection to a client that is found closed.
LEMMA ClosedShrinks ==
  ASSUME NEW p \in Knowledge, NEW c \in Clients, p.ct[c].fh \in {"open", "closed"}
  PROVE  Shrinks(p, [p EXCEPT !.ct[c].fh = "closed"])
<1> DEFINE r == [p.ct[c] EXCEPT !.fh = "closed"]
           q == [p EXCEPT !.ct[c].fh = "closed"]
<1>1. p.ct \in [Clients -> CtState] /\ p.ct[c] \in CtState
  BY KnowledgeIs
<1>2. /\ q.callobj = p.callobj /\ q.agi = p.agi /\ q.callmaking = p.callmaking
      /\ q.awaiting = p.awaiting /\ q.received = p.received
      /\ q.ct = [p.ct EXCEPT ![c] = r]
  BY DEF Knowledge
<1>3. r.fh = "closed"
  BY <1>1 DEF CtState
<1> HIDE DEF r, q
<1>4. \A d \in Clients : q.ct[d].fh = "open" => p.ct[d].fh = "open"
  BY <1>1, <1>2, <1>3
<1>5. Shrinks(p, q)
  BY <1>2, <1>4 DEF Shrinks
<1> QED
  BY <1>5 DEF q

LEMMA StopShrinks ==
  ASSUME Good(pg), NEW c \in Clients, Stop(c)
  PROVE  Shrinks(pg, pg') /\ Tells(c, Message("STOPPED")) /\ UNCHANGED astVars
<1> DEFINE p == Sent(pg, c)
<1>1. pg \in Knowledge /\ Matches(pg)
  BY DEF Good
<1>2. Shrinks(pg, p)
  BY <1>1, SentShrinks
<1>3. CASE pg.ct[c].fh = "open"
  <2>1. p = pg
    BY <1>3 DEF Sent
  <2>2. pg' = [pg EXCEPT !.ct[c].fh = "closed"]
    BY <1>3, <2>1 DEF Stop
  <2> QED
    BY <1>1, <1>3, <2>2, ClosedShrinks, HeardTells DEF Stop, astVars
<1>4. CASE pg.ct[c].fh # "open"
  <2>1. pg' = p
    BY <1>2, <1>4 DEF Stop, Shrinks
  <2> QED
    BY <1>2, <2>1, HeardTells DEF Stop, astVars
<1> QED
  BY <1>3, <1>4

\* What is said of a call that is over, or of none.
Ends(d, n) ==
  /\ n.type \notin {"INCOMING", "MADECALL"}
  /\ d = Vglue => \A ch \in Channels : n.call = ch => pg'.agi[ch] = "closed"

LEMMA PlainEnds ==
  ASSUME NEW d, NEW type \in (Requests \cup Told) \ {"INCOMING", "MADECALL"}
  PROVE  Ends(d, Message(type))
BY RoutingAssumption DEF Ends, Message

\* What a request that makes no call does.
LEMMA RequestShrinks ==
  ASSUME IInv, NEW c \in Clients, NEW m \in FromClient(c), HandleMsg(c, m),
         m.type # "MAKECALL",
         c = Vglue => \A ch \in Channels : m.call = ch => Taken(pg, ch)
  PROVE  /\ Shrinks(pg, pg') /\ originating' = originating
         /\ \E d \in Clients : \E n : Tells(d, n) /\ Ends(d, n)
         /\ \A ch \in Channels :
              /\ caller'[ch].line = caller[ch].line /\ caller'[ch].leg = caller[ch].leg
              /\ caller[ch].bye => caller'[ch].bye
         /\ \A ch \in Channels : m = AboutCall("RELEASE", ch) => pg'.callobj[ch] = None
         /\ \A ch \in Channels : m = AboutCall("HANGUP", ch) =>
              pg'.callobj[ch] = None \/ caller'[ch].bye
<1>1. /\ m.toself \in BOOLEAN
      /\ m.type \in {"RELEASE", "HANGUP"} => m.call \in Channels
      /\ m.type \in {"REG", "UNREG"} => m.url \in Urls
  BY DEF FromClient, Messages
<1>2. Good(pg) /\ pg \in Knowledge /\ Matches(pg) /\ caller \in [Channels -> CallState]
  BY DEF IInv, Good, AsteriskTyped
<1>3. \A ch, type : AboutCall(type, ch).type = type /\ AboutCall(type, ch).call = ch
  BY DEF AboutCall, Message
<1>4. CASE m.type = "START" /\ Start(c, m.toself)
  <2>1. /\ Shrinks(pg, pg') /\ UNCHANGED astVars
        /\ \E type \in {"STARTED", "REGED", "UNREGED", "ALLOWEDIN", "STOPPEDIN"} :
             Tells(c, Message(type))
    BY <1>1, <1>2, <1>4, ConfigShrinks
  <2> QED
    BY <1>3, <1>4, <2>1, PlainEnds DEF Told, Requests, astVars
<1>5. CASE \/ m.type = "REG" /\ Reg(c, m.url)
           \/ m.type = "UNREG" /\ Unreg(c, m.url)
           \/ m.type = "ALLOWIN" /\ AllowIn(c)
           \/ m.type = "STOPIN" /\ StopIn(c)
  <2>1. /\ Shrinks(pg, pg') /\ UNCHANGED astVars
        /\ \E type \in {"STARTED", "REGED", "UNREGED", "ALLOWEDIN", "STOPPEDIN"} :
             Tells(c, Message(type))
    BY <1>1, <1>2, <1>5, ConfigShrinks
  <2> QED
    BY <1>3, <1>5, <2>1, PlainEnds DEF Told, Requests, astVars
<1>6. CASE m.type = "STOP" /\ Stop(c)
  BY <1>2, <1>3, <1>6, StopShrinks, PlainEnds DEF Told, Requests, astVars
<1>7. CASE m.type = "RELEASE" /\ Release(c, m.call)
  <2> DEFINE ch == m.call
  <2>1. ch \in Channels /\ UNCHANGED astVars
    BY <1>1, <1>7 DEF Release, astVars
  <2>2. CASE pg.callobj[ch] = None
    <3>1. pg' = Sent(pg, c) /\ Heard(pg, c, AboutCall("RELEASE", ch))
      BY <1>7, <2>2 DEF Release, Say
    <3>2. Shrinks(pg, pg') /\ Tells(c, AboutCall("RELEASE", ch))
      BY <1>2, <3>1, SentShrinks, HeardTells
    <3>3. pg'.callobj[ch] = None
      BY <2>1, <2>2, <3>2 DEF Shrinks
    <3>4. Ends(c, AboutCall("RELEASE", ch))
      <4>1. c = Vglue => pg.agi[ch] = "closed"
        BY <1>2, <2>1, <2>2 DEF Matches, Taken
      <4>2. pg.agi[ch] = "closed" => pg'.agi[ch] = "closed"
        BY <2>1, <3>2 DEF Shrinks
      <4> QED
        BY <1>3, <4>1, <4>2 DEF Ends
    <3> QED
      BY <1>3, <1>7, <2>1, <3>2, <3>3, <3>4 DEF astVars
  <2>3. CASE pg.callobj[ch] # None
    <3>1. /\ pg.callobj[ch] \in Clients /\ Shrinks(pg, pg') /\ pg'.agi[ch] = "closed"
          /\ Tells(pg.callobj[ch], AboutCall("RELEASED", ch))
      BY <1>2, <1>7, <2>1, <2>3, FinishedShrinks DEF Release
    <3>2. pg'.callobj[ch] = None
      <4>1. pg.agi[ch] = "attached"
        BY <1>2, <2>1, <2>3 DEF Matches
      <4> QED
        BY <2>1, <3>1, <4>1 DEF Shrinks
    <3>3. Ends(pg.callobj[ch], AboutCall("RELEASED", ch))
      BY <1>3, <3>1 DEF Ends
    <3> QED
      BY <1>3, <1>7, <2>1, <3>1, <3>2, <3>3 DEF astVars
  <2> QED
    BY <2>2, <2>3
<1>8. CASE m.type = "HANGUP" /\ Hangup(c, m.call)
  <2> DEFINE ch == m.call
  <2>1. ch \in Channels /\ originating' = originating
    BY <1>1, <1>8 DEF Hangup
  <2>2. CASE pg.callobj[ch] = None
    <3>1. /\ pg' = Sent(pg, c) /\ Heard(pg, c, AboutCall("HUNGUP", ch))
          /\ UNCHANGED caller
      BY <1>8, <2>2 DEF Hangup, Say
    <3>2. Shrinks(pg, pg') /\ Tells(c, AboutCall("HUNGUP", ch))
      BY <1>2, <3>1, SentShrinks, HeardTells
    <3>3. pg'.callobj[ch] = None
      BY <2>1, <2>2, <3>2 DEF Shrinks
    <3>4. Ends(c, AboutCall("HUNGUP", ch))
      <4>1. c = Vglue => pg.agi[ch] = "closed"
        BY <1>2, <2>1, <2>2 DEF Matches, Taken
      <4>2. pg.agi[ch] = "closed" => pg'.agi[ch] = "closed"
        BY <2>1, <3>2 DEF Shrinks
      <4> QED
        BY <1>3, <4>1, <4>2 DEF Ends
    <3> QED
      BY <1>3, <1>8, <2>1, <3>1, <3>2, <3>3, <3>4
  <2>3. CASE pg.callobj[ch] # None
    <3>1. /\ caller' = [caller EXCEPT ![ch].bye = TRUE]
          /\ UNCHANGED <<pg, toClients>>
      BY <1>8, <2>3 DEF Hangup
    <3>2. ASSUME NEW x \in Channels
          PROVE  /\ caller'[x].line = caller[x].line /\ caller'[x].leg = caller[x].leg
                 /\ caller[x].bye => caller'[x].bye
                 /\ x = ch => caller'[x].bye
      BY <1>2, <2>1, <3>1 DEF CallState
    <3>3. Shrinks(pg, pg')
      BY <3>1 DEF Shrinks
    <3>4. Tells(c, Message("STARTED")) /\ Ends(c, Message("STARTED"))
      BY <3>1, PlainEnds DEF Tells, Told
    <3> QED
      BY <1>3, <1>8, <2>1, <3>2, <3>3, <3>4
  <2> QED
    BY <2>2, <2>3
<1>9. \/ m.type = "START" /\ Start(c, m.toself)
      \/ \/ m.type = "REG" /\ Reg(c, m.url)
         \/ m.type = "UNREG" /\ Unreg(c, m.url)
         \/ m.type = "ALLOWIN" /\ AllowIn(c)
         \/ m.type = "STOPIN" /\ StopIn(c)
      \/ m.type = "STOP" /\ Stop(c)
      \/ m.type = "RELEASE" /\ Release(c, m.call)
      \/ m.type = "HANGUP" /\ Hangup(c, m.call)
  BY DEF HandleMsg
<1> QED
  BY <1>4, <1>5, <1>6, <1>7, <1>8, <1>9

-----------------------------------------------------------------------------
(* Calls that are given to clients.                                         *)

\* A client is told of the call it is given, or it is gone.
LEMMA GivenTells ==
  ASSUME NEW p, Good(p), NEW c \in Clients, NEW ch \in Channels, NEW m,
         p.callobj[ch] = None, p.ct[c].fh # "gone",
         Say(Attached(p, ch, c), c, m)
  PROVE  /\ Shrinks(Attached(p, ch, c), pg') /\ Tells(c, m)
         /\ c \in alive /\ (pg'.callobj[ch] = c \/ pg'.ct[c].fh = "open") =>
              IF c = Vglue THEN fromServer' = Append(fromServer, m)
              ELSE client' = [client EXCEPT ![c] = Reads(@, m)]
<1> DEFINE q == Attached(p, ch, c)
<1>1. q \in Knowledge /\ Matches(q) /\ q.ct[c].fh = p.ct[c].fh
  BY AttachedGood DEF Good
<1>2. Say(q, c, m)
  OBVIOUS
<1> HIDE DEF q
<1>3. pg' = Sent(q, c) /\ Heard(q, c, m)
  BY <1>2 DEF Say
<1>4. /\ Shrinks(q, pg') /\ Tells(c, m)
      /\ q.ct[c].fh = "closed" => pg'.callobj[ch] # c
  BY <1>1, <1>3, SentShrinks, HeardTells
<1>5. q.ct[c].fh \in {"open", "closed"}
  BY <1>1, KnowledgeIs DEF Good, CtState
<1>6. pg'.callobj[ch] = c \/ pg'.ct[c].fh = "open" => q.ct[c].fh = "open"
  BY <1>4, <1>5 DEF Shrinks
<1> QED
  BY <1>3, <1>4, <1>6, HeardTells DEF q

\* A client is told that the call it wanted made failed.
LEMMA FailedTells ==
  ASSUME NEW p, Good(p), NEW mk \in Makes, MakeCallFailed(p, mk)
  PROVE  /\ Shrinks(p, pg') /\ Tells(mk.client, MadeCall(mk, None))
         /\ mk.client \in alive /\ pg'.ct[mk.client].fh = "open" =>
              client' = [client EXCEPT ![mk.client] =
                           Reads(@, MadeCall(mk, None))]
<1> DEFINE c == mk.client
           m == MadeCall(mk, None)
<1>1. c \in Clients /\ c # Vglue /\ p \in Knowledge /\ Matches(p)
  BY DEF Makes, Others, Good
<1>2. CASE p.ct[c].fh = "gone"
  <2>1. pg' = p /\ UNCHANGED toClients
    BY <1>2 DEF MakeCallFailed
  <2> QED
    BY <1>2, <2>1 DEF Shrinks, Tells
<1>3. CASE p.ct[c].fh # "gone"
  <2>1. pg' = Sent(p, c) /\ Heard(p, c, m)
    BY <1>3 DEF MakeCallFailed, Say
  <2>2. Shrinks(p, pg') /\ Tells(c, m)
    BY <1>1, <2>1, SentShrinks, HeardTells
  <2>3. pg'.ct[c].fh = "open" => p.ct[c].fh = "open"
    BY <1>1, <2>2 DEF Shrinks
  <2> QED
    BY <1>1, <2>1, <2>2, <2>3, HeardTells
<1> QED
  BY <1>2, <1>3

\* A connection without a call is parked or closed.
LEMMA AgiSet ==
  ASSUME NEW p \in Knowledge, NEW ch \in Channels, NEW to
  PROVE  LET q == [p EXCEPT !.agi[ch] = to]
         IN  /\ q.callobj = p.callobj /\ q.agi[ch] = to
             /\ \A x \in Channels : x # ch => q.agi[x] = p.agi[x]
             /\ q.callmaking = p.callmaking /\ q.awaiting = p.awaiting
             /\ q.received = p.received /\ q.ct = p.ct
BY DEF Knowledge

-----------------------------------------------------------------------------
(* A step of phoneglue, as far as it is about calls of voiceglue.           *)

Serves ==
  /\ \A ch \in Channels : /\ Taken(pg, ch) => Taken(pg', ch)
                          /\ pg.agi[ch] = "closed" => pg'.agi[ch] = "closed"
  /\ \A ch \in Channels : pg'.callobj[ch] = Vglue =>
       \/ pg.callobj[ch] = Vglue \/ Vglue \notin alive
       \/ fromServer' = Append(fromServer, AboutCall("INCOMING", ch))
  /\ \/ UNCHANGED fromServer
     \/ \E n : /\ fromServer' = Append(fromServer, n)
               /\ \A ch \in Channels : n.call = ch =>
                    /\ Taken(pg', ch)
                    /\ n.type \in {"HUNGUP", "RELEASED"} => pg'.agi[ch] = "closed"

LEMMA TellsServer ==
  ASSUME NEW d, NEW n, Tells(d, n)
  PROVE  \/ UNCHANGED fromServer
         \/ d = Vglue /\ fromServer' = Append(fromServer, n)
<1>1. CASE UNCHANGED toClients
  BY <1>1 DEF toClients
<1> QED
  BY <1>1 DEF Tells

LEMMA ShrinksServes ==
  ASSUME NEW d, NEW n, NEW p, p.callobj = pg.callobj, p.agi = pg.agi,
         Shrinks(p, pg'), Tells(d, n), Ends(d, n)
  PROVE  Serves
<1>1. \A ch \in Channels : /\ Taken(pg, ch) => Taken(pg', ch)
                           /\ pg.agi[ch] = "closed" => pg'.agi[ch] = "closed"
  BY DEF Shrinks, Taken
<1>2. \A ch \in Channels : pg'.callobj[ch] = Vglue => pg.callobj[ch] = Vglue
  BY RoutingAssumption DEF Shrinks
<1>3. \/ UNCHANGED fromServer
      \/ d = Vglue /\ fromServer' = Append(fromServer, n)
  BY TellsServer
<1> QED
  BY <1>1, <1>2, <1>3 DEF Serves, Ends, Taken

\* What is said of calls made is not said to voiceglue.
LEMMA MadeEnds ==
  ASSUME NEW mk \in Makes, NEW n, n.type # "INCOMING", NEW p,
         p.callobj = pg.callobj, p.agi = pg.agi, Shrinks(p, pg'),
         Tells(mk.client, n)
  PROVE  Serves
<1>1. mk.client # Vglue
  BY DEF Makes, Others
<1>2. UNCHANGED fromServer
  BY <1>1 DEF Tells, toClients
<1>4. \A ch \in Channels : /\ Taken(pg, ch) => Taken(pg', ch)
                           /\ pg.agi[ch] = "closed" => pg'.agi[ch] = "closed"
  BY DEF Shrinks, Taken
<1>5. \A ch \in Channels : pg'.callobj[ch] = Vglue => pg.callobj[ch] = Vglue
  BY RoutingAssumption DEF Shrinks
<1> QED
  BY <1>2, <1>4, <1>5 DEF Serves

LEMMA GivenServes ==
  ASSUME NEW p, Good(p), p.callobj = pg.callobj, p.agi = pg.agi,
         NEW c \in Clients, NEW ch \in Channels, NEW m,
         pg.agi[ch] \in {"dump", "parked"}, p.ct[c].fh # "gone",
         m.call = ch, m.type \notin {"HUNGUP", "RELEASED"},
         c = Vglue => m = AboutCall("INCOMING", ch),
         Say(Attached(p, ch, c), c, m)
  PROVE  Serves
<1> DEFINE q == Attached(p, ch, c)
<1>1. p.callobj[ch] = None
  BY DEF Good, Matches
<1>2. /\ q.callobj[ch] = c /\ q.agi[ch] = "attached"
      /\ \A x \in Channels : x # ch => /\ q.callobj[x] = pg.callobj[x]
                                       /\ q.agi[x] = pg.agi[x]
  BY <1>1, AttachedGood
<1>3. /\ Shrinks(q, pg') /\ Tells(c, m)
      /\ Vglue \in alive /\ c = Vglue /\ pg'.callobj[ch] = c =>
           fromServer' = Append(fromServer, m)
  BY <1>1, GivenTells
<1> HIDE DEF q
<1>4. Taken(pg', ch)
  BY <1>2, <1>3 DEF Shrinks, Taken
<1>5. \A x \in Channels : /\ Taken(pg, x) => Taken(pg', x)
                          /\ pg.agi[x] = "closed" => pg'.agi[x] = "closed"
  BY <1>2, <1>3, <1>4 DEF Shrinks, Taken
<1>6. ASSUME NEW x \in Channels, pg'.callobj[x] = Vglue
      PROVE  \/ pg.callobj[x] = Vglue \/ Vglue \notin alive
             \/ fromServer' = Append(fromServer, AboutCall("INCOMING", x))
  <2>1. CASE x = ch
    <3>1. c = Vglue
      BY <1>2, <1>3, <1>6, <2>1, RoutingAssumption DEF Shrinks
    <3> QED
      BY <1>3, <1>6, <2>1, <3>1
  <2>2. CASE x # ch
    BY <1>2, <1>3, <1>6, <2>2, RoutingAssumption DEF Shrinks
  <2> QED
    BY <2>1, <2>2
<1>7. \/ UNCHANGED fromServer
      \/ c = Vglue /\ fromServer' = Append(fromServer, m)
  BY <1>3, TellsServer
<1>8. \A x \in Channels : m.call = x => Taken(pg', x)
  BY <1>4
<1> QED
  BY <1>5, <1>6, <1>7, <1>8 DEF Serves

LEMMA AgiServes ==
  ASSUME NEW p, NEW ch \in Channels, pg.agi[ch] \in {"dump", "parked"},
         p.callobj = pg.callobj, p.agi[ch] \in {"parked", "closed"},
         \A x \in Channels : x # ch => p.agi[x] = pg.agi[x],
         pg' = p, UNCHANGED toClients
  PROVE  Serves
<1>1. \A x \in Channels : /\ Taken(pg, x) => Taken(pg', x)
                          /\ pg.agi[x] = "closed" => pg'.agi[x] = "closed"
  BY DEF Taken
<1>2. \A x \in Channels : pg'.callobj[x] = pg.callobj[x]
  OBVIOUS
<1> QED
  BY <1>1, <1>2 DEF Serves, toClients

LEMMA SameServes ==
  ASSUME pg'.agi = pg.agi, pg'.callobj = pg.callobj, UNCHANGED toClients
  PROVE  Serves
BY DEF Serves, Taken, toClients

LEMMA IncomingServes ==
  ASSUME NEW p, Good(p), p.callobj = pg.callobj, p.agi = pg.agi,
         NEW ch \in Channels, pg.agi[ch] \in {"dump", "parked"},
         IncomingCall(p, ch)
  PROVE  Serves
<1>1. CASE pg' = [p EXCEPT !.agi[ch] = "closed"] /\ UNCHANGED toClients
  <2> DEFINE q == [p EXCEPT !.agi[ch] = "closed"]
  <2>1. /\ q.callobj = pg.callobj /\ q.agi[ch] = "closed"
        /\ \A x \in Channels : x # ch => q.agi[x] = pg.agi[x]
    BY AgiSet DEF Good
  <2>2. pg' = q
    BY <1>1
  <2> HIDE DEF q
  <2> QED
    BY <1>1, <2>1, <2>2, AgiServes
<1>2. ASSUME NEW c \in Clients, p.ct[c].fh # "gone",
             Say(Attached(p, ch, c), c, AboutCall("INCOMING", ch))
      PROVE  Serves
  <2>1. /\ AboutCall("INCOMING", ch).call = ch
        /\ AboutCall("INCOMING", ch).type = "INCOMING"
    BY DEF AboutCall, Message
  <2> QED
    BY <1>2, <2>1, GivenServes
<1>3. CASE UNCHANGED <<pg, toClients>>
  BY <1>3, SameServes
<1>4. Matching(caller[ch].dnis) \subseteq Clients
  BY DEF Matching
<1> QED
  BY <1>1, <1>2, <1>3, <1>4 DEF IncomingCall

LEMMA MadeCallIs ==
  ASSUME NEW mk, NEW ch
  PROVE  /\ MadeCall(mk, ch).type = "MADECALL" /\ MadeCall(mk, ch).make = mk
         /\ MadeCall(mk, ch).call = ch
BY DEF MadeCall, Message

LEMMA OutgoingServes ==
  ASSUME NEW p, Good(p), p.callobj = pg.callobj, p.agi = pg.agi,
         NEW ch \in Channels, pg.agi[ch] \in {"dump", "parked"},
         NEW mk \in Makes, OutgoingCall(p, ch, mk)
  PROVE  Serves
<1>1. mk.client \in Clients /\ mk.client # Vglue
  BY DEF Makes, Others
<1>2. CASE p.ct[mk.client].fh = "gone"
  <2> DEFINE q == [p EXCEPT !.agi[ch] = "closed"]
  <2>1. /\ q.callobj = pg.callobj /\ q.agi[ch] = "closed"
        /\ \A x \in Channels : x # ch => q.agi[x] = pg.agi[x]
    BY AgiSet DEF Good
  <2>2. pg' = q /\ UNCHANGED toClients
    BY <1>2 DEF OutgoingCall
  <2> HIDE DEF q
  <2> QED
    BY <2>1, <2>2, AgiServes
<1>3. CASE p.ct[mk.client].fh # "gone"
  <2>1. Say(Attached(p, ch, mk.client), mk.client, MadeCall(mk, ch))
    BY <1>3 DEF OutgoingCall
  <2> QED
    BY <1>1, <1>3, <2>1, MadeCallIs, GivenServes
<1> QED
  BY <1>2, <1>3

LEMMA FailedServes ==
  ASSUME NEW p, Good(p), p.callobj = pg.callobj, p.agi = pg.agi,
         NEW mk \in Makes, MakeCallFailed(p, mk)
  PROVE  Serves
BY FailedTells, MadeCallIs, MadeEnds

\* What phoneglue knows, but for a call it makes or awaits.
LEMMA OtherGood ==
  ASSUME NEW p, Good(p), NEW q \in Knowledge,
         q.callobj = p.callobj, q.agi = p.agi, q.ct = p.ct
  PROVE  Good(q)
BY DEF Good, Matches

LEMMA LessKnown ==
  ASSUME Good(pg), NEW mk \in Makes, NEW ch \in Channels
  PROVE  LET a == [pg EXCEPT !.awaiting[ch] = None]
             r == [pg EXCEPT !.received = @ \ {ch}]
             m == [pg EXCEPT !.callmaking = @ \ {mk}]
             b == [m EXCEPT !.received = @ \ {ch}]
             w == [m EXCEPT !.awaiting[ch] = mk]
         IN  /\ Good(a) /\ a.callobj = pg.callobj /\ a.agi = pg.agi /\ a.ct = pg.ct
             /\ Good(r) /\ r.callobj = pg.callobj /\ r.agi = pg.agi /\ r.ct = pg.ct
             /\ Good(m) /\ m.callobj = pg.callobj /\ m.agi = pg.agi /\ m.ct = pg.ct
             /\ Good(b) /\ b.callobj = pg.callobj /\ b.agi = pg.agi /\ b.ct = pg.ct
             /\ w.callobj = pg.callobj /\ w.agi = pg.agi /\ w.ct = pg.ct
<1> DEFINE a == [pg EXCEPT !.awaiting[ch] = None]
           r == [pg EXCEPT !.received = @ \ {ch}]
           m == [pg EXCEPT !.callmaking = @ \ {mk}]
           b == [m EXCEPT !.received = @ \ {ch}]
           w == [m EXCEPT !.awaiting[ch] = mk]
<1>1. pg \in Knowledge
  BY DEF Good
<1>2. a \in Knowledge /\ a.callobj = pg.callobj /\ a.agi = pg.agi /\ a.ct = pg.ct
  BY <1>1 DEF Knowledge
<1>3. r \in Knowledge /\ r.callobj = pg.callobj /\ r.agi = pg.agi /\ r.ct = pg.ct
  BY <1>1 DEF Knowledge
<1>4. m \in Knowledge /\ m.callobj = pg.callobj /\ m.agi = pg.agi /\ m.ct = pg.ct
  BY <1>1 DEF Knowledge
<1>5. b \in Knowledge /\ b.callobj = pg.callobj /\ b.agi = pg.agi /\ b.ct = pg.ct
  <2> HIDE DEF m
  <2> QED
    BY <1>4 DEF Knowledge
<1>6. w.callobj = pg.callobj /\ w.agi = pg.agi /\ w.ct = pg.ct
  <2> HIDE DEF m
  <2> QED
    BY <1>4 DEF Knowledge
<1>7. Good(a)
  <2> HIDE DEF a
  <2> QED
    BY <1>2, OtherGood
<1>8. Good(r)
  <2> HIDE DEF r
  <2> QED
    BY <1>3, OtherGood
<1>9. Good(b) /\ Good(m)
  <2> HIDE DEF b, m
  <2> QED
    BY <1>4, <1>5, OtherGood
<1> QED
  BY <1>2, <1>3, <1>4, <1>5, <1>6, <1>7, <1>8, <1>9

\* The events of phoneglue that leave its wires alone.
LEMMA EventServes ==
  ASSUME IInv,
         \/ ManagerEvent
         \/ \E c \in Clients : SeesEof(c) \/ ClientStopped(c)
         \/ \E ch \in Channels : NewAgi(ch) \/ AgiClosed(ch) \/ ReceivedTimeout(ch)
  PROVE  Serves
<1> USE RoutingAssumption
<1>1. Good(pg) /\ pg \in Knowledge /\ Matches(pg)
  BY DEF IInv, Good
<1>3. \A d, p : UNCHANGED toClients => Tells(d, Message("STARTED"))
  BY DEF Tells
<1>4. \A d : Ends(d, Message("STARTED"))
  BY PlainEnds DEF Told
<1>5. ASSUME NEW c \in Clients, SeesEof(c) \/ ClientStopped(c)
      PROVE  Serves
  <2>1. UNCHANGED toClients
    BY <1>5 DEF SeesEof, ClientStopped
  <2>2. Shrinks(pg, pg')
    <3>1. CASE SeesEof(c)
      BY <1>1, <3>1, ClosedShrinks DEF SeesEof
    <3>2. CASE ClientStopped(c)
      <4>1. \A ch \in pg.ct[c].calls : pg.agi[ch] = "attached"
        <5> TAKE ch \in pg.ct[c].calls
        <5>1. ch \in Channels
          BY <1>1, KnowledgeIs DEF CtState
        <5>2. pg.callobj[ch] = c
          BY <1>1, <5>1 DEF Matches
        <5> QED
          BY <1>1, <5>1, <5>2, RoutingAssumption DEF Matches
      <4> QED
        BY <1>1, <3>2, <4>1, RemovedShrinks DEF ClientStopped
    <3> QED
      BY <1>5, <3>1, <3>2
  <2> QED
    BY <1>3, <1>4, <2>1, <2>2, ShrinksServes
<1>6. ASSUME NEW ch \in Channels, NewAgi(ch)
      PROVE  Serves
  <2> DEFINE mk == pg.awaiting[ch]
             a == [pg EXCEPT !.awaiting[ch] = None]
  <2>1. pg.agi[ch] = "dump"
    BY <1>6 DEF NewAgi
  <2>2. \/ mk # None /\ OutgoingCall(a, ch, mk)
        \/ /\ pg' = [pg EXCEPT !.agi[ch] = "parked", !.received = @ \cup {ch}]
           /\ UNCHANGED toClients
        \/ IncomingCall(pg, ch)
    BY <1>6 DEF NewAgi
  <2>3. CASE mk # None /\ OutgoingCall(a, ch, mk)
    <3>1. mk \in Makes
      BY <1>1, <2>3, KnowledgeIs
    <3>2. Good(a) /\ a.callobj = pg.callobj /\ a.agi = pg.agi
      BY <1>1, <3>1, LessKnown
    <3> HIDE DEF a, mk
    <3> QED
      BY <2>1, <2>3, <3>1, <3>2, OutgoingServes
  <2>4. CASE /\ pg' = [pg EXCEPT !.agi[ch] = "parked", !.received = @ \cup {ch}]
             /\ UNCHANGED toClients
    <3>1. /\ pg'.callobj = pg.callobj /\ pg'.agi[ch] = "parked"
          /\ \A x \in Channels : x # ch => pg'.agi[x] = pg.agi[x]
      BY <1>1, <2>4 DEF Knowledge
    <3>2. PICK p : p = pg'
      OBVIOUS
    <3> QED
      BY <2>1, <2>4, <3>1, <3>2, AgiServes
  <2> QED
    BY <1>1, <2>1, <2>2, <2>3, <2>4, IncomingServes
<1>7. ASSUME NEW ch \in Channels, AgiClosed(ch)
      PROVE  Serves
  <2>1. CASE pg.agi[ch] = "attached" /\ AgiFinished(ch, "HUNGUP")
    <3>1. pg.callobj[ch] # None
      BY <1>1, <2>1 DEF Matches
    <3>2. /\ Shrinks(pg, pg') /\ pg'.agi[ch] = "closed"
          /\ Tells(pg.callobj[ch], AboutCall("HUNGUP", ch))
      BY <1>1, <2>1, <3>1, FinishedShrinks
    <3>3. Ends(pg.callobj[ch], AboutCall("HUNGUP", ch))
      BY <3>2 DEF Ends, AboutCall, Message
    <3> QED
      BY <3>2, <3>3, ShrinksServes
  <2>2. CASE /\ pg.agi[ch] = "parked" /\ pg' = [pg EXCEPT !.agi[ch] = "closed"]
             /\ UNCHANGED toClients
    <3> DEFINE q == [pg EXCEPT !.agi[ch] = "closed"]
    <3>1. /\ q.callobj = pg.callobj /\ q.agi[ch] = "closed"
          /\ \A x \in Channels : x # ch => q.agi[x] = pg.agi[x]
      BY <1>1, AgiSet
    <3>2. pg' = q
      BY <2>2
    <3> HIDE DEF q
    <3> QED
      BY <2>2, <3>1, <3>2, AgiServes
  <2> QED
    BY <1>7, <2>1, <2>2 DEF AgiClosed
<1>8. ASSUME NEW ch \in Channels, ReceivedTimeout(ch)
      PROVE  Serves
  <2> DEFINE r == [pg EXCEPT !.received = @ \ {ch}]
  <2>1. r \in Knowledge /\ r.callobj = pg.callobj /\ r.agi = pg.agi /\ r.ct = pg.ct
    BY <1>1 DEF Knowledge
  <2>2. IF pg.agi[ch] = "parked" THEN IncomingCall(r, ch)
        ELSE pg' = r /\ UNCHANGED toClients
    BY <1>8 DEF ReceivedTimeout
  <2> HIDE DEF r
  <2>3. Good(r)
    BY <1>1, <2>1, OtherGood
  <2> QED
    BY <2>1, <2>2, <2>3, IncomingServes, SameServes
<1>9. CASE ManagerEvent
  <2> DEFINE e == Head(manager)
  <2>1. e \in Events
    BY <1>9, HeadTailProperties DEF IInv, AsteriskTyped, ManagerEvent
  <2>2. \/ e.type = "SUCCESS" /\ OriginateSucceeded(e.make, e.call)
        \/ e.type = "FAILURE" /\ OriginateFailed(e.make)
        \/ e.type = "HANGUP" /\ AwaitedHangup(e.call)
    BY <1>9 DEF ManagerEvent
  <2>3. /\ e.type # "FAILURE" => e.call \in Channels
        /\ e.type # "HANGUP" => e.make \in Makes
    BY <2>1 DEF Events
  <2> HIDE DEF e
  <2>4. ASSUME NEW mk \in Makes, NEW ch \in Channels, OriginateSucceeded(mk, ch)
        PROVE  Serves
    <3> DEFINE m == [pg EXCEPT !.callmaking = @ \ {mk}]
               b == [m EXCEPT !.received = @ \ {ch}]
               w == [m EXCEPT !.awaiting[ch] = mk]
    <3>1. /\ Good(m) /\ m.callobj = pg.callobj /\ m.agi = pg.agi
          /\ Good(b) /\ b.callobj = pg.callobj /\ b.agi = pg.agi
          /\ w.callobj = pg.callobj /\ w.agi = pg.agi
      BY <1>1, LessKnown
    <3>2. \/ pg' = m /\ UNCHANGED toClients
          \/ pg.agi[ch] = "parked" /\ OutgoingCall(b, ch, mk)
          \/ pg' = w /\ UNCHANGED toClients
      BY <2>4 DEF OriginateSucceeded
    <3> HIDE DEF m, b, w
    <3> QED
      BY <3>1, <3>2, OutgoingServes, SameServes
  <2>5. ASSUME NEW mk \in Makes, OriginateFailed(mk)
        PROVE  Serves
    <3> DEFINE m == [pg EXCEPT !.callmaking = @ \ {mk}]
    <3>1. m \in Knowledge /\ m.callobj = pg.callobj /\ m.agi = pg.agi /\ m.ct = pg.ct
      BY <1>1 DEF Knowledge
    <3>2. MakeCallFailed(m, mk)
      BY <2>5 DEF OriginateFailed
    <3> HIDE DEF m
    <3> QED
      BY <1>1, <3>1, <3>2, OtherGood, FailedServes
  <2>6. ASSUME NEW ch \in Channels, AwaitedHangup(ch)
        PROVE  Serves
    <3> DEFINE mk == pg.awaiting[ch]
               a == [pg EXCEPT !.awaiting[ch] = None]
    <3>1. CASE mk = None
      BY <2>6, <3>1, SameServes DEF AwaitedHangup
    <3>2. CASE mk # None
      <4>1. mk \in Makes /\ MakeCallFailed(a, mk)
        BY <1>1, <2>6, <3>2, KnowledgeIs DEF AwaitedHangup
      <4>2. Good(a) /\ a.callobj = pg.callobj /\ a.agi = pg.agi
        BY <1>1, <4>1, LessKnown
      <4> HIDE DEF a, mk
      <4> QED
        BY <4>1, <4>2, FailedServes
    <3> QED
      BY <3>1, <3>2
  <2> QED
    BY <2>2, <2>3, <2>4, <2>5, <2>6
<1> QED
  BY <1>5, <1>6, <1>7, <1>8, <1>9

-----------------------------------------------------------------------------
(* Every step keeps the calls of voiceglue served.                          *)

\* What is asked of phoneglue stays on its way until it is done.
Underway ==
  /\ AsksOfKnown(pg, toServer'[Vglue])
  /\ batch'.client = Vglue => AsksOfKnown(pg, batch'.msgs)
  /\ \A ch \in Channels : \A type \in {"RELEASE", "HANGUP"} :
       OnItsWay(ch, type) =>
         \/ OnItsWay(ch, type)' \/ pg'.callobj[ch] # Vglue \/ caller'[ch].bye
  /\ \A ch \in Channels : caller[ch].bye => pg'.callobj[ch] # Vglue \/ caller'[ch].bye

LEMMA Appended ==
  ASSUME NEW S, NEW s \in Seq(S), NEW e \in S
  PROVE  /\ \A i \in 1..Len(Append(s, e)) :
              \/ i \in 1..Len(s) /\ Append(s, e)[i] = s[i]
              \/ Append(s, e)[i] = e
         /\ ToSet(s) \subseteq ToSet(Append(s, e)) /\ e \in ToSet(Append(s, e))
<1>1. /\ Append(s, e) \in Seq(S) /\ Len(Append(s, e)) = Len(s) + 1
      /\ \A i \in 1..Len(s) : Append(s, e)[i] = s[i]
      /\ Append(s, e)[Len(s) + 1] = e
  BY AppendProperties
<1>2. Len(s) \in Nat
  OBVIOUS
<1> DEFINE t == Append(s, e)
<1>3. /\ t \in Seq(S) /\ Len(t) = Len(s) + 1 /\ t[Len(s) + 1] = e
      /\ \A i \in 1..Len(s) : t[i] = s[i]
  BY <1>1
<1> HIDE DEF t
<1>4. \A i \in 1..Len(t) : \/ i \in 1..Len(s) /\ t[i] = s[i]
                           \/ t[i] = e
  <2> TAKE i \in 1..Len(t)
  <2>1. i \in 1..Len(s) \/ i = Len(s) + 1
    BY <1>2, <1>3
  <2> QED
    BY <1>3, <2>1
<1>5. ToSet(s) = {s[i] : i \in 1..Len(s)} /\ ToSet(t) = {t[i] : i \in 1..Len(t)}
  BY <1>3 DEF ToSet
<1>6. ToSet(s) \subseteq ToSet(t) /\ e \in ToSet(t)
  BY <1>2, <1>3, <1>5
<1> QED
  BY <1>4, <1>6 DEF t

LEMMA KnownStill ==
  ASSUME Serves, NEW msgs
  PROVE  /\ AsksOfKnown(pg, msgs) => AsksOfKnown(pg', msgs)
         /\ TellsOfKnown(pg, msgs) => TellsOfKnown(pg', msgs)
         /\ SessionsKnown(pg) /\ session' = session => SessionsKnown(pg)'
BY DEF Serves, AsksOfKnown, TellsOfKnown, SessionsKnown

LEMMA ServesKeeps ==
  ASSUME IInv, IInv', Serving, Serves, Underway, UNCHANGED vglueVars,
         Vglue \in alive => Vglue \in alive', up' => up
  PROVE  Serving'
<1>1. UNCHANGED <<phase, session, unserved>>
  BY DEF vglueVars
<1>2. fromServer \in Seq(ToClients) /\ fromServer' \in Seq(ToClients)
  BY DEF IInv, ClientWires
<1>3. PICK n : \/ UNCHANGED fromServer
               \/ /\ fromServer' = Append(fromServer, n)
                  /\ \A ch \in Channels : n.call = ch =>
                       /\ Taken(pg', ch)
                       /\ n.type \in {"HUNGUP", "RELEASED"} => pg'.agi[ch] = "closed"
  BY DEF Serves
<1>4. /\ \A i \in 1..Len(fromServer') :
           \/ i \in 1..Len(fromServer) /\ fromServer'[i] = fromServer[i]
           \/ fromServer'[i] = n /\ fromServer' = Append(fromServer, n)
      /\ ToSet(fromServer) \subseteq ToSet(fromServer')
      /\ fromServer' = Append(fromServer, n) => n \in ToSet(fromServer')
  <2>1. CASE UNCHANGED fromServer /\ fromServer' # Append(fromServer, n)
    BY <2>1
  <2>2. CASE fromServer' = Append(fromServer, n)
    <3>1. /\ fromServer \in Seq({fromServer[i] : i \in 1..Len(fromServer)} \cup {n})
      BY <1>2
    <3> QED
      BY <2>2, <3>1, Appended
  <2> QED
    BY <1>3, <2>1, <2>2
<1>5. TellsOfKnown(pg, fromServer)' 
  <2>1. TellsOfKnown(pg', fromServer)
    BY KnownStill DEF Serving, VglueKnows
  <2> QED
    BY <1>3, <1>4, <2>1 DEF TellsOfKnown
<1>6. VglueKnows(pg)'
  <2>1. AsksOfKnown(pg', toServer'[Vglue])
    BY KnownStill DEF Underway
  <2>2. batch'.client = Vglue => AsksOfKnown(pg', batch'.msgs)
    BY KnownStill DEF Underway
  <2>3. SessionsKnown(pg)'
    BY <1>1, KnownStill DEF Serving, VglueKnows
  <2> QED
    BY <1>5, <2>1, <2>2, <2>3 DEF VglueKnows, AsksOfKnown
<1>7. CallsServed'
  <2> SUFFICES ASSUME up', phase' # "over", NEW ch \in Channels,
                      pg'.callobj[ch] = Vglue
               PROVE  \/ session'[ch] = "connected"
                      \/ AboutCall("INCOMING", ch) \in ToSet(fromServer')
                      \/ OnItsWay(ch, "RELEASE")' \/ OnItsWay(ch, "HANGUP")'
                      \/ caller'[ch].bye \/ ch \in unserved'
    BY DEF CallsServed
  <2>1. Vglue \in alive
    BY <1>1 DEF Serving
  <2>2. CASE fromServer' = Append(fromServer, AboutCall("INCOMING", ch))
    <3> DEFINE m == AboutCall("INCOMING", ch)
    <3>1. fromServer \in Seq({fromServer[i] : i \in 1..Len(fromServer)} \cup {m})
      BY <1>2
    <3>2. m \in {fromServer[i] : i \in 1..Len(fromServer)} \cup {m}
      OBVIOUS
    <3>3. fromServer' = Append(fromServer, m)
      BY <2>2
    <3> HIDE DEF m
    <3>4. m \in ToSet(fromServer')
      BY <3>1, <3>2, <3>3, Appended
    <3> QED
      BY <3>4 DEF m
  <2>3. CASE pg.callobj[ch] = Vglue
    <3>1. \/ session[ch] = "connected"
          \/ AboutCall("INCOMING", ch) \in ToSet(fromServer)
          \/ OnItsWay(ch, "RELEASE") \/ OnItsWay(ch, "HANGUP")
          \/ caller[ch].bye \/ ch \in unserved
      BY <1>1, <2>3 DEF Serving, CallsServed
    <3> QED
      BY <1>1, <1>4, <3>1 DEF Underway
  <2> QED
    BY <2>1, <2>2, <2>3 DEF Serves
<1> QED
  BY <1>1, <1>6, <1>7 DEF Serving

LEMMA HeadAndTail ==
  ASSUME NEW S, NEW s \in Seq(S), s # <<>>
  PROVE  /\ Tail(s) \in Seq(S) /\ Head(s) = s[1] /\ 1 \in 1..Len(s)
         /\ \A i \in 1..Len(Tail(s)) : i + 1 \in 1..Len(s) /\ Tail(s)[i] = s[i + 1]
         /\ \A e \in ToSet(s) : e = Head(s) \/ e \in ToSet(Tail(s))
<1>1. /\ Head(s) \in S /\ Tail(s) \in Seq(S) /\ Len(Tail(s)) = Len(s) - 1
      /\ \A i \in 1..Len(Tail(s)) : Tail(s)[i] = s[i + 1]
  BY HeadTailProperties
<1>2. Len(s) \in Nat /\ Len(s) # 0 /\ Head(s) = s[1]
  BY EmptySeq
<1> DEFINE t == Tail(s)
<1>3. Len(t) = Len(s) - 1 /\ \A i \in 1..Len(t) : t[i] = s[i + 1]
  BY <1>1
<1> HIDE DEF t
<1>4. \A i \in 1..Len(t) : i + 1 \in 1..Len(s)
  BY <1>2, <1>3
<1>5. ASSUME NEW i \in 1..Len(s)
      PROVE  i = 1 \/ \E j \in 1..Len(t) : s[i] = t[j]
  <2>1. i = 1 \/ (i - 1 \in 1..Len(t) /\ t[i - 1] = s[(i - 1) + 1])
    BY <1>2, <1>3
  <2>2. (i - 1) + 1 = i
    BY <1>2
  <2> QED
    BY <2>1, <2>2
<1>6. ToSet(s) = {s[i] : i \in 1..Len(s)} /\ ToSet(t) = {t[i] : i \in 1..Len(t)}
  BY DEF ToSet
<1>7. \A e \in ToSet(s) : e = Head(s) \/ e \in ToSet(t)
  BY <1>2, <1>5, <1>6
<1> QED
  BY <1>1, <1>2, <1>3, <1>4, <1>7 DEF t

LEMMA Split ==
  ASSUME NEW S, NEW s \in Seq(S), NEW n \in 1..Len(s)
  PROVE  LET a == SubSeq(s, 1, n)
             b == SubSeq(s, n + 1, Len(s))
         IN  /\ a \in Seq(S) /\ b \in Seq(S)
             /\ \A i \in 1..Len(a) : i \in 1..Len(s) /\ a[i] = s[i]
             /\ \A i \in 1..Len(b) : n + i \in 1..Len(s) /\ b[i] = s[n + i]
             /\ \A i \in 1..Len(s) :
                  \/ i \in 1..n /\ s[i] \in ToSet(a)
                  \/ i \in n + 1..Len(s) /\ s[i] \in ToSet(b)
<1> DEFINE a == SubSeq(s, 1, n)
           b == SubSeq(s, n + 1, Len(s))
<1>1. Len(s) \in Nat /\ n \in Nat /\ 1 <= n /\ n <= Len(s)
  OBVIOUS
<1>2. \A i \in 1..n : s[i] \in S
  BY <1>1, ElementOfSeq
<1>3. \A i \in n + 1..Len(s) : s[i] \in S
  BY <1>1, ElementOfSeq
<1>4. a \in Seq(S) /\ Len(a) = n /\ \A i \in 1..n : a[i] = s[i]
  <2>1. /\ a \in Seq(S) /\ Len(a) = IF 1 <= n THEN n - 1 + 1 ELSE 0
        /\ \A i \in 1..n - 1 + 1 : a[i] = s[1 + i - 1]
    BY <1>1, <1>2, SubSeqProperties
  <2> HIDE DEF a
  <2> QED
    BY <1>1, <2>1
<1>5. /\ b \in Seq(S) /\ Len(b) = Len(s) - n
      /\ \A i \in 1..Len(s) - n : b[i] = s[n + i]
  <2>1. /\ b \in Seq(S)
        /\ Len(b) = IF n + 1 <= Len(s) THEN Len(s) - (n + 1) + 1 ELSE 0
        /\ \A i \in 1..Len(s) - (n + 1) + 1 : b[i] = s[(n + 1) + i - 1]
    BY <1>1, <1>3, SubSeqProperties
  <2> HIDE DEF b
  <2> QED
    BY <1>1, <2>1
<1> HIDE DEF a, b
<1>6. ToSet(a) = {a[i] : i \in 1..Len(a)} /\ ToSet(b) = {b[i] : i \in 1..Len(b)}
  BY DEF ToSet
<1>7. ASSUME NEW i \in 1..Len(s)
      PROVE  \/ i \in 1..n /\ s[i] \in ToSet(a)
             \/ i \in n + 1..Len(s) /\ s[i] \in ToSet(b)
  <2>1. CASE i \in 1..n
    BY <1>4, <1>6, <2>1
  <2>2. CASE i \notin 1..n
    <3>1. i \in n + 1..Len(s) /\ i - n \in 1..Len(s) - n /\ n + (i - n) = i
      BY <1>1, <2>2
    <3>2. b[i - n] = s[i]
      BY <1>5, <3>1
    <3> QED
      BY <1>5, <1>6, <3>1, <3>2
  <2> QED
    BY <2>1, <2>2
<1>8. /\ \A i \in 1..Len(a) : i \in 1..Len(s) /\ a[i] = s[i]
      /\ \A i \in 1..Len(b) : n + i \in 1..Len(s) /\ b[i] = s[n + i]
  BY <1>1, <1>4, <1>5
<1> QED
  BY <1>4, <1>5, <1>7, <1>8 DEF a, b

\* Messages that are handled.
LEMMA HandleServes ==
  ASSUME IInv, Serving, HandleBytes
  PROVE  Serves /\ Underway
<1> DEFINE c == batch.client
           msgs == batch.msgs
           m == Head(msgs)
<1>1. /\ msgs # <<>> /\ HandleMsg(c, m) /\ batch' = [batch EXCEPT !.msgs = Tail(@)]
      /\ UNCHANGED <<toServer, manager>>
  BY DEF HandleBytes
<1>2. c \in Clients /\ msgs \in Seq(FromClient(c))
  BY <1>1 DEF IInv, BatchTyped
<1>3. /\ m \in FromClient(c) /\ m = msgs[1] /\ 1 \in 1..Len(msgs)
      /\ \A i \in 1..Len(Tail(msgs)) : i + 1 \in 1..Len(msgs) /\ Tail(msgs)[i] = msgs[i + 1]
      /\ \A e \in ToSet(msgs) : e = m \/ e \in ToSet(Tail(msgs))
  BY <1>1, <1>2, HeadAndTail, HeadTailProperties
<1>4. batch'.client = c /\ batch'.msgs = Tail(msgs)
  BY <1>1 DEF IInv, BatchTyped
<1>5. Good(pg) /\ pg \in Knowledge /\ Matches(pg) /\ caller \in [Channels -> CallState]
  BY DEF IInv, Good, AsteriskTyped
<1> HIDE DEF c, msgs, m
<1>6. /\ AsksOfKnown(pg, toServer[Vglue])
      /\ c = Vglue => AsksOfKnown(pg, msgs)
  BY DEF Serving, VglueKnows, c, msgs
<1>7. c = Vglue => \A ch \in Channels : m.call = ch => Taken(pg, ch)
  BY <1>3, <1>6 DEF AsksOfKnown
<1>8. AsksOfKnown(pg, toServer'[Vglue])
  BY <1>1, <1>6
<1>9. batch'.client = Vglue => AsksOfKnown(pg, batch'.msgs)
  BY <1>3, <1>4, <1>6 DEF AsksOfKnown
<1>10. ASSUME \A ch \in Channels : \A type \in {"RELEASE", "HANGUP"} :
                m = AboutCall(type, ch) => pg'.callobj[ch] # Vglue \/ caller'[ch].bye,
              \A ch \in Channels : caller[ch].bye => caller'[ch].bye
       PROVE  Underway
  <2>1. ASSUME NEW ch \in Channels, NEW type \in {"RELEASE", "HANGUP"},
               OnItsWay(ch, type)
        PROVE  OnItsWay(ch, type)' \/ pg'.callobj[ch] # Vglue \/ caller'[ch].bye
    <3>1. CASE AboutCall(type, ch) \in ToSet(toServer[Vglue])
      BY <1>1, <3>1 DEF OnItsWay
    <3>2. CASE c = Vglue /\ AboutCall(type, ch) \in ToSet(msgs)
      <4>1. AboutCall(type, ch) = m \/ AboutCall(type, ch) \in ToSet(Tail(msgs))
        BY <1>3, <3>2
      <4>2. CASE AboutCall(type, ch) = m
        BY <1>10, <4>2
      <4>3. CASE AboutCall(type, ch) \in ToSet(Tail(msgs))
        BY <1>4, <3>2, <4>3 DEF OnItsWay
      <4> QED
        BY <4>1, <4>2, <4>3
    <3> QED
      BY <2>1, <3>1, <3>2 DEF OnItsWay, c, msgs
  <2> QED
    BY <1>8, <1>9, <1>10, <2>1 DEF Underway
<1>11. CASE m.type # "MAKECALL"
  <2>1. /\ Shrinks(pg, pg')
        /\ \E d \in Clients : \E n : Tells(d, n) /\ Ends(d, n)
        /\ \A ch \in Channels : caller[ch].bye => caller'[ch].bye
        /\ \A ch \in Channels : m = AboutCall("RELEASE", ch) => pg'.callobj[ch] = None
        /\ \A ch \in Channels : m = AboutCall("HANGUP", ch) =>
             pg'.callobj[ch] = None \/ caller'[ch].bye
    BY <1>1, <1>2, <1>3, <1>7, <1>11, RequestShrinks
  <2>2. Serves
    BY <2>1, ShrinksServes
  <2>3. Underway
    BY <1>10, <2>1, RoutingAssumption
  <2> QED
    BY <2>2, <2>3
<1>12. CASE m.type = "MAKECALL"
  <2>1. MakeCall(c, m.make) /\ m.make \in Makes /\ m.make.client = c
    BY <1>1, <1>3, <1>12 DEF HandleMsg, FromClient
  <2>2. Underway
    <3>1. \A ch, type : AboutCall(type, ch).type = type
      BY DEF AboutCall, Message
    <3> QED
      BY <1>10, <1>12, <2>1, <3>1 DEF MakeCall
  <2>3. CASE Say(pg, c, MadeCall(m.make, None))
    <3>1. pg' = Sent(pg, c) /\ Heard(pg, c, MadeCall(m.make, None))
      BY <2>3 DEF Say
    <3>2. Shrinks(pg, pg') /\ Tells(c, MadeCall(m.make, None))
      BY <1>2, <1>5, <3>1, SentShrinks, HeardTells
    <3>3. MadeCall(m.make, None).type # "INCOMING"
      BY MadeCallIs
    <3> QED
      BY <2>1, <2>2, <3>2, <3>3, MadeEnds
  <2>4. CASE /\ pg' = [pg EXCEPT !.callmaking = @ \cup {m.make}]
             /\ UNCHANGED toClients
    <3>1. pg'.callobj = pg.callobj /\ pg'.agi = pg.agi
      BY <1>5, <2>4 DEF Knowledge
    <3> QED
      BY <2>2, <2>4, <3>1, SameServes
  <2> QED
    BY <2>1, <2>3, <2>4 DEF MakeCall
<1> QED
  BY <1>11, <1>12

\* Messages that are read.
LEMMA ReadServes ==
  ASSUME IInv, Serving, NEW c \in Clients, ReadBytes(c)
  PROVE  Serves /\ Underway
<1> DEFINE s == toServer[c]
<1>1. PICK n \in 1..Len(s) :
        /\ batch' = [client |-> c, msgs |-> SubSeq(s, 1, n)]
        /\ toServer' = [toServer EXCEPT ![c] = SubSeq(s, n + 1, Len(s))]
  BY DEF ReadBytes
<1>2. batch.msgs = <<>> /\ UNCHANGED <<pg, toClients, astVars>>
  BY DEF ReadBytes, Idle
<1>3. s \in Seq(FromClient(c)) /\ toServer \in [Clients -> Seq(Messages)]
  BY DEF IInv, RequestWire
<1> DEFINE a == SubSeq(s, 1, n)
           b == SubSeq(s, n + 1, Len(s))
<1>4. /\ \A i \in 1..Len(a) : i \in 1..Len(s) /\ a[i] = s[i]
      /\ \A i \in 1..Len(b) : n + i \in 1..Len(s) /\ b[i] = s[n + i]
      /\ \A i \in 1..Len(s) : s[i] \in ToSet(a) \/ s[i] \in ToSet(b)
  BY <1>3, Split
<1>5. /\ batch'.client = c /\ batch'.msgs = a /\ toServer'[c] = b
      /\ \A d \in Clients : d # c => toServer'[d] = toServer[d]
  BY <1>1, <1>3
<1> HIDE DEF a, b
<1>6. AsksOfKnown(pg, toServer[Vglue])
  BY DEF Serving, VglueKnows
<1>7. AsksOfKnown(pg, toServer'[Vglue])
  <2>1. CASE c = Vglue
    BY SMTT(60), <1>4, <1>5, <1>6, <2>1 DEF AsksOfKnown
  <2>2. CASE c # Vglue
    BY <1>5, <1>6, <2>2, RoutingAssumption
  <2> QED
    BY <2>1, <2>2
<1>8. batch'.client = Vglue => AsksOfKnown(pg, batch'.msgs)
  BY <1>4, <1>5, <1>6 DEF AsksOfKnown
<1>9. \A e : e \notin ToSet(batch.msgs)
  BY <1>2 DEF ToSet
<1>10. ASSUME NEW ch, NEW type, OnItsWay(ch, type)
       PROVE  OnItsWay(ch, type)'
  <2>1. AboutCall(type, ch) \in ToSet(toServer[Vglue])
    BY <1>9, <1>10 DEF OnItsWay
  <2>2. CASE c = Vglue
    <3>1. PICK i \in 1..Len(s) : s[i] = AboutCall(type, ch)
      BY <2>1, <2>2 DEF ToSet
    <3> QED
      BY <1>4, <1>5, <2>2, <3>1 DEF OnItsWay
  <2>3. CASE c # Vglue
    BY <1>5, <2>1, <2>3, RoutingAssumption DEF OnItsWay
  <2> QED
    BY <2>2, <2>3
<1>11. Underway
  BY <1>2, <1>7, <1>8, <1>10 DEF Underway, astVars
<1> QED
  BY <1>2, <1>11, SameServes

\* Steps that leave alone what is on its way to phoneglue.
LEMMA SameUnderway ==
  ASSUME Serving, UNCHANGED batch, toServer'[Vglue] = toServer[Vglue],
         \A ch \in Channels : caller[ch].bye => pg'.callobj[ch] # Vglue \/ caller'[ch].bye
  PROVE  Underway
BY DEF Serving, VglueKnows, Underway, OnItsWay

LEMMA ServerServes ==
  ASSUME IInv, Serving, ServerStep
  PROVE  Serves /\ Underway
<1>1. CASE HandleBytes
  BY <1>1, HandleServes
<1>2. CASE \E c \in Clients : ReadBytes(c)
  BY <1>2, ReadServes
<1>3. CASE \/ ManagerEvent
           \/ \E c \in Clients : SeesEof(c) \/ ClientStopped(c)
           \/ \E ch \in Channels : NewAgi(ch) \/ AgiClosed(ch) \/ ReceivedTimeout(ch)
  <2>1. UNCHANGED <<batch, toServer, caller>>
    BY <1>3 DEF ManagerEvent, SeesEof, ClientStopped, NewAgi, AgiClosed,
                ReceivedTimeout, astVars
  <2> QED
    BY <1>3, <2>1, EventServes, SameUnderway
<1> QED
  BY <1>1, <1>2, <1>3 DEF ServerStep

\* What Asterisk does is not about calls that voiceglue has.
LEMMA AsteriskServes ==
  ASSUME IInv, Serving, AsteriskStep
  PROVE  Serves /\ Underway
<1>1. /\ Good(pg) /\ pg \in Knowledge /\ Matches(pg)
      /\ caller \in [Channels -> CallState]
  BY DEF IInv, Good, AsteriskTyped
<1>2. ASSUME NEW ch \in Channels, pg.agi[ch] = "none", Connects(ch)
      PROVE  /\ pg'.callobj = pg.callobj /\ pg.callobj[ch] = None
             /\ \A x \in Channels : x # ch => pg'.agi[x] = pg.agi[x]
  <2>1. pg' = [pg EXCEPT !.agi[ch] = "dump"]
    BY <1>2 DEF Connects
  <2>2. pg.callobj[ch] = None
    BY <1>1, <1>2 DEF Matches
  <2> QED
    BY <1>1, <2>1, <2>2, AgiSet
<1>3. ASSUME NEW ch \in Channels, pg.agi[ch] = "none", Connects(ch),
             UNCHANGED <<batch, toServer, toClients>>,
             \A x \in Channels : x # ch => caller'[x].bye = caller[x].bye
      PROVE  Serves /\ Underway
  <2>1. \A x \in Channels : /\ Taken(pg, x) => Taken(pg', x)
                            /\ pg.agi[x] = "closed" => pg'.agi[x] = "closed"
    BY <1>2, <1>3 DEF Taken
  <2>2. Serves
    BY <1>2, <1>3, <2>1 DEF Serves, toClients
  <2>3. Underway
    BY <1>2, <1>3, SameUnderway, RoutingAssumption
  <2> QED
    BY <2>2, <2>3
<1>4. ASSUME UNCHANGED <<pg, batch, toServer, toClients>>,
             \A x \in Channels : caller[x].bye => caller'[x].bye \/ caller[x].line = "idle"
      PROVE  Serves /\ Underway
  <2>1. \A x \in Channels : caller[x].line = "idle" => pg.callobj[x] = None
    BY <1>1 DEF IInv, Unused, Matches
  <2> QED
    BY <1>4, <2>1, SameServes, SameUnderway, RoutingAssumption
<1>5. ASSUME NEW ch \in Channels, CallComes(ch)
      PROVE  Serves /\ Underway
  <2>1. pg.agi[ch] = "none" /\ Connects(ch)
    BY <1>5 DEF CallComes, IInv, Unused
  <2>2. \E new : caller' = [caller EXCEPT ![ch] = new]
    BY <1>5 DEF CallComes
  <2> QED
    BY <1>1, <1>3, <1>5, <2>1, <2>2 DEF CallComes
<1>6. ASSUME NEW ch \in Channels, LegConnects(ch)
      PROVE  Serves /\ Underway
  BY <1>3, <1>6 DEF LegConnects, astVars
<1>7. ASSUME NEW ch \in Channels, AnswerReported(ch) \/ HangsUp(ch)
      PROVE  Serves /\ Underway
  <2>1. PICK line : caller' = [caller EXCEPT ![ch].line = line]
    BY <1>7 DEF AnswerReported, HangsUp
  <2>2. \A x \in Channels : caller'[x].bye = caller[x].bye
    BY <1>1, <2>1 DEF CallState
  <2> QED
    BY <1>4, <1>7, <2>2 DEF AnswerReported, HangsUp, serverVars
<1>8. ASSUME NEW ch \in Channels, NEW mk \in Makes, Answers(ch, mk)
      PROVE  Serves /\ Underway
  <2>1. PICK new : caller' = [caller EXCEPT ![ch] = new]
    BY <1>8 DEF Answers
  <2>2. caller[ch].line = "idle" /\ UNCHANGED <<pg, batch, toServer, toClients>>
    BY <1>8 DEF Answers, serverVars
  <2> QED
    BY <1>1, <1>4, <2>1, <2>2
<1>9. ASSUME NEW mk \in Makes, Fails(mk)
      PROVE  Serves /\ Underway
  BY <1>4, <1>9 DEF Fails, serverVars
<1> QED
  BY <1>5, <1>6, <1>7, <1>8, <1>9 DEF AsteriskStep

LEMMA ClientServes ==
  ASSUME IInv, Serving, NEW c \in Others, ClientStep(c)
  PROVE  Serves /\ Underway /\ (Vglue \in alive => Vglue \in alive')
<1>1. UNCHANGED <<pg, batch, fromServer, caller>>
  BY DEF ClientStep, serverVars, astVars
<1>2. c # Vglue
  BY DEF Others
<1>3. /\ \/ UNCHANGED toServer
         \/ \E m : toServer' = [toServer EXCEPT ![c] = Append(@, m)]
      /\ UNCHANGED alive \/ alive' = alive \ {c}
  BY DEF ClientStep, Configures, Asks, MakesCall, Releases, Request, ClientDies
<1>4. toServer'[Vglue] = toServer[Vglue]
  BY <1>2, <1>3, RoutingAssumption DEF IInv, RequestWire
<1>5. Underway
  BY <1>1, <1>4, SameUnderway
<1>6. Serves
  BY <1>1 DEF Serves, Taken
<1> QED
  BY <1>2, <1>3, <1>5, <1>6

-----------------------------------------------------------------------------
(* The steps of voiceglue.                                                  *)

\* voiceglue asks nothing about calls it was not told of.
MayAsk(m) == /\ m \in Messages
            /\ \A ch \in Channels : m.call = ch => Taken(pg, ch)
Sends == \/ UNCHANGED toServer
         \/ \E m : MayAsk(m) /\ Send(m)

LEMMA SendsKnown ==
  ASSUME IInv, Serving, Sends
  PROVE  /\ AsksOfKnown(pg, toServer'[Vglue])
         /\ ToSet(toServer[Vglue]) \subseteq ToSet(toServer'[Vglue])
         /\ \A m : MayAsk(m) /\ Send(m) => m \in ToSet(toServer'[Vglue])
<1>1. AsksOfKnown(pg, toServer[Vglue]) /\ toServer[Vglue] \in Seq(Messages)
  BY RoutingAssumption DEF Serving, VglueKnows, IInv, RequestWire
<1>2. ASSUME NEW m, MayAsk(m), Send(m)
      PROVE  /\ AsksOfKnown(pg, toServer'[Vglue])
             /\ ToSet(toServer[Vglue]) \subseteq ToSet(toServer'[Vglue])
             /\ m \in ToSet(toServer'[Vglue])
  <2> DEFINE s == toServer[Vglue]
  <2>1. toServer'[Vglue] = Append(s, m)
    BY <1>2, RoutingAssumption DEF Send, IInv, RequestWire
  <2>2. /\ \A i \in 1..Len(Append(s, m)) :
              \/ i \in 1..Len(s) /\ Append(s, m)[i] = s[i]
              \/ Append(s, m)[i] = m
        /\ ToSet(s) \subseteq ToSet(Append(s, m)) /\ m \in ToSet(Append(s, m))
    BY <1>1, <1>2, Appended DEF MayAsk
  <2> QED
    BY <1>1, <1>2, <2>1, <2>2 DEF AsksOfKnown, MayAsk
<1> QED
  BY <1>1, <1>2 DEF Sends

LEMMA VglueKeeps ==
  ASSUME IInv, Serving, UNCHANGED <<pg, batch, caller, up>>, Sends,
         phase' # "over" => phase # "over" /\ UNCHANGED alive,
         session' \in [Channels -> {None, "connected", "hungup"}],
         TellsOfKnown(pg, fromServer'), SessionsKnown(pg)',
         \A ch \in Channels : pg.callobj[ch] = Vglue =>
           /\ session[ch] = "connected" \/ AboutCall("INCOMING", ch) \in ToSet(fromServer) =>
                \/ session'[ch] = "connected"
                \/ AboutCall("INCOMING", ch) \in ToSet(fromServer')
                \/ Send(AboutCall("RELEASE", ch)) \/ Send(AboutCall("HANGUP", ch))
                \/ ch \in unserved'
           /\ ch \in unserved => ch \in unserved'
  PROVE  Serving'
<1>1. /\ AsksOfKnown(pg, toServer'[Vglue])
      /\ ToSet(toServer[Vglue]) \subseteq ToSet(toServer'[Vglue])
      /\ \A m : MayAsk(m) /\ Send(m) => m \in ToSet(toServer'[Vglue])
  BY SendsKnown
<1>2. batch.client = Vglue => AsksOfKnown(pg, batch.msgs)
  BY DEF Serving, VglueKnows
<1>3. VglueKnows(pg)'
  BY <1>1, <1>2 DEF VglueKnows, AsksOfKnown, TellsOfKnown, Taken
<1>4. CallsServed'
  <2> SUFFICES ASSUME up', phase' # "over", NEW ch \in Channels,
                      pg'.callobj[ch] = Vglue
               PROVE  \/ session'[ch] = "connected"
                      \/ AboutCall("INCOMING", ch) \in ToSet(fromServer')
                      \/ OnItsWay(ch, "RELEASE")' \/ OnItsWay(ch, "HANGUP")'
                      \/ caller'[ch].bye \/ ch \in unserved'
    BY DEF CallsServed
  <2>1. pg.callobj[ch] = Vglue
    OBVIOUS
  <2>2. \/ session[ch] = "connected"
        \/ AboutCall("INCOMING", ch) \in ToSet(fromServer)
        \/ OnItsWay(ch, "RELEASE") \/ OnItsWay(ch, "HANGUP")
        \/ caller[ch].bye \/ ch \in unserved
    BY <2>1 DEF Serving, CallsServed
  <2>3. \A type : OnItsWay(ch, type) => OnItsWay(ch, type)'
    BY <1>1 DEF OnItsWay
  <2>4. ASSUME NEW type \in {"RELEASE", "HANGUP"}, Send(AboutCall(type, ch))
        PROVE  OnItsWay(ch, type)'
    <3>1. AboutCall(type, ch) \in Messages /\ AboutCall(type, ch).call = ch
      <4>1. AboutCall(type, ch) \in FromClient(Vglue)
        BY CallRequests, RoutingAssumption
      <4> QED
        BY <4>1 DEF FromClient, AboutCall, Message
    <3>2. Taken(pg, ch)
      <4>1. pg.agi[ch] = "attached"
        BY <2>1, RoutingAssumption DEF IInv, Good, Matches
      <4> QED
        BY <4>1 DEF Taken
    <3>3. MayAsk(AboutCall(type, ch))
      BY <3>1, <3>2 DEF MayAsk
    <3> QED
      BY <1>1, <2>4, <3>3 DEF OnItsWay
  <2>5. CASE session[ch] = "connected" \/ AboutCall("INCOMING", ch) \in ToSet(fromServer)
    BY <2>1, <2>4, <2>5
  <2>6. CASE \/ OnItsWay(ch, "RELEASE") \/ OnItsWay(ch, "HANGUP")
             \/ caller[ch].bye \/ ch \in unserved
    BY <2>1, <2>3, <2>6
  <2> QED
    BY <2>2, <2>5, <2>6
<1>5. phase' # "over" => Vglue \in alive'
  BY DEF Serving
<1> QED
  BY <1>3, <1>4, <1>5 DEF Serving

\* A request that is about no call.
LEMMA PlainSends ==
  ASSUME NEW m \in Messages, m.call = None, Send(m)
  PROVE  Sends
<1>1. None \notin Channels
  BY RoutingAssumption
<1>2. MayAsk(m)
  BY <1>1 DEF MayAsk
<1> QED
  BY <1>2 DEF Sends

LEMMA PlainIsMessage ==
  ASSUME NEW type \in Requests, NEW url \in Urls, NEW toself \in BOOLEAN
  PROVE  /\ Message(type) \in Messages /\ Message(type).call = None
         /\ AboutUrl(type, url) \in Messages /\ AboutUrl(type, url).call = None
         /\ [Message(type) EXCEPT !.toself = toself] \in Messages
         /\ [Message(type) EXCEPT !.toself = toself].call = None
<1>1. Message(type) \in Messages /\ Message(type).call = None
  BY DEF Message, Messages
<1>2. AboutUrl(type, url) \in Messages /\ AboutUrl(type, url).call = None
  BY DEF AboutUrl, Message, Messages
<1>3. /\ [Message(type) EXCEPT !.toself = toself] \in Messages
      /\ [Message(type) EXCEPT !.toself = toself].call = None
  BY DEF Message, Messages
<1> QED
  BY <1>1, <1>2, <1>3

LEMMA BeginServes ==
  ASSUME IInv, Serving, Begin
  PROVE  Serving'
<1>1. PICK toself \in BOOLEAN : Send([Message("START") EXCEPT !.toself = toself])
  BY DEF Begin
<1>2. Sends
  BY <1>1, LifecycleAssumption, PlainIsMessage, PlainSends DEF Requests
<1>3. UNCHANGED <<pg, batch, caller, up, alive, session, fromServer, unserved>> /\ phase # "over"
  BY DEF Begin, serverVars, astVars
<1>4. TellsOfKnown(pg, fromServer') /\ SessionsKnown(pg)'
  BY <1>3 DEF Serving, VglueKnows, SessionsKnown, Taken
<1>5. session' \in [Channels -> {None, "connected", "hungup"}]
  BY <1>3 DEF Serving
<1> QED
  BY <1>2, <1>3, <1>4, <1>5, VglueKeeps

LEMMA InitializeServes ==
  ASSUME IInv, Serving, InitializeCtServer
  PROVE  Serving'
<1>1. PICK request, answer, next :
        /\ Initialize(request, answer, next)
        /\ request # "over" /\ next # "over" /\ answer # "INCOMING"
        /\ next \in {"REG", "ALLOWIN", "run"}
  BY DEF InitializeCtServer
<1>2. PICK n \in 1..Len(fromServer) :
        /\ fromServer' = SubSeq(fromServer, n + 1, Len(fromServer))
        /\ unserved' = unserved \cup
             {ch \in Channels : \E i \in 2..n : fromServer[i] = AboutCall("INCOMING", ch)}
  BY <1>1 DEF Initialize
<1>3. /\ UNCHANGED <<pg, batch, caller, up, alive, session>> /\ phase # "over"
      /\ fromServer # <<>> /\ Head(fromServer).type = answer
  BY <1>1 DEF Initialize, serverVars, astVars
<1>4. Sends
  <2>1. \/ UNCHANGED toServer
        \/ next # "run" /\ Send(IF next = "REG" THEN AboutUrl(next, Registered) ELSE Message(next))
    BY <1>1 DEF Initialize
  <2>2. CASE next = "REG"
    BY <2>1, <2>2, LifecycleAssumption, PlainIsMessage, PlainSends DEF Requests, Sends
  <2>3. CASE next # "REG"
    BY <1>1, <2>1, <2>3, LifecycleAssumption, PlainIsMessage, PlainSends DEF Requests, Sends
  <2> QED
    BY <2>2, <2>3
<1>5. fromServer \in Seq(ToClients)
  BY DEF IInv, ClientWires
<1> DEFINE a == SubSeq(fromServer, 1, n)
           b == SubSeq(fromServer, n + 1, Len(fromServer))
<1>6. /\ \A i \in 1..Len(b) : n + i \in 1..Len(fromServer) /\ b[i] = fromServer[n + i]
      /\ \A i \in 1..Len(fromServer) :
           i \in 1..n \/ (i \in n + 1..Len(fromServer) /\ fromServer[i] \in ToSet(b))
  BY <1>5, Split
<1>7. fromServer' = b
  BY <1>2
<1> HIDE DEF a, b
<1>8. TellsOfKnown(pg, fromServer')
  <2>1. TellsOfKnown(pg, fromServer)
    BY DEF Serving, VglueKnows
  <2>2. \A i \in 1..Len(fromServer') :
           \E j \in 1..Len(fromServer) : fromServer'[i] = fromServer[j]
    BY <1>6, <1>7
  <2> QED
    BY SMTT(60), <2>1, <2>2 DEF TellsOfKnown
<1>9. SessionsKnown(pg)' /\ session' \in [Channels -> {None, "connected", "hungup"}]
  BY <1>3 DEF Serving, VglueKnows, SessionsKnown, Taken
<1>10. ASSUME NEW ch \in Channels, AboutCall("INCOMING", ch) \in ToSet(fromServer)
       PROVE  AboutCall("INCOMING", ch) \in ToSet(fromServer') \/ ch \in unserved'
  <2>1. PICK i \in 1..Len(fromServer) : fromServer[i] = AboutCall("INCOMING", ch)
    BY <1>10 DEF ToSet
  <2>2. i # 1
    <3>1. Head(fromServer) = fromServer[1]
      BY <1>3, <1>5, HeadAndTail
    <3>2. AboutCall("INCOMING", ch).type = "INCOMING"
      BY DEF AboutCall, Message
    <3> QED
      BY <1>1, <1>3, <2>1, <3>1, <3>2
  <2>3. CASE i \in 1..n
    <3>1. i \in 2..n
      BY <2>2, <2>3
    <3> QED
      BY <1>2, <2>1, <3>1
  <2> QED
    BY <1>6, <1>7, <2>1, <2>3
<1> QED
  BY <1>1, <1>2, <1>3, <1>4, <1>8, <1>9, <1>10, VglueKeeps DEF Initialize

LEMMA HandleSatcServes ==
  ASSUME IInv, Serving, HandleMsgFromCtServer
  PROVE  Serving'
<1> DEFINE m == Head(fromServer)
<1>1. /\ phase = "run" /\ fromServer # <<>> /\ fromServer' = Tail(fromServer)
      /\ UNCHANGED <<pg, batch, caller, up, alive, phase>>
  BY DEF HandleMsgFromCtServer, serverVars, astVars
<1>2. \/ m.type = "INCOMING" /\ HandleSatcIncoming(m.call)
      \/ m.type \in {"HUNGUP", "RELEASED"} /\ HandleSatcHungupOrReleased(m.call)
      \/ /\ m.type \notin {"INCOMING", "HUNGUP", "RELEASED"}
         /\ UNCHANGED <<toServer, session, unserved>>
  BY DEF HandleMsgFromCtServer
<1>3. fromServer \in Seq(ToClients)
  BY DEF IInv, ClientWires
<1>4. /\ m \in ToClients /\ m = fromServer[1] /\ 1 \in 1..Len(fromServer)
      /\ \A i \in 1..Len(fromServer') :
           i + 1 \in 1..Len(fromServer) /\ fromServer'[i] = fromServer[i + 1]
      /\ \A e \in ToSet(fromServer) : e = m \/ e \in ToSet(fromServer')
  BY <1>1, <1>3, HeadAndTail, HeadTailProperties
<1> HIDE DEF m
<1>5. /\ TellsOfKnown(pg, fromServer) /\ SessionsKnown(pg)
      /\ session \in [Channels -> {None, "connected", "hungup"}]
  BY DEF Serving, VglueKnows
<1>6. TellsOfKnown(pg, fromServer')
  BY <1>4, <1>5 DEF TellsOfKnown
<1>7. \A ch \in Channels : m.call = ch =>
        /\ Taken(pg, ch)
        /\ m.type \in {"HUNGUP", "RELEASED"} => pg.agi[ch] = "closed"
  BY <1>4, <1>5 DEF TellsOfKnown
<1>8. /\ \A ch : AboutCall("INCOMING", ch).type = "INCOMING"
      /\ \A ch : AboutCall("INCOMING", ch).call = ch
  BY DEF AboutCall, Message
<1>9. ASSUME NEW ch \in Channels, AboutCall("INCOMING", ch) \in ToSet(fromServer)
      PROVE  \/ AboutCall("INCOMING", ch) \in ToSet(fromServer')
             \/ m.type = "INCOMING" /\ m.call = ch
  BY <1>4, <1>8, <1>9
<1>10. CASE m.type = "INCOMING" /\ HandleSatcIncoming(m.call)
  <2> DEFINE x == m.call
  <2>1. x \in Channels /\ Taken(pg, x)
    BY <1>4, <1>7, <1>10 DEF ToClients
  <2>2. CASE /\ session' = [session EXCEPT ![x] = "connected"]
             /\ UNCHANGED <<toServer, unserved>>
    <3>1. /\ session' \in [Channels -> {None, "connected", "hungup"}]
          /\ session'[x] = "connected"
          /\ \A ch \in Channels : ch # x => session'[ch] = session[ch]
      BY <1>5, <2>1, <2>2
    <3>2. SessionsKnown(pg)'
      BY <1>1, <1>5, <2>1, <3>1 DEF SessionsKnown, Taken
    <3> QED
      BY <1>1, <1>6, <1>9, <2>2, <3>1, <3>2, VglueKeeps DEF Sends
  <2>3. CASE Send(AboutCall("HANGUP", x)) /\ UNCHANGED <<session, unserved>>
    <3>1. MayAsk(AboutCall("HANGUP", x))
      <4>1. AboutCall("HANGUP", x) \in FromClient(Vglue)
        BY <2>1, CallRequests, RoutingAssumption
      <4> QED
        BY <2>1, <4>1 DEF FromClient, MayAsk, AboutCall, Message
    <3>2. Sends
      BY <2>3, <3>1 DEF Sends
    <3>3. SessionsKnown(pg)'
      BY <1>1, <1>5, <2>3 DEF SessionsKnown, Taken
    <3> QED
      BY <1>1, <1>5, <1>6, <1>9, <2>3, <3>2, <3>3, VglueKeeps
  <2>4. CASE unserved' = unserved \cup {x} /\ UNCHANGED <<toServer, session>>
    <3>1. SessionsKnown(pg)'
      BY <1>1, <1>5, <2>4 DEF SessionsKnown, Taken
    <3> QED
      BY <1>1, <1>5, <1>6, <1>9, <2>4, <3>1, VglueKeeps DEF Sends
  <2> QED
    BY <1>10, <2>2, <2>3, <2>4 DEF HandleSatcIncoming
<1>11. CASE m.type \in {"HUNGUP", "RELEASED"} /\ HandleSatcHungupOrReleased(m.call)
  <2> DEFINE x == m.call
  <2>1. /\ session' = IF session[x] = None THEN session
                      ELSE [session EXCEPT ![x] = "hungup"]
        /\ UNCHANGED <<toServer, unserved>>
    BY <1>11 DEF HandleSatcHungupOrReleased
  <2>2. /\ session' \in [Channels -> {None, "connected", "hungup"}]
        /\ \A ch \in Channels :
             \/ session'[ch] = session[ch]
             \/ ch = x /\ session[ch] # None /\ session'[ch] = "hungup"
    BY <1>5, <2>1
  <2>3. SessionsKnown(pg)'
    BY <1>1, <1>5, <1>7, <1>11, <2>2 DEF SessionsKnown, Taken
  <2>4. \A ch \in Channels : pg.callobj[ch] = Vglue => ch # x
    <3>1. \A ch \in Channels : pg.callobj[ch] = Vglue => pg.agi[ch] = "attached"
      BY RoutingAssumption DEF IInv, Good, Matches
    <3> QED
      BY <1>7, <1>11, <3>1
  <2> QED
    BY <1>1, <1>6, <1>9, <1>11, <2>1, <2>2, <2>3, <2>4, VglueKeeps DEF Sends
<1>12. CASE /\ m.type \notin {"INCOMING", "HUNGUP", "RELEASED"}
            /\ UNCHANGED <<toServer, session, unserved>>
  <2>1. SessionsKnown(pg)'
    BY <1>1, <1>5, <1>12 DEF SessionsKnown, Taken
  <2> QED
    BY <1>1, <1>5, <1>6, <1>9, <1>12, <2>1, VglueKeeps DEF Sends
<1> QED
  BY <1>2, <1>10, <1>11, <1>12

LEMMA ThreadEndsServes ==
  ASSUME IInv, Serving, NEW ch \in Channels, ThreadEnds(ch)
  PROVE  Serving'
<1>1. /\ phase = "run" /\ session[ch] # None /\ session' = [session EXCEPT ![ch] = None]
      /\ IF session[ch] = "connected" THEN Send(AboutCall("RELEASE", ch))
         ELSE UNCHANGED toServer
      /\ UNCHANGED <<pg, batch, caller, up, alive, phase, fromServer, unserved>>
  BY DEF ThreadEnds, ReleasesCall, serverVars, astVars
<1>2. /\ TellsOfKnown(pg, fromServer) /\ SessionsKnown(pg)
      /\ session \in [Channels -> {None, "connected", "hungup"}]
  BY DEF Serving, VglueKnows
<1>3. /\ Taken(pg, ch) /\ session[ch] \in {"connected", "hungup"}
      /\ session[ch] = "hungup" => pg.agi[ch] = "closed"
  BY <1>1, <1>2 DEF SessionsKnown
<1>4. Sends
  <2>1. MayAsk(AboutCall("RELEASE", ch))
    <3>1. AboutCall("RELEASE", ch) \in FromClient(Vglue)
      BY CallRequests, RoutingAssumption
    <3> QED
      BY <1>3, <3>1 DEF FromClient, MayAsk, AboutCall, Message
  <2> QED
    BY <1>1, <2>1 DEF Sends
<1>5. /\ session' \in [Channels -> {None, "connected", "hungup"}]
      /\ session'[ch] = None
      /\ \A x \in Channels : x # ch => session'[x] = session[x]
  BY <1>1, <1>2
<1>6. SessionsKnown(pg)'
  BY <1>1, <1>2, <1>5 DEF SessionsKnown, Taken
<1>7. \A x \in Channels : pg.callobj[x] = Vglue => pg.agi[x] = "attached"
  BY RoutingAssumption DEF IInv, Good, Matches
<1>8. ASSUME NEW x \in Channels, pg.callobj[x] = Vglue, session[x] = "connected"
      PROVE  session'[x] = "connected" \/ Send(AboutCall("RELEASE", x))
  BY <1>1, <1>5, <1>8
<1> QED
  BY <1>1, <1>2, <1>4, <1>5, <1>6, <1>8, VglueKeeps

LEMMA StopServes ==
  ASSUME IInv, Serving, StopCommand \/ Shutdown
  PROVE  Serving'
<1>1. /\ UNCHANGED <<pg, batch, caller, up, session, fromServer, unserved>>
      /\ phase' # "over" => phase # "over" /\ UNCHANGED alive
      /\ \E type \in {"STOPIN", "STOP"} : Send(Message(type))
  BY DEF StopCommand, Shutdown, serverVars, astVars
<1>2. Sends
  BY <1>1, LifecycleAssumption, PlainIsMessage, PlainSends DEF Requests
<1>3. SessionsKnown(pg)' /\ TellsOfKnown(pg, fromServer')
  BY <1>1 DEF Serving, VglueKnows, SessionsKnown, Taken
<1>4. session' \in [Channels -> {None, "connected", "hungup"}]
  BY <1>1 DEF Serving
<1> QED
  BY <1>1, <1>2, <1>3, <1>4, VglueKeeps

LEMMA VglueStepServes ==
  ASSUME IInv, Serving, VglueStep \/ StopCommand
  PROVE  Serving'
BY BeginServes, InitializeServes, HandleSatcServes, ThreadEndsServes, StopServes
   DEF VglueStep

LEMMA ServingInitially ==
  ASSUME Init
  PROVE  Serving
<1>1. PICK here, regs, free : RoutingInit(here, regs, free)
  BY DEF Init
<1>2. /\ pg.callobj = [ch \in Channels |-> None] /\ batch.client = None
      /\ toServer = [c \in Clients |-> <<>>] /\ fromServer = <<>>
      /\ session = [ch \in Channels |-> None]
  BY <1>1 DEF RoutingInit, Init
<1>3. phase # "over" => Vglue \in alive
  BY DEF Init, RoutingInit
<1>4. VglueKnows(pg)
  BY <1>2, RoutingAssumption DEF VglueKnows, AsksOfKnown, TellsOfKnown, SessionsKnown
<1>5. CallsServed
  BY <1>2, RoutingAssumption DEF CallsServed
<1> QED
  BY <1>2, <1>3, <1>4, <1>5 DEF Serving

LEMMA StepServes ==
  ASSUME IInv, IInv', Serving, [Next]_vars
  PROVE  Serving'
<1>1. CASE ServerStep /\ UNCHANGED vglueVars
  <2>1. Serves /\ Underway
    BY <1>1, ServerServes
  <2>2. UNCHANGED alive /\ (up' => up)
    BY <1>1 DEF ServerStep, HandleBytes, ReadBytes, SeesEof, ClientStopped, NewAgi,
                AgiClosed, ReceivedTimeout, ManagerEvent, Idle
  <2> QED
    BY <1>1, <2>1, <2>2, ServesKeeps
<1>2. CASE AsteriskStep /\ UNCHANGED vglueVars
  <2>1. UNCHANGED <<up, alive>>
    BY <1>2 DEF AsteriskStep, CallComes, AnswerReported, LegConnects, HangsUp,
                Answers, Fails, serverVars
  <2> QED
    BY <1>2, <2>1, AsteriskServes, ServesKeeps
<1>3. CASE (\E c \in Others : ClientStep(c)) /\ UNCHANGED vglueVars
  <2>1. UNCHANGED up
    BY <1>3 DEF ClientStep, serverVars
  <2> QED
    BY <1>3, <2>1, ClientServes, ServesKeeps
<1>4. CASE VglueStep \/ StopCommand
  BY <1>4, VglueStepServes
<1>5. CASE UNCHANGED vars
  BY <1>5 DEF vars, routingVars, vglueVars, serverVars, toClients, astVars, Serving,
              VglueKnows, AsksOfKnown, TellsOfKnown, SessionsKnown, Taken,
              CallsServed, OnItsWay
<1> QED
  BY <1>1, <1>2, <1>3, <1>4, <1>5 DEF Next

\* Every call phoneglue has for voiceglue is served by a thread, or about to be
\* told to it, released or hung up, but for those that were swallowed while
\* voiceglue started or whose thread failed to start: for any number of calls.
THEOREM CallsAreServed == Spec => []CallsServed
<1>1. Init => Serving
  BY ServingInitially
<1>2. IInv /\ IInv' /\ Serving /\ [Next]_vars => Serving'
  BY StepServes
<1>3. Serving => CallsServed
  BY DEF Serving
<1> QED
  BY <1>1, <1>2, <1>3, RoutingInvariant, PTL DEF Spec

-----------------------------------------------------------------------------
(* The calls that clients have made.                                        *)

\* Where a call being made may be.
Holds(seq, mk) == \E i \in 1..Len(seq) : seq[i].make = mk
Once(seq, mk)  == \A i, j \in 1..Len(seq) :
                    seq[i].make = mk /\ seq[j].make = mk => i = j
Asked(mk)      == Holds(toServer[mk.client], mk)
Read(mk)       == Holds(batch.msgs, mk)
Dialled(mk)    == mk \in originating
LegOf(mk)      == \E ch \in Channels : caller[ch].leg = mk
Answered(mk)   == \E ch \in Channels : caller[ch].line = "answered"
                                       /\ caller[ch].leg = mk
Reported(mk)   == Holds(manager, mk)
Making(mk)     == mk \in pg.callmaking
Awaited(mk)    == \E ch \in Channels : pg.awaiting[ch] = mk
Wanted(mk)     == mk \in client[mk.client].making

\* Only the request to make it names a call being made,
OnlyMakes(seq) == \A i \in 1..Len(seq) : seq[i].make # None => seq[i].type = "MAKECALL"

\* and an event that it is hung up names none.
Nameless(seq)  == \A i \in 1..Len(seq) : seq[i].type = "HANGUP" => seq[i].make = None

\* It is in each of these places once,
Alone(mk) ==
  /\ Once(toServer[mk.client], mk) /\ Once(batch.msgs, mk) /\ Once(manager, mk)
  /\ \A a, b \in Channels : caller[a].leg = mk /\ caller[b].leg = mk => a = b

\* phoneglue knows that it is made while Asterisk makes it or tells of it,
Apart(mk) ==
  /\ Asked(mk) => ~Read(mk) /\ ~Making(mk) /\ ~LegOf(mk)
  /\ Read(mk) => ~Making(mk) /\ ~LegOf(mk)
  /\ Awaited(mk) => ~Making(mk)
  /\ Making(mk) <=> (Dialled(mk) \/ Answered(mk) \/ Reported(mk))
  /\ Dialled(mk) => ~LegOf(mk) /\ ~Reported(mk)
  /\ Answered(mk) => ~Reported(mk)

\* it is nowhere before it is made,
Unmade(mk) ==
  mk.client \in alive /\ mk.id > client[mk.client].made =>
    ~Asked(mk) /\ ~Read(mk) /\ ~Making(mk) /\ ~LegOf(mk) /\ ~Wanted(mk)

\* and somewhere until its client is told of it.
Due(mk) ==
  mk.client \in alive /\ pg.ct[mk.client].fh = "open" =>
    (Wanted(mk) <=> (Asked(mk) \/ Read(mk) \/ Making(mk) \/ Awaited(mk)))

Traced ==
  /\ \A c \in Clients : OnlyMakes(toServer[c])
  /\ OnlyMakes(batch.msgs) /\ Nameless(manager)
  /\ \A mk \in Makes : Alone(mk) /\ Apart(mk) /\ Unmade(mk) /\ Due(mk)

-----------------------------------------------------------------------------
(* Sequences of requests and events.                                        *)

LEMMA AppendHolds ==
  ASSUME NEW S, NEW s \in Seq(S), NEW e \in S, NEW mk
  PROVE  /\ Holds(Append(s, e), mk) <=> (Holds(s, mk) \/ e.make = mk)
         /\ Once(s, mk) /\ (e.make = mk => ~Holds(s, mk)) => Once(Append(s, e), mk)
<1> DEFINE t == Append(s, e)
<1>1. /\ Len(t) = Len(s) + 1 /\ t[Len(s) + 1] = e
      /\ \A i \in 1..Len(s) : t[i] = s[i]
  BY AppendProperties
<1>2. Len(s) \in Nat
  OBVIOUS
<1> HIDE DEF t
<1>3. \A i \in 1..Len(t) : i \in 1..Len(s) \/ i = Len(s) + 1
  BY <1>1, <1>2
<1>4. \A i \in 1..Len(s) : i \in 1..Len(t)
  BY <1>1, <1>2
<1>5. Len(s) + 1 \in 1..Len(t)
  BY <1>1, <1>2
<1>6. Holds(t, mk) <=> (Holds(s, mk) \/ e.make = mk)
  BY <1>1, <1>3, <1>4, <1>5 DEF Holds
<1>7. ASSUME Once(s, mk), e.make = mk => ~Holds(s, mk)
      PROVE  Once(t, mk)
  <2> SUFFICES ASSUME NEW i \in 1..Len(t), NEW j \in 1..Len(t),
                      t[i].make = mk, t[j].make = mk
               PROVE  i = j
    BY DEF Once
  <2>1. CASE e.make = mk
    <3>1. \A k \in 1..Len(s) : s[k].make # mk
      BY <1>7, <2>1 DEF Holds
    <3>2. i = Len(s) + 1 /\ j = Len(s) + 1
      BY <1>1, <1>3, <3>1
    <3> QED
      BY <3>2
  <2>2. CASE e.make # mk
    <3>1. i \in 1..Len(s) /\ j \in 1..Len(s)
      BY <1>1, <1>3, <2>2
    <3> QED
      BY <1>1, <1>7, <3>1 DEF Once
  <2> QED
    BY <2>1, <2>2
<1> QED
  BY <1>6, <1>7 DEF t

LEMMA TailHolds ==
  ASSUME NEW S, NEW s \in Seq(S), s # <<>>, NEW mk, Once(s, mk)
  PROVE  /\ Holds(Tail(s), mk) <=> (Holds(s, mk) /\ Head(s).make # mk)
         /\ Head(s).make = mk => Holds(s, mk)
         /\ Once(Tail(s), mk)
<1> DEFINE t == Tail(s)
<1>1. /\ Head(s) = s[1] /\ 1 \in 1..Len(s)
      /\ \A i \in 1..Len(t) : i + 1 \in 1..Len(s) /\ t[i] = s[i + 1]
  BY HeadAndTail
<1>2. Len(t) = Len(s) - 1 /\ Len(s) \in Nat /\ Len(t) \in Nat
  <2>1. Len(t) = Len(s) - 1
    BY HeadTailProperties
  <2>2. Len(s) \in Nat /\ Len(s) # 0
    BY EmptySeq
  <2> QED
    BY <2>1, <2>2
<1> HIDE DEF t
<1>3. Head(s).make = mk => Holds(s, mk)
  BY <1>1 DEF Holds
<1>4. ASSUME Holds(t, mk)
      PROVE  Holds(s, mk) /\ Head(s).make # mk
  <2>1. PICK i \in 1..Len(t) : t[i].make = mk
    BY <1>4 DEF Holds
  <2>2. i + 1 \in 1..Len(s) /\ s[i + 1].make = mk /\ i + 1 # 1
    BY <1>1, <1>2, <2>1
  <2> QED
    BY <1>1, <2>2 DEF Holds, Once
<1>5. ASSUME Holds(s, mk), Head(s).make # mk
      PROVE  Holds(t, mk)
  <2>1. PICK i \in 1..Len(s) : s[i].make = mk
    BY <1>5 DEF Holds
  <2>2. i # 1
    BY <1>1, <1>5, <2>1
  <2>3. i - 1 \in 1..Len(t) /\ (i - 1) + 1 = i
    BY <1>2, <2>2
  <2>4. t[i - 1] = s[i]
    BY <1>1, <2>3
  <2> QED
    BY <2>1, <2>3, <2>4 DEF Holds
<1>6. Once(t, mk)
  <2> SUFFICES ASSUME NEW i \in 1..Len(t), NEW j \in 1..Len(t),
                      t[i].make = mk, t[j].make = mk
               PROVE  i = j
    BY DEF Once
  <2>1. /\ i + 1 \in 1..Len(s) /\ s[i + 1].make = mk
        /\ j + 1 \in 1..Len(s) /\ s[j + 1].make = mk
    BY <1>1
  <2>2. i + 1 = j + 1
    BY <2>1 DEF Once
  <2> QED
    BY <1>2, <2>2
<1> QED
  BY <1>3, <1>4, <1>5, <1>6 DEF t

LEMMA SplitHolds ==
  ASSUME NEW S, NEW s \in Seq(S), NEW n \in 1..Len(s), NEW mk, Once(s, mk)
  PROVE  LET a == SubSeq(s, 1, n)
             b == SubSeq(s, n + 1, Len(s))
         IN  /\ Holds(s, mk) <=> (Holds(a, mk) \/ Holds(b, mk))
             /\ Holds(b, mk) => ~Holds(a, mk)
             /\ Once(a, mk) /\ Once(b, mk)
<1> DEFINE a == SubSeq(s, 1, n)
           b == SubSeq(s, n + 1, Len(s))
<1>1. /\ a \in Seq(S) /\ b \in Seq(S)
      /\ \A i \in 1..Len(a) : i \in 1..Len(s) /\ a[i] = s[i]
      /\ \A i \in 1..Len(b) : n + i \in 1..Len(s) /\ b[i] = s[n + i]
      /\ \A i \in 1..Len(s) : s[i] \in ToSet(a) \/ s[i] \in ToSet(b)
  BY Split
<1>2. n \in Nat /\ Len(a) = n /\ Len(b) \in Nat
  <2>1. n \in Nat /\ 1 <= n /\ n <= Len(s)
    OBVIOUS
  <2>2. \A i \in 1..n : s[i] \in S
    BY <2>1, ElementOfSeq
  <2>3. Len(a) = IF 1 <= n THEN n - 1 + 1 ELSE 0
    BY <2>1, <2>2, SubSeqProperties
  <2> QED
    BY <1>1, <2>1, <2>3
<1> HIDE DEF a, b
<1>3. ASSUME Holds(s, mk)
      PROVE  Holds(a, mk) \/ Holds(b, mk)
  <2>1. PICK i \in 1..Len(s) : s[i].make = mk
    BY <1>3 DEF Holds
  <2>2. s[i] \in ToSet(a) \/ s[i] \in ToSet(b)
    BY <1>1, <2>1
  <2>3. /\ ToSet(a) = {a[j] : j \in 1..Len(a)}
        /\ ToSet(b) = {b[j] : j \in 1..Len(b)}
    <3>1. DOMAIN a = 1..Len(a) /\ DOMAIN b = 1..Len(b)
      BY <1>1
    <3> QED
      BY <3>1 DEF ToSet
  <2>4. \/ \E j \in 1..Len(a) : a[j] = s[i]
        \/ \E j \in 1..Len(b) : b[j] = s[i]
    BY <2>2, <2>3
  <2> QED
    BY <2>1, <2>4 DEF Holds
<1>4. Holds(a, mk) \/ Holds(b, mk) => Holds(s, mk)
  BY <1>1 DEF Holds
<1>5. ASSUME Holds(a, mk), Holds(b, mk)
      PROVE  FALSE
  <2>1. PICK i \in 1..Len(a) : a[i].make = mk
    BY <1>5 DEF Holds
  <2>2. PICK j \in 1..Len(b) : b[j].make = mk
    BY <1>5 DEF Holds
  <2>3. i = n + j
    BY <1>1, <2>1, <2>2 DEF Once
  <2> QED
    BY <1>2, <2>3
<1>6. Once(a, mk)
  BY <1>1 DEF Once
<1>7. Once(b, mk)
  <2> SUFFICES ASSUME NEW i \in 1..Len(b), NEW j \in 1..Len(b),
                      b[i].make = mk, b[j].make = mk
               PROVE  i = j
    BY DEF Once
  <2>1. n + i = n + j
    BY <1>1 DEF Once
  <2> QED
    BY <1>2, <2>1
<1> QED
  BY <1>3, <1>4, <1>5, <1>6, <1>7 DEF a, b

-----------------------------------------------------------------------------
(* What clients are told.                                                   *)

\* The client that has it made neither begins nor makes another, and its
\* connection is not opened.
SameClient(mk) ==
  /\ mk.client \in alive' => mk.client \in alive
  /\ mk.client \in alive' =>
       client'[mk.client].made = client[mk.client].made
  /\ pg'.ct[mk.client].fh = "open" => pg.ct[mk.client].fh = "open"

LEMMA TellsWants ==
  ASSUME ClientWires, NEW d, NEW n, Tells(d, n), NEW c \in Others
  PROVE  /\ client'[c].made = client[c].made
         /\ n.type # "MADECALL" \/ d # c => client'[c].making = client[c].making
         /\ n.type = "MADECALL" =>
              /\ \A mk : mk # n.make => (mk \in client'[c].making
                                          <=> mk \in client[c].making)
              /\ d = c /\ client' = [client EXCEPT ![c] = Reads(@, n)] =>
                   n.make \notin client'[c].making
<1>1. client \in [Others -> ClientState] /\ client[c] \in ClientState
  BY DEF ClientWires
<1>2. ASSUME d = c, client' = [client EXCEPT ![c] = Reads(@, n)]
      PROVE  /\ client'[c].made = client[c].made
             /\ n.type # "MADECALL" => client'[c].making = client[c].making
             /\ n.type = "MADECALL" => client'[c].making = client[c].making \ {n.make}
  <2>1. client'[c] = Reads(client[c], n)
    BY <1>1, <1>2
  <2>2. CASE n.type = "INCOMING"
    BY <1>1, <2>1, <2>2 DEF Reads, ClientState
  <2>3. CASE n.type = "MADECALL"
    BY <1>1, <2>1, <2>3 DEF Reads, ClientState
  <2>4. CASE n.type \in {"HUNGUP", "RELEASED", "RELEASE"}
    BY <1>1, <2>1, <2>4 DEF Reads, ClientState
  <2>5. CASE n.type \notin {"INCOMING", "MADECALL", "HUNGUP", "RELEASED", "RELEASE"}
    BY <1>1, <2>1, <2>5 DEF Reads, ClientState
  <2> QED
    BY <2>2, <2>3, <2>4, <2>5
<1>3. CASE UNCHANGED client
  <2>1. CASE d = c /\ client' = [client EXCEPT ![c] = Reads(@, n)]
    BY <1>2, <2>1
  <2>2. CASE ~(d = c /\ client' = [client EXCEPT ![c] = Reads(@, n)])
    BY <1>3, <2>2
  <2> QED
    BY <2>1, <2>2
<1>4. CASE client' = [client EXCEPT ![d] = Reads(@, n)]
  <2>1. CASE d = c
    BY <1>2, <1>4, <2>1
  <2>2. CASE d # c
    BY <1>1, <1>4, <2>2
  <2> QED
    BY <2>1, <2>2
<1> QED
  BY <1>3, <1>4 DEF Tells, toClients

\* A call that is given to the client that made it.
LEMMA OutgoingTells ==
  ASSUME NEW p, Good(p), NEW ch \in Channels, p.agi[ch] \in {"dump", "parked"},
         NEW mk \in Makes, OutgoingCall(p, ch, mk)
  PROVE  /\ pg'.callmaking = p.callmaking /\ pg'.awaiting = p.awaiting
         /\ \A c \in Clients : pg'.ct[c].fh = "open" => p.ct[c].fh = "open"
         /\ Tells(mk.client, MadeCall(mk, ch))
         /\ mk.client \in alive /\ pg'.ct[mk.client].fh = "open" =>
              client' = [client EXCEPT ![mk.client] = Reads(@, MadeCall(mk, ch))]
<1> DEFINE c == mk.client
           m == MadeCall(mk, ch)
<1>1. c \in Clients /\ c # Vglue
  BY DEF Makes, Others
<1>2. CASE p.ct[c].fh = "gone"
  <2>1. pg' = [p EXCEPT !.agi[ch] = "closed"] /\ UNCHANGED toClients
    BY <1>2 DEF OutgoingCall
  <2>2. pg'.callmaking = p.callmaking /\ pg'.awaiting = p.awaiting /\ pg'.ct = p.ct
    BY <2>1, AgiSet DEF Good
  <2> QED
    BY <1>2, <2>1, <2>2 DEF Tells
<1>3. CASE p.ct[c].fh # "gone"
  <2> DEFINE q == Attached(p, ch, c)
  <2>1. Say(q, c, m)
    BY <1>3 DEF OutgoingCall
  <2>2. p.callobj[ch] = None
    BY DEF Good, Matches
  <2>3. /\ \A d \in Clients : q.ct[d].fh = p.ct[d].fh
        /\ q.callmaking = p.callmaking /\ q.awaiting = p.awaiting
    BY <1>1, <1>3, <2>2, AttachedGood
  <2>4. /\ Shrinks(q, pg') /\ Tells(c, m)
        /\ c \in alive /\ pg'.ct[c].fh = "open" =>
             client' = [client EXCEPT ![c] = Reads(@, m)]
    BY <1>1, <1>3, <2>1, <2>2, GivenTells
  <2> HIDE DEF q, m, c
  <2>5. /\ pg'.callmaking = p.callmaking /\ pg'.awaiting = p.awaiting
        /\ \A d \in Clients : pg'.ct[d].fh = "open" => p.ct[d].fh = "open"
    BY <2>3, <2>4 DEF Shrinks
  <2> QED
    BY <2>4, <2>5 DEF c, m
<1> QED
  BY <1>2, <1>3

\* A call that is given to a client that serves its number.
LEMMA IncomingTells ==
  ASSUME NEW p, Good(p), NEW ch \in Channels, p.agi[ch] \in {"dump", "parked"},
         IncomingCall(p, ch), pg.callmaking = p.callmaking, pg.awaiting = p.awaiting,
         pg.ct = p.ct
  PROVE  /\ pg'.callmaking = p.callmaking /\ pg'.awaiting = p.awaiting
         /\ \A c \in Clients : pg'.ct[c].fh = "open" => p.ct[c].fh = "open"
         /\ \E d, n : n.type # "MADECALL" /\ Tells(d, n)
<1>1. \A ch1, type : AboutCall(type, ch1).type = type
  BY DEF AboutCall, Message
<1>2. UNCHANGED toClients => Tells(Vglue, AboutCall("INCOMING", ch))
  BY DEF Tells
<1>3. CASE pg' = [p EXCEPT !.agi[ch] = "closed"] /\ UNCHANGED toClients
  <2>1. pg'.callmaking = p.callmaking /\ pg'.awaiting = p.awaiting /\ pg'.ct = p.ct
    BY <1>3, AgiSet DEF Good
  <2> QED
    BY <1>1, <1>2, <1>3, <2>1
<1>4. CASE UNCHANGED <<pg, toClients>>
  BY <1>1, <1>2, <1>4
<1>5. ASSUME NEW c \in Clients, p.ct[c].fh # "gone",
             Say(Attached(p, ch, c), c, AboutCall("INCOMING", ch))
      PROVE  /\ pg'.callmaking = p.callmaking /\ pg'.awaiting = p.awaiting
             /\ \A d \in Clients : pg'.ct[d].fh = "open" => p.ct[d].fh = "open"
             /\ Tells(c, AboutCall("INCOMING", ch))
  <2> DEFINE q == Attached(p, ch, c)
  <2>1. p.callobj[ch] = None
    BY DEF Good, Matches
  <2>2. /\ \A d \in Clients : q.ct[d].fh = p.ct[d].fh
        /\ q.callmaking = p.callmaking /\ q.awaiting = p.awaiting
    BY <1>5, <2>1, AttachedGood
  <2>3. Shrinks(q, pg') /\ Tells(c, AboutCall("INCOMING", ch))
    BY <1>5, <2>1, GivenTells
  <2> HIDE DEF q
  <2> QED
    BY <2>2, <2>3 DEF Shrinks
<1>6. Matching(caller[ch].dnis) \subseteq Clients
  BY DEF Matching
<1>7. CASE \E c \in Clients : /\ p.ct[c].fh # "gone"
                              /\ Say(Attached(p, ch, c), c, AboutCall("INCOMING", ch))
  BY <1>1, <1>5, <1>7
<1> QED
  BY <1>3, <1>4, <1>6, <1>7 DEF IncomingCall

-----------------------------------------------------------------------------
(* A call being made stays where it is, moves, or is told of.               *)

Tracked(mk) == Apart(mk) /\ Unmade(mk) /\ Due(mk)

SameRequests(mk)  == (Asked(mk)' <=> Asked(mk)) /\ (Read(mk)' <=> Read(mk))
SameLines(mk)  == /\ Dialled(mk)' <=> Dialled(mk)
                  /\ LegOf(mk)' <=> LegOf(mk)
                  /\ Answered(mk)' <=> Answered(mk)
SamePlaces(mk) == /\ Reported(mk)' <=> Reported(mk)
                  /\ Making(mk)' <=> Making(mk)
                  /\ Awaited(mk)' <=> Awaited(mk)
SameWants(mk)  == SameClient(mk) /\ (mk.client \in alive' => (Wanted(mk)' <=> Wanted(mk)))

LEMMA StaysTracked ==
  ASSUME NEW mk, Tracked(mk), SameRequests(mk), SameLines(mk), SamePlaces(mk),
         SameWants(mk)
  PROVE  Tracked(mk)'
<1>1. Apart(mk)'
  BY DEF Tracked, Apart, SameRequests, SameLines, SamePlaces
<1>2. Unmade(mk)'
  BY DEF Tracked, Unmade, SameRequests, SameLines, SamePlaces, SameWants, SameClient
<1>3. Due(mk)'
  BY DEF Tracked, Due, SameRequests, SameLines, SamePlaces, SameWants, SameClient
<1> QED
  BY <1>1, <1>2, <1>3 DEF Tracked

\* A call that was somewhere is nowhere, and its client is not there or knows.
Settled(mk) ==
  /\ Asked(mk) \/ Read(mk) \/ Making(mk) \/ LegOf(mk)
  /\ ~Asked(mk)' /\ ~Read(mk)' /\ ~Dialled(mk)' /\ ~Answered(mk)'
  /\ ~Reported(mk)' /\ ~Making(mk)' /\ ~Awaited(mk)'
  /\ mk.client \in alive' /\ pg'.ct[mk.client].fh = "open" => ~Wanted(mk)'

LEMMA SettledTracked ==
  ASSUME NEW mk, Tracked(mk), SameClient(mk), Settled(mk)
  PROVE  Tracked(mk)'
<1>1. Apart(mk)'
  BY DEF Apart, Settled
<1>2. Unmade(mk)'
  BY DEF Tracked, Unmade, Settled, SameClient
<1>3. Due(mk)'
  BY DEF Due, Settled
<1> QED
  BY <1>1, <1>2, <1>3 DEF Tracked

\* A call that is awaited is one that was made.
LEMMA AwaitedLeg ==
  ASSUME IInv, NEW mk \in Makes
  PROVE  Awaited(mk) => LegOf(mk)
<1>1. \A ch \in Channels : pg.awaiting[ch] = mk => caller[ch].leg = mk
  BY RoutingAssumption DEF IInv, LegsKnown
<1> QED
  BY <1>1 DEF Awaited, LegOf

\* What is written to phoneglue and what Asterisk does stay.
LEMMA SamePlacesOf ==
  ASSUME UNCHANGED <<batch, toServer, astVars>>, NEW mk
  PROVE  SameRequests(mk) /\ SameLines(mk)
BY DEF SameRequests, SameLines, Asked, Read, Dialled, LegOf, Answered, astVars

LEMMA SameAlone ==
  ASSUME UNCHANGED <<batch, toServer, astVars, manager>>, NEW mk, Alone(mk)
  PROVE  Alone(mk)'
BY DEF Alone, Once, astVars

\* A step of phoneglue that says nothing of a call being made.
LEMMA QuietTraced ==
  ASSUME IInv, Traced, UNCHANGED <<batch, toServer, astVars, manager, alive>>,
         pg'.callmaking = pg.callmaking, pg'.awaiting = pg.awaiting,
         \A c \in Clients : pg'.ct[c].fh = "open" => pg.ct[c].fh = "open",
         \E d, n : n.type # "MADECALL" /\ Tells(d, n)
  PROVE  Traced'
<1>1. PICK d, n : n.type # "MADECALL" /\ Tells(d, n)
  OBVIOUS
<1>2. ASSUME NEW mk \in Makes
      PROVE  Alone(mk)' /\ Tracked(mk)'
  <2>1. mk.client \in Others /\ mk.client \in Clients
    BY DEF Makes, Others
  <2>2. Alone(mk) /\ Tracked(mk)
    BY DEF Traced, Tracked
  <2>3. /\ client'[mk.client].made = client[mk.client].made
        /\ client'[mk.client].making = client[mk.client].making
    BY <1>1, <2>1, TellsWants DEF IInv
  <2>4. SameWants(mk)
    BY <2>1, <2>3 DEF SameWants, SameClient, Wanted
  <2>5. SamePlaces(mk)
    BY DEF SamePlaces, Reported, Making, Awaited
  <2> QED
    BY <2>2, <2>4, <2>5, SameAlone, SamePlacesOf, StaysTracked
<1>3. /\ (\A c \in Clients : OnlyMakes(toServer[c]))' /\ OnlyMakes(batch.msgs)'
      /\ Nameless(manager)'
  BY DEF Traced, OnlyMakes, Nameless
<1> QED
  BY <1>2, <1>3 DEF Traced, Tracked

\* A step of phoneglue that ends the making of a call.
LEMMA SettledTraced ==
  ASSUME IInv, Traced, UNCHANGED <<batch, toServer, astVars, alive>>,
         NEW mk0 \in Makes,
         pg'.callmaking = pg.callmaking \ {mk0},
         \A ch \in Channels : pg'.awaiting[ch] =
           IF pg.awaiting[ch] = mk0 THEN None ELSE pg.awaiting[ch],
         Nameless(manager)', Making(mk0) \/ Awaited(mk0), ~Reported(mk0)', ~Dialled(mk0), ~Answered(mk0),
         \A mk \in Makes : /\ Once(manager, mk)'
                           /\ mk # mk0 => (Reported(mk)' <=> Reported(mk)),
         \A c \in Clients : pg'.ct[c].fh = "open" => pg.ct[c].fh = "open",
         NEW n, n.type = "MADECALL", n.make = mk0, Tells(mk0.client, n),
         mk0.client \in alive /\ pg'.ct[mk0.client].fh = "open" =>
           client' = [client EXCEPT ![mk0.client] = Reads(@, n)]
  PROVE  Traced'
<1>1. ASSUME NEW mk \in Makes
      PROVE  Alone(mk)' /\ Tracked(mk)'
  <2>1. mk.client \in Others /\ mk.client \in Clients
    BY DEF Makes, Others
  <2>2. Alone(mk) /\ Tracked(mk)
    BY DEF Traced, Tracked
  <2>3. /\ client'[mk.client].made = client[mk.client].made
        /\ mk # mk0 => (Wanted(mk)' <=> Wanted(mk))
        /\ mk = mk0 /\ client' = [client EXCEPT ![mk.client] = Reads(@, n)] =>
             ~Wanted(mk)'
    BY <2>1, TellsWants DEF IInv, Wanted
  <2>4. SameClient(mk)
    BY <2>1, <2>3 DEF SameClient
  <2>5. SameRequests(mk) /\ SameLines(mk)
    BY SamePlacesOf
  <2>6. Alone(mk)'
    BY <2>2 DEF Alone, Once, astVars
  <2>7. CASE mk # mk0
    <3>1. SameWants(mk)
      BY <2>3, <2>4, <2>7 DEF SameWants
    <3>2. SamePlaces(mk)
      <4>1. Making(mk)' <=> Making(mk)
        BY <2>7 DEF Making
      <4>2. Awaited(mk)' <=> Awaited(mk)
        BY <2>7, RoutingAssumption DEF Awaited
      <4> QED
        BY <2>7, <4>1, <4>2 DEF SamePlaces
    <3> QED
      BY <2>2, <2>5, <2>6, <3>1, <3>2, StaysTracked
  <2>8. CASE mk = mk0
    <3>1. ~Making(mk)' /\ ~Awaited(mk)'
      BY <2>8, RoutingAssumption DEF Making, Awaited
    <3>2. mk.client \in alive' /\ pg'.ct[mk.client].fh = "open" => ~Wanted(mk)'
      BY <2>3, <2>8
    <3>3. ~Asked(mk) /\ ~Read(mk) /\ (Making(mk) \/ LegOf(mk))
      BY <2>2, <2>8, AwaitedLeg DEF Tracked, Apart
    <3>4. Settled(mk)
      BY <2>5, <2>8, <3>1, <3>2, <3>3 DEF Settled, SameRequests, SameLines
    <3> QED
      BY <2>2, <2>4, <2>6, <3>4, SettledTracked
  <2> QED
    BY <2>7, <2>8
<1>2. (\A c \in Clients : OnlyMakes(toServer[c]))' /\ OnlyMakes(batch.msgs)'
  BY DEF Traced, OnlyMakes
<1> QED
  BY <1>1, <1>2 DEF Traced, Tracked

\* The next event of the manager.
LEMMA NextEvent ==
  ASSUME IInv, Traced, ManagerEvent
  PROVE  LET e == Head(manager)
         IN  /\ e \in Events /\ Nameless(manager)'
             /\ e.type = "HANGUP" => e.make = None
             /\ e.type = "SUCCESS" => caller[e.call].leg = e.make
             /\ \A mk \in Makes : /\ Reported(mk)' <=> (Reported(mk) /\ e.make # mk)
                                  /\ e.make = mk => Reported(mk)
                                  /\ Once(manager, mk)'
<1> DEFINE e == Head(manager)
<1>1. manager # <<>> /\ manager' = Tail(manager) /\ manager \in Seq(Events)
  BY DEF ManagerEvent, IInv, AsteriskTyped
<1>2. /\ e \in Events /\ e = manager[1] /\ 1 \in 1..Len(manager)
      /\ \A i \in 1..Len(manager') :
           i + 1 \in 1..Len(manager) /\ manager'[i] = manager[i + 1]
  BY <1>1, HeadAndTail, HeadTailProperties
<1>3. ASSUME NEW mk \in Makes
      PROVE  /\ Reported(mk)' <=> (Reported(mk) /\ e.make # mk)
             /\ e.make = mk => Reported(mk)
             /\ Once(manager, mk)'
  <2>1. Once(manager, mk)
    BY DEF Traced, Alone
  <2>2. /\ Holds(Tail(manager), mk) <=> (Holds(manager, mk) /\ e.make # mk)
        /\ e.make = mk => Holds(manager, mk)
        /\ Once(Tail(manager), mk)
    BY <1>1, <2>1, TailHolds
  <2>3. Holds(manager', mk) <=> Holds(manager, mk)'
    BY DEF Holds
  <2>4. Once(manager', mk) => Once(manager, mk)'
    BY DEF Once
  <2> QED
    BY <1>1, <2>2, <2>3, <2>4 DEF Reported
<1> HIDE DEF e
<1>4. e.type = "HANGUP" => e.make = None
  BY <1>2 DEF Traced, Nameless
<1>5. Nameless(manager)'
  BY <1>2 DEF Traced, Nameless
<1>6. e.type = "SUCCESS" => caller[e.call].leg = e.make
  BY <1>2 DEF IInv, LegsKnown
<1> QED
  BY <1>2, <1>3, <1>4, <1>5, <1>6 DEF e

\* The call is made: its connection is there, or awaited.
LEMMA SucceededTraced ==
  ASSUME IInv, Traced, ManagerEvent, NEW mk0 \in Makes, NEW ch \in Channels,
         Head(manager).type = "SUCCESS", Head(manager).make = mk0,
         Head(manager).call = ch, OriginateSucceeded(mk0, ch)
  PROVE  Traced'
<1> DEFINE m == [pg EXCEPT !.callmaking = @ \ {mk0}]
           b == [m EXCEPT !.received = @ \ {ch}]
           w == [m EXCEPT !.awaiting[ch] = mk0]
<1>1. Good(pg) /\ pg \in Knowledge
  BY DEF IInv, Good
<1>2. /\ Good(m) /\ m.agi = pg.agi /\ m.ct = pg.ct
      /\ Good(b) /\ b.agi = pg.agi /\ b.ct = pg.ct /\ w.ct = pg.ct
  BY <1>1, LessKnown
<1>3. /\ m.callmaking = pg.callmaking \ {mk0} /\ m.awaiting = pg.awaiting
      /\ b.callmaking = pg.callmaking \ {mk0} /\ b.awaiting = pg.awaiting
      /\ w.callmaking = pg.callmaking \ {mk0}
      /\ w.awaiting = [pg.awaiting EXCEPT ![ch] = mk0]
  BY <1>1 DEF Knowledge
<1>4. /\ UNCHANGED <<batch, toServer, astVars, alive>>
      /\ \/ /\ pg.ct[mk0.client].fh = "gone"
            /\ pg' = m /\ UNCHANGED toClients
         \/ pg.agi[ch] = "parked" /\ OutgoingCall(b, ch, mk0)
         \/ pg' = w /\ UNCHANGED toClients
  BY DEF OriginateSucceeded, ManagerEvent
<1> HIDE DEF m, b, w
<1>5. /\ Nameless(manager)' /\ caller[ch].leg = mk0 /\ Reported(mk0) /\ ~Reported(mk0)'
      /\ \A mk \in Makes : /\ Once(manager, mk)'
                           /\ mk # mk0 => (Reported(mk)' <=> Reported(mk))
  BY NextEvent
<1>6. Apart(mk0) /\ mk0.client \in Clients
  BY DEF Traced, Makes, Others
<1>7. Making(mk0) /\ ~Awaited(mk0) /\ ~Dialled(mk0) /\ ~Answered(mk0) /\ ~Asked(mk0) /\ ~Read(mk0)
  BY <1>5, <1>6 DEF Apart
<1>8. \A x \in Channels : pg.awaiting[x] # mk0
  BY <1>7 DEF Awaited
<1>9. /\ MadeCall(mk0, ch).type = "MADECALL" /\ MadeCall(mk0, ch).make = mk0
  BY MadeCallIs
<1>10. CASE pg.ct[mk0.client].fh = "gone" /\ pg' = m /\ UNCHANGED toClients
  <2>1. Tells(mk0.client, MadeCall(mk0, ch))
    BY <1>10 DEF Tells
  <2>2. \A c \in Clients : pg'.ct[c].fh = "open" => pg.ct[c].fh = "open"
    BY <1>2, <1>10
  <2>3. pg'.ct[mk0.client].fh # "open"
    BY <1>2, <1>10
  <2>4. /\ pg'.callmaking = pg.callmaking \ {mk0}
        /\ \A x \in Channels : pg'.awaiting[x] =
             IF pg.awaiting[x] = mk0 THEN None ELSE pg.awaiting[x]
    BY <1>3, <1>8, <1>10
  <2> QED
    BY <1>4, <1>5, <1>7, <1>9, <2>1, <2>2, <2>3, <2>4, SettledTraced
<1>11. CASE pg.agi[ch] = "parked" /\ OutgoingCall(b, ch, mk0)
  <2>1. /\ pg'.callmaking = b.callmaking /\ pg'.awaiting = b.awaiting
        /\ \A c \in Clients : pg'.ct[c].fh = "open" => b.ct[c].fh = "open"
        /\ Tells(mk0.client, MadeCall(mk0, ch))
        /\ mk0.client \in alive /\ pg'.ct[mk0.client].fh = "open" =>
             client' = [client EXCEPT ![mk0.client] = Reads(@, MadeCall(mk0, ch))]
    BY <1>2, <1>11, OutgoingTells
  <2>2. \A c \in Clients : pg'.ct[c].fh = "open" => pg.ct[c].fh = "open"
    BY <1>2, <2>1
  <2>4. /\ pg'.callmaking = pg.callmaking \ {mk0}
        /\ \A x \in Channels : pg'.awaiting[x] =
             IF pg.awaiting[x] = mk0 THEN None ELSE pg.awaiting[x]
    BY <1>3, <1>8, <2>1
  <2> QED
    BY <1>4, <1>5, <1>7, <1>9, <2>1, <2>2, <2>4, SettledTraced
<1>12. CASE pg' = w /\ UNCHANGED toClients
  <2>1. pg.awaiting \in [Channels -> Makes \cup {None}]
    BY <1>1, KnowledgeIs
  <2>2. pg.awaiting[ch] = None
    BY <1>5, <1>8 DEF IInv, LegsKnown
  <2>3. ASSUME NEW mk \in Makes
        PROVE  Alone(mk)' /\ Tracked(mk)'
    <3>1. Alone(mk) /\ Tracked(mk) /\ mk.client \in Clients
      BY DEF Traced, Tracked, Makes, Others
    <3>2. SameRequests(mk) /\ SameLines(mk)
      BY <1>4, SamePlacesOf
    <3>3. Alone(mk)'
      BY <1>4, <1>5, <3>1 DEF Alone, Once, astVars
    <3>4. SameWants(mk)
      BY <1>2, <1>4, <1>12, <3>1 DEF SameWants, SameClient, Wanted, toClients
    <3>5. CASE mk # mk0
      <4>1. Making(mk)' <=> Making(mk)
        BY <1>3, <1>12, <3>5 DEF Making
      <4>2. Awaited(mk)' <=> Awaited(mk)
        BY <1>3, <1>12, <2>1, <2>2, <3>5, RoutingAssumption DEF Awaited
      <4>3. SamePlaces(mk)
        BY <1>5, <3>5, <4>1, <4>2 DEF SamePlaces
      <4> QED
        BY <3>1, <3>2, <3>3, <3>4, <4>3, StaysTracked
    <3>6. CASE mk = mk0
      <4>1. Awaited(mk)' /\ ~Making(mk)' /\ ~Reported(mk)'
        BY <1>3, <1>5, <1>12, <2>1, <3>6 DEF Awaited, Making
      <4>2. ~Asked(mk)' /\ ~Read(mk)' /\ ~Dialled(mk)' /\ ~Answered(mk)'
        BY <1>7, <3>2, <3>6 DEF SameRequests, SameLines
      <4>3. LegOf(mk)
        BY <1>5, <3>6 DEF LegOf
      <4>4. Apart(mk)'
        BY <4>1, <4>2 DEF Apart
      <4>5. Unmade(mk)'
        BY <3>1, <3>4, <4>3 DEF Tracked, Unmade, SameWants, SameClient
      <4>6. Due(mk)'
        BY <1>7, <3>1, <3>4, <3>6, <4>1 DEF Tracked, Due, SameWants, SameClient
      <4> QED
        BY <3>3, <4>4, <4>5, <4>6 DEF Tracked
    <3> QED
      BY <3>5, <3>6
  <2>4. (\A c \in Clients : OnlyMakes(toServer[c]))' /\ OnlyMakes(batch.msgs)'
    BY <1>4 DEF Traced, OnlyMakes
  <2> QED
    BY <1>5, <2>3, <2>4 DEF Traced, Tracked
<1> QED
  BY <1>4, <1>10, <1>11, <1>12

\* The call is not made, or its connection will not come.
LEMMA FailedTraced ==
  ASSUME IInv, Traced, UNCHANGED <<batch, toServer, astVars, alive>>,
         Nameless(manager)', NEW mk0 \in Makes, NEW p, Good(p), p.ct = pg.ct,
         p.callmaking = pg.callmaking \ {mk0},
         \A ch \in Channels : p.awaiting[ch] =
           IF pg.awaiting[ch] = mk0 THEN None ELSE pg.awaiting[ch],
         Making(mk0) \/ Awaited(mk0), ~Reported(mk0)', ~Dialled(mk0), ~Answered(mk0),
         \A mk \in Makes : /\ Once(manager, mk)'
                           /\ mk # mk0 => (Reported(mk)' <=> Reported(mk)),
         MakeCallFailed(p, mk0)
  PROVE  Traced'
<1> DEFINE n == MadeCall(mk0, None)
<1>1. /\ Shrinks(p, pg') /\ Tells(mk0.client, n)
      /\ mk0.client \in alive /\ pg'.ct[mk0.client].fh = "open" =>
           client' = [client EXCEPT ![mk0.client] = Reads(@, n)]
  BY FailedTells
<1>2. n.type = "MADECALL" /\ n.make = mk0
  BY MadeCallIs
<1> HIDE DEF n
<1>3. /\ pg'.callmaking = p.callmaking /\ pg'.awaiting = p.awaiting
      /\ \A c \in Clients : pg'.ct[c].fh = "open" => pg.ct[c].fh = "open"
  BY <1>1 DEF Shrinks
<1>4. /\ pg'.callmaking = pg.callmaking \ {mk0}
      /\ \A ch \in Channels : pg'.awaiting[ch] =
           IF pg.awaiting[ch] = mk0 THEN None ELSE pg.awaiting[ch]
  BY <1>3
<1> QED
  BY <1>1, <1>2, <1>3, <1>4, SettledTraced

LEMMA ManagerTraced ==
  ASSUME IInv, Traced, ManagerEvent
  PROVE  Traced'
<1> DEFINE e == Head(manager)
<1>1. /\ UNCHANGED <<batch, toServer, astVars, alive>>
      /\ \/ e.type = "SUCCESS" /\ OriginateSucceeded(e.make, e.call)
         \/ e.type = "FAILURE" /\ OriginateFailed(e.make)
         \/ e.type = "HANGUP" /\ AwaitedHangup(e.call)
  BY DEF ManagerEvent
<1>2. /\ e \in Events /\ Nameless(manager)'
      /\ e.type = "HANGUP" => e.make = None
      /\ \A mk \in Makes : /\ Reported(mk)' <=> (Reported(mk) /\ e.make # mk)
                           /\ e.make = mk => Reported(mk)
                           /\ Once(manager, mk)'
  BY NextEvent
<1>3. /\ e.type # "FAILURE" => e.call \in Channels
      /\ e.type # "HANGUP" => e.make \in Makes
  BY <1>2 DEF Events
<1>4. Good(pg) /\ pg \in Knowledge
  BY DEF IInv, Good
<1>5. CASE e.type = "SUCCESS" /\ OriginateSucceeded(e.make, e.call)
  BY <1>3, <1>5, SucceededTraced
<1> HIDE DEF e
<1>6. CASE e.type = "FAILURE" /\ OriginateFailed(e.make)
  <2>1. PICK mk0 \in Makes : mk0 = e.make
    BY <1>3, <1>6
  <2> DEFINE m == [pg EXCEPT !.callmaking = @ \ {mk0}]
  <2>2. /\ m \in Knowledge /\ m.callobj = pg.callobj /\ m.agi = pg.agi /\ m.ct = pg.ct
        /\ m.callmaking = pg.callmaking \ {mk0} /\ m.awaiting = pg.awaiting
    BY <1>4, <2>1 DEF Knowledge
  <2>3. MakeCallFailed(m, mk0)
    BY <1>6, <2>1 DEF OriginateFailed
  <2> HIDE DEF m
  <2>4. Good(m)
    BY <1>4, <2>2, OtherGood
  <2>5. Apart(mk0) /\ Reported(mk0) /\ ~Reported(mk0)'
    BY <1>2, <2>1 DEF Traced
  <2>6. Making(mk0) /\ ~Awaited(mk0) /\ ~Dialled(mk0) /\ ~Answered(mk0)
    BY <2>5 DEF Apart
  <2>7. \A ch \in Channels : m.awaiting[ch] =
          IF pg.awaiting[ch] = mk0 THEN None ELSE pg.awaiting[ch]
    BY <2>2, <2>6 DEF Awaited
  <2>8. \A mk \in Makes : /\ Once(manager, mk)'
                          /\ mk # mk0 => (Reported(mk)' <=> Reported(mk))
    BY <1>2, <2>1
  <2> QED
    BY <1>1, <1>2, <2>2, <2>3, <2>4, <2>5, <2>6, <2>7, <2>8, FailedTraced
<1>7. CASE e.type = "HANGUP" /\ AwaitedHangup(e.call)
  <2>1. PICK ch \in Channels : ch = e.call
    BY <1>3, <1>7
  <2> DEFINE a == [pg EXCEPT !.awaiting[ch] = None]
  <2>2. \A mk \in Makes : Once(manager, mk)' /\ (Reported(mk)' <=> Reported(mk))
    BY <1>2, <1>7, RoutingAssumption
  <2>3. CASE pg.awaiting[ch] = None
    <3>1. UNCHANGED <<pg, toClients>>
      BY <1>7, <2>1, <2>3 DEF AwaitedHangup
    <3>2. ASSUME NEW mk \in Makes
          PROVE  Alone(mk)' /\ Tracked(mk)'
      <4>1. Alone(mk) /\ Tracked(mk)
        BY DEF Traced, Tracked
      <4>2. Alone(mk)'
        BY <1>1, <2>2, <4>1 DEF Alone, Once, astVars
      <4>3. SamePlaces(mk)
        BY <2>2, <3>1 DEF SamePlaces, Making, Awaited
      <4>4. SameWants(mk)
        BY <1>1, <3>1 DEF SameWants, SameClient, Wanted, toClients
      <4> QED
        BY <1>1, <4>1, <4>2, <4>3, <4>4, SamePlacesOf, StaysTracked
    <3>3. (\A c \in Clients : OnlyMakes(toServer[c]))' /\ OnlyMakes(batch.msgs)'
      BY <1>1 DEF Traced, OnlyMakes
    <3> QED
      BY <1>2, <3>2, <3>3 DEF Traced, Tracked
  <2>4. CASE pg.awaiting[ch] # None
    <3>1. PICK mk0 \in Makes : mk0 = pg.awaiting[ch]
      BY <1>4, <2>4, KnowledgeIs
    <3>2. MakeCallFailed(a, mk0)
      BY <1>7, <2>1, <2>4, <3>1 DEF AwaitedHangup
    <3>3. Awaited(mk0)
      BY <3>1 DEF Awaited
    <3>4. Apart(mk0) /\ Alone(mk0)
      BY <3>1 DEF Traced
    <3>5. ~Making(mk0) /\ ~Dialled(mk0) /\ ~Answered(mk0) /\ ~Reported(mk0)'
      BY <2>2, <3>1, <3>3, <3>4 DEF Apart
    <3>6. \A x \in Channels : pg.awaiting[x] = mk0 => x = ch
      <4>1. \A x \in Channels : pg.awaiting[x] = mk0 => caller[x].leg = mk0
        BY <2>4, <3>1 DEF IInv, LegsKnown
      <4> QED
        BY <3>1, <3>4, <4>1 DEF Alone
    <3>7. Good(a) /\ a.ct = pg.ct
      BY <1>4, LessKnown
    <3>8. a.callmaking = pg.callmaking /\ a.awaiting = [pg.awaiting EXCEPT ![ch] = None]
      BY <1>4 DEF Knowledge
    <3> HIDE DEF a
    <3>9. \A x \in Channels : a.awaiting[x] =
            IF pg.awaiting[x] = mk0 THEN None ELSE pg.awaiting[x]
      <4>1. pg.awaiting \in [Channels -> Makes \cup {None}]
        BY <1>4, KnowledgeIs
      <4> QED
        BY <3>1, <3>6, <3>8, <4>1
    <3>10. a.callmaking = pg.callmaking \ {mk0}
      BY <3>5, <3>8 DEF Making
    <3> QED
      BY <1>1, <1>2, <2>2, <3>2, <3>3, <3>5, <3>7, <3>9, <3>10, FailedTraced
  <2> QED
    BY <2>3, <2>4
<1> QED
  BY <1>1, <1>5, <1>6, <1>7 DEF e

\* A connection is new.
LEMMA NewAgiTraced ==
  ASSUME IInv, Traced, NEW ch \in Channels, NewAgi(ch)
  PROVE  Traced'
<1> DEFINE a == [pg EXCEPT !.awaiting[ch] = None]
<1>1. /\ pg.agi[ch] = "dump"
      /\ UNCHANGED <<batch, toServer, manager, astVars, alive>>
      /\ \/ pg.awaiting[ch] # None /\ OutgoingCall(a, ch, pg.awaiting[ch])
         \/ /\ pg' = [pg EXCEPT !.agi[ch] = "parked", !.received = @ \cup {ch}]
            /\ UNCHANGED toClients
         \/ IncomingCall(pg, ch)
  BY DEF NewAgi
<1>2. Good(pg) /\ pg \in Knowledge
  BY DEF IInv, Good
<1>3. CASE pg.awaiting[ch] # None /\ OutgoingCall(a, ch, pg.awaiting[ch])
  <2>1. PICK mk0 \in Makes : mk0 = pg.awaiting[ch]
    BY <1>2, <1>3, KnowledgeIs
  <2>2. Awaited(mk0)
    BY <2>1 DEF Awaited
  <2>3. Apart(mk0) /\ Alone(mk0)
    BY DEF Traced
  <2>4. ~Making(mk0) /\ ~Dialled(mk0) /\ ~Answered(mk0) /\ ~Reported(mk0)'
    <3>1. Reported(mk0)' <=> Reported(mk0)
      BY <1>1 DEF Reported
    <3> QED
      BY <2>2, <2>3, <3>1 DEF Apart
  <2>5. \A x \in Channels : pg.awaiting[x] = mk0 => x = ch
    <3>1. \A x \in Channels : pg.awaiting[x] = mk0 => caller[x].leg = mk0
      BY <1>3, <2>1 DEF IInv, LegsKnown
    <3> QED
      BY <2>1, <2>3, <3>1 DEF Alone
  <2>6. Good(a) /\ a.ct = pg.ct /\ a.agi = pg.agi
    BY <1>2, LessKnown
  <2>7. a.callmaking = pg.callmaking /\ a.awaiting = [pg.awaiting EXCEPT ![ch] = None]
    BY <1>2 DEF Knowledge
  <2> HIDE DEF a
  <2>8. \A x \in Channels : a.awaiting[x] =
          IF pg.awaiting[x] = mk0 THEN None ELSE pg.awaiting[x]
    <3>1. pg.awaiting \in [Channels -> Makes \cup {None}]
      BY <1>2, KnowledgeIs
    <3> QED
      BY <2>1, <2>5, <2>7, <3>1
  <2>9. a.callmaking = pg.callmaking \ {mk0}
    BY <2>4, <2>7 DEF Making
  <2>10. /\ pg'.callmaking = a.callmaking /\ pg'.awaiting = a.awaiting
         /\ \A c \in Clients : pg'.ct[c].fh = "open" => a.ct[c].fh = "open"
         /\ Tells(mk0.client, MadeCall(mk0, ch))
         /\ mk0.client \in alive /\ pg'.ct[mk0.client].fh = "open" =>
              client' = [client EXCEPT ![mk0.client] = Reads(@, MadeCall(mk0, ch))]
    BY <1>1, <1>3, <2>1, <2>6, OutgoingTells
  <2>11. MadeCall(mk0, ch).type = "MADECALL" /\ MadeCall(mk0, ch).make = mk0
    BY MadeCallIs
  <2>12. /\ pg'.callmaking = pg.callmaking \ {mk0}
         /\ \A x \in Channels : pg'.awaiting[x] =
              IF pg.awaiting[x] = mk0 THEN None ELSE pg.awaiting[x]
         /\ \A c \in Clients : pg'.ct[c].fh = "open" => pg.ct[c].fh = "open"
    BY <2>6, <2>8, <2>9, <2>10
  <2>13. /\ Nameless(manager)'
         /\ \A mk \in Makes : /\ Once(manager, mk)'
                              /\ mk # mk0 => (Reported(mk)' <=> Reported(mk))
    BY <1>1 DEF Traced, Alone, Nameless, Once, Reported
  <2> QED
    BY <1>1, <2>2, <2>4, <2>10, <2>11, <2>12, <2>13, SettledTraced
<1>4. CASE /\ pg' = [pg EXCEPT !.agi[ch] = "parked", !.received = @ \cup {ch}]
           /\ UNCHANGED toClients
  <2>1. pg'.callmaking = pg.callmaking /\ pg'.awaiting = pg.awaiting /\ pg'.ct = pg.ct
    BY <1>2, <1>4 DEF Knowledge
  <2>2. Message("STARTED").type # "MADECALL" /\ Tells(Vglue, Message("STARTED"))
    BY <1>4 DEF Tells, Message
  <2> QED
    BY <1>1, <2>1, <2>2, QuietTraced
<1>5. CASE IncomingCall(pg, ch)
  BY <1>1, <1>2, <1>5, IncomingTells, QuietTraced
<1> QED
  BY <1>1, <1>3, <1>4, <1>5

LEMMA EventTraced ==
  ASSUME IInv, Traced,
         \/ ManagerEvent
         \/ \E c \in Clients : SeesEof(c) \/ ClientStopped(c)
         \/ \E ch \in Channels : NewAgi(ch) \/ AgiClosed(ch) \/ ReceivedTimeout(ch)
  PROVE  Traced'
<1>1. Good(pg) /\ pg \in Knowledge /\ Matches(pg)
  BY DEF IInv, Good
<1>2. \A type, ch : AboutCall(type, ch).type = type /\ Message(type).type = type
  BY DEF AboutCall, Message
<1>3. UNCHANGED toClients => Tells(Vglue, Message("STARTED"))
  BY DEF Tells
<1>4. ASSUME NEW c \in Clients, SeesEof(c) \/ ClientStopped(c)
      PROVE  Traced'
  <2>1. UNCHANGED <<batch, toServer, manager, toClients, astVars, alive>>
    BY <1>4 DEF SeesEof, ClientStopped
  <2>2. Shrinks(pg, pg')
    <3>1. CASE SeesEof(c)
      BY <1>1, <3>1, ClosedShrinks DEF SeesEof
    <3>2. CASE ClientStopped(c)
      <4>1. \A ch \in pg.ct[c].calls : pg.agi[ch] = "attached"
        <5> TAKE ch \in pg.ct[c].calls
        <5>1. ch \in Channels
          BY <1>1, KnowledgeIs DEF CtState
        <5>2. pg.callobj[ch] = c
          BY <1>1, <5>1 DEF Matches
        <5> QED
          BY <1>1, <5>1, <5>2, RoutingAssumption DEF Matches
      <4> QED
        BY <1>1, <3>2, <4>1, RemovedShrinks DEF ClientStopped
    <3> QED
      BY <1>4, <3>1, <3>2
  <2> QED
    BY <1>2, <1>3, <2>1, <2>2, QuietTraced DEF Shrinks
<1>5. ASSUME NEW ch \in Channels, AgiClosed(ch)
      PROVE  Traced'
  <2>1. UNCHANGED <<batch, toServer, manager, astVars, alive>>
    BY <1>5 DEF AgiClosed
  <2>2. CASE pg.agi[ch] = "attached" /\ AgiFinished(ch, "HUNGUP")
    <3>1. pg.callobj[ch] # None
      BY <1>1, <2>2 DEF Matches
    <3>2. Shrinks(pg, pg') /\ Tells(pg.callobj[ch], AboutCall("HUNGUP", ch))
      BY <1>1, <2>2, <3>1, FinishedShrinks
    <3> QED
      BY <1>2, <2>1, <3>2, QuietTraced DEF Shrinks
  <2>3. CASE /\ pg.agi[ch] = "parked" /\ pg' = [pg EXCEPT !.agi[ch] = "closed"]
             /\ UNCHANGED toClients
    <3>1. pg'.callmaking = pg.callmaking /\ pg'.awaiting = pg.awaiting /\ pg'.ct = pg.ct
      BY <1>1, <2>3, AgiSet
    <3> QED
      BY <1>2, <1>3, <2>1, <2>3, <3>1, QuietTraced
  <2> QED
    BY <1>5, <2>2, <2>3 DEF AgiClosed
<1>6. ASSUME NEW ch \in Channels, ReceivedTimeout(ch)
      PROVE  Traced'
  <2> DEFINE r == [pg EXCEPT !.received = @ \ {ch}]
  <2>1. /\ r \in Knowledge /\ r.callobj = pg.callobj /\ r.agi = pg.agi /\ r.ct = pg.ct
        /\ r.callmaking = pg.callmaking /\ r.awaiting = pg.awaiting
    BY <1>1 DEF Knowledge
  <2>2. /\ UNCHANGED <<batch, toServer, manager, astVars, alive>>
        /\ IF pg.agi[ch] = "parked" THEN IncomingCall(r, ch)
           ELSE pg' = r /\ UNCHANGED toClients
    BY <1>6 DEF ReceivedTimeout
  <2> HIDE DEF r
  <2>3. Good(r)
    BY <1>1, <2>1, OtherGood
  <2>4. CASE pg.agi[ch] = "parked"
    <3>1. /\ pg'.callmaking = r.callmaking /\ pg'.awaiting = r.awaiting
          /\ \A c \in Clients : pg'.ct[c].fh = "open" => r.ct[c].fh = "open"
          /\ \E d, n : n.type # "MADECALL" /\ Tells(d, n)
      BY <2>1, <2>2, <2>3, <2>4, IncomingTells
    <3> QED
      BY <2>1, <2>2, <3>1, QuietTraced
  <2>5. CASE pg.agi[ch] # "parked"
    BY <1>2, <1>3, <2>1, <2>2, <2>5, QuietTraced
  <2> QED
    BY <2>4, <2>5
<1> QED
  BY <1>4, <1>5, <1>6, ManagerTraced, NewAgiTraced

\* The message that is handled is read no more.
LEMMA NextMessage ==
  ASSUME IInv, Traced, HandleBytes
  PROVE  LET m == Head(batch.msgs)
         IN  /\ m \in FromClient(batch.client) /\ batch.client \in Clients
             /\ batch'.client = batch.client
             /\ m.make # None => m.type = "MAKECALL"
             /\ OnlyMakes(batch.msgs)'
             /\ \A mk \in Makes : /\ Read(mk)' <=> (Read(mk) /\ m.make # mk)
                                  /\ m.make = mk => Read(mk)
                                  /\ Once(batch.msgs, mk)'
<1> DEFINE c == batch.client
           msgs == batch.msgs
           m == Head(msgs)
<1>1. msgs # <<>> /\ batch' = [batch EXCEPT !.msgs = Tail(@)]
  BY DEF HandleBytes
<1>2. c \in Clients /\ msgs \in Seq(FromClient(c))
  BY <1>1 DEF IInv, BatchTyped
<1>3. /\ m \in FromClient(c) /\ m = msgs[1] /\ 1 \in 1..Len(msgs)
      /\ \A i \in 1..Len(Tail(msgs)) :
           i + 1 \in 1..Len(msgs) /\ Tail(msgs)[i] = msgs[i + 1]
  BY <1>1, <1>2, HeadAndTail, HeadTailProperties
<1>4. batch'.client = c /\ batch'.msgs = Tail(msgs)
  BY <1>1 DEF IInv, BatchTyped
<1>5. ASSUME NEW mk \in Makes
      PROVE  /\ Read(mk)' <=> (Read(mk) /\ m.make # mk)
             /\ m.make = mk => Read(mk)
             /\ Once(batch.msgs, mk)'
  <2>1. Once(msgs, mk)
    BY DEF Traced, Alone
  <2>2. /\ Holds(Tail(msgs), mk) <=> (Holds(msgs, mk) /\ m.make # mk)
        /\ m.make = mk => Holds(msgs, mk)
        /\ Once(Tail(msgs), mk)
    BY <1>1, <1>2, <2>1, TailHolds
  <2>3. Holds(batch'.msgs, mk) <=> Read(mk)'
    BY DEF Holds, Read
  <2>4. Once(batch'.msgs, mk) => Once(batch.msgs, mk)'
    BY DEF Once
  <2> QED
    BY <1>4, <2>2, <2>3, <2>4 DEF Read
<1>6. OnlyMakes(msgs)
  BY DEF Traced
<1>7. m.make # None => m.type = "MAKECALL"
  BY <1>3, <1>6 DEF OnlyMakes
<1>8. OnlyMakes(batch.msgs)'
  BY <1>3, <1>4, <1>6 DEF OnlyMakes
<1> QED
  BY <1>2, <1>3, <1>4, <1>5, <1>7, <1>8

LEMMA HandleTraced ==
  ASSUME IInv, Serving, Traced, HandleBytes
  PROVE  Traced'
<1>1. PICK c, m : c = batch.client /\ m = Head(batch.msgs)
  OBVIOUS
<1>2. /\ HandleMsg(c, m) /\ UNCHANGED <<toServer, manager, alive>> /\ batch.msgs # <<>>
  BY <1>1 DEF HandleBytes
<1>3. /\ m \in FromClient(c) /\ c \in Clients
      /\ m.make # None => m.type = "MAKECALL"
      /\ OnlyMakes(batch.msgs)'
      /\ \A mk \in Makes : /\ Read(mk)' <=> (Read(mk) /\ m.make # mk)
                           /\ m.make = mk => Read(mk)
                           /\ Once(batch.msgs, mk)'
  BY <1>1, NextMessage
<1>4. /\ (\A d \in Clients : OnlyMakes(toServer[d]))' /\ Nameless(manager)'
      /\ \A mk : Asked(mk)' <=> Asked(mk)
      /\ \A mk : Reported(mk)' <=> Reported(mk)
  BY <1>2 DEF Traced, OnlyMakes, Nameless, Asked, Reported
<1>5. Good(pg) /\ pg \in Knowledge /\ Matches(pg)
  BY DEF IInv, Good
<1>6. c = Vglue => \A ch \in Channels : m.call = ch => Taken(pg, ch)
  <2>1. batch.msgs \in Seq(FromClient(c))
    BY <1>1, <1>2, <1>3 DEF IInv, BatchTyped
  <2>2. m = batch.msgs[1] /\ 1 \in 1..Len(batch.msgs)
    BY <1>1, <1>2, <2>1, HeadAndTail
  <2> QED
    BY <1>1, <2>2 DEF Serving, VglueKnows, AsksOfKnown
<1>7. ASSUME m.type # "MAKECALL"
      PROVE  \A mk \in Makes : Alone(mk)' /\ Tracked(mk)'
  <2> TAKE mk \in Makes
  <2>1. /\ Shrinks(pg, pg') /\ originating' = originating
        /\ \E d \in Clients : \E n : Tells(d, n) /\ Ends(d, n)
        /\ \A ch \in Channels :
             caller'[ch].line = caller[ch].line /\ caller'[ch].leg = caller[ch].leg
    BY <1>2, <1>3, <1>6, <1>7, RequestShrinks
  <2>2. PICK d, n : n.type # "MADECALL" /\ Tells(d, n)
    BY <2>1 DEF Ends
  <2>3. Alone(mk) /\ Tracked(mk) /\ mk.client \in Others /\ mk.client \in Clients
    BY DEF Traced, Tracked, Makes, Others
  <2>4. SameRequests(mk)
    <3>1. m.make # mk
      BY <1>3, <1>7, RoutingAssumption
    <3> QED
      BY <1>3, <1>4, <3>1 DEF SameRequests
  <2>5. SameLines(mk)
    BY <2>1 DEF SameLines, Dialled, LegOf, Answered
  <2>6. SamePlaces(mk)
    BY <1>4, <2>1 DEF SamePlaces, Making, Awaited, Shrinks
  <2>7. SameWants(mk)
    <3>1. /\ client'[mk.client].made = client[mk.client].made
          /\ client'[mk.client].making = client[mk.client].making
      BY <2>2, <2>3, TellsWants DEF IInv
    <3> QED
      BY <1>2, <2>1, <2>3, <3>1 DEF SameWants, SameClient, Wanted, Shrinks
  <2>8. Alone(mk)'
    BY <1>2, <1>3, <2>1, <2>3 DEF Alone, Once
  <2> QED
    BY <2>3, <2>4, <2>5, <2>6, <2>7, <2>8, StaysTracked
<1>8. ASSUME m.type = "MAKECALL"
      PROVE  \A mk \in Makes : Alone(mk)' /\ Tracked(mk)'
  <2>1. PICK mk0 \in Makes : mk0 = m.make /\ mk0.client = c
    BY <1>3, <1>8 DEF FromClient
  <2>2. MakeCall(c, mk0)
    BY <1>2, <1>8, <2>1 DEF HandleMsg
  <2>3. UNCHANGED caller
    BY <2>2 DEF MakeCall
  <2>4. Apart(mk0) /\ Read(mk0) /\ ~Read(mk0)' /\ Tracked(mk0)
    BY <1>3, <2>1 DEF Traced, Tracked
  <2>5. /\ ~Asked(mk0) /\ ~Making(mk0) /\ ~LegOf(mk0) /\ ~Awaited(mk0)
        /\ ~Dialled(mk0) /\ ~Answered(mk0) /\ ~Reported(mk0)
    BY <2>4, AwaitedLeg DEF Apart
  <2>6. \A mk \in Makes : Alone(mk)'
    BY <1>2, <1>3, <2>3 DEF Traced, Alone, Once
  <2>7. \A mk \in Makes : mk.client \in Others /\ mk.client \in Clients /\ Tracked(mk)
    BY DEF Makes, Others, Traced, Tracked
  <2>8. \A mk \in Makes : mk # mk0 => SameRequests(mk)
    BY <1>3, <1>4, <2>1 DEF SameRequests
  <2>9. CASE Say(pg, c, MadeCall(mk0, None)) /\ UNCHANGED originating
    <3> DEFINE n == MadeCall(mk0, None)
    <3>1. pg' = Sent(pg, c) /\ Heard(pg, c, n)
      BY <2>9 DEF Say
    <3>2. Shrinks(pg, pg') /\ Tells(c, n)
      BY <1>3, <1>5, <3>1, SentShrinks, HeardTells
    <3>3. n.type = "MADECALL" /\ n.make = mk0
      BY MadeCallIs
    <3>4. c \in alive /\ pg'.ct[c].fh = "open" => client' = [client EXCEPT ![c] = Reads(@, n)]
      <4>1. c # Vglue
        BY <2>1 DEF Makes, Others
      <4>2. pg'.ct[c].fh = "open" => pg.ct[c].fh = "open"
        BY <1>3, <3>2 DEF Shrinks
      <4> QED
        BY <3>1, <4>1, <4>2, HeardTells
    <3> HIDE DEF n
    <3> TAKE mk \in Makes
    <3>5. SameLines(mk) /\ SamePlaces(mk)
      BY <1>4, <2>3, <2>9, <3>2 DEF SameLines, SamePlaces, Dialled, LegOf, Answered,
                                    Making, Awaited, Shrinks
    <3>6. /\ client'[mk.client].made = client[mk.client].made
          /\ mk # mk0 => (Wanted(mk)' <=> Wanted(mk))
          /\ mk = mk0 /\ client' = [client EXCEPT ![c] = Reads(@, n)] => ~Wanted(mk)'
      BY <2>1, <2>7, <3>2, <3>3, TellsWants DEF IInv, Wanted
    <3>7. SameClient(mk)
      BY <1>2, <2>7, <3>2, <3>6 DEF SameClient, Shrinks
    <3>8. CASE mk # mk0
      BY <2>6, <2>7, <2>8, <3>5, <3>6, <3>7, <3>8, StaysTracked DEF SameWants
    <3>9. CASE mk = mk0
      <4>1. Settled(mk)
        BY <1>2, <1>4, <2>1, <2>4, <2>5, <3>4, <3>5, <3>6, <3>9
           DEF Settled, SameLines, SamePlaces
      <4> QED
        BY <2>4, <2>6, <3>7, <3>9, <4>1, SettledTracked
    <3> QED
      BY <3>8, <3>9
  <2>10. CASE /\ pg' = [pg EXCEPT !.callmaking = @ \cup {mk0}]
              /\ originating' = originating \cup {mk0} /\ UNCHANGED toClients
    <3>1. /\ pg'.callmaking = pg.callmaking \cup {mk0} /\ pg'.awaiting = pg.awaiting
          /\ pg'.ct = pg.ct
      BY <1>5, <2>10 DEF Knowledge
    <3> TAKE mk \in Makes
    <3>2. SameWants(mk)
      BY <1>2, <2>10, <3>1 DEF SameWants, SameClient, Wanted, toClients
    <3>3. CASE mk # mk0
      <4>1. SameLines(mk) /\ SamePlaces(mk)
        BY <1>4, <2>3, <2>10, <3>1, <3>3 DEF SameLines, SamePlaces, Dialled, LegOf,
                                             Answered, Making, Awaited
      <4> QED
        BY <2>6, <2>7, <2>8, <3>2, <3>3, <4>1, StaysTracked
    <3>4. CASE mk = mk0
      <4>1. /\ Dialled(mk)' /\ Making(mk)' /\ ~LegOf(mk)' /\ ~Answered(mk)'
            /\ ~Awaited(mk)' /\ ~Asked(mk)' /\ ~Read(mk)' /\ ~Reported(mk)'
        BY <1>4, <2>3, <2>4, <2>5, <2>10, <3>1, <3>4
           DEF Dialled, Making, LegOf, Answered, Awaited
      <4>2. Apart(mk)'
        BY <4>1 DEF Apart
      <4>3. Unmade(mk)'
        BY <2>4, <3>2, <3>4 DEF Tracked, Unmade, SameWants, SameClient
      <4>4. Due(mk)'
        BY <2>4, <3>2, <3>4, <4>1 DEF Tracked, Due, SameWants, SameClient
      <4> QED
        BY <2>6, <4>2, <4>3, <4>4 DEF Tracked
    <3> QED
      BY <3>3, <3>4
  <2> QED
    BY <2>2, <2>9, <2>10 DEF MakeCall
<1> QED
  BY <1>3, <1>4, <1>7, <1>8 DEF Traced, Tracked

LEMMA ReadTraced ==
  ASSUME IInv, Traced, NEW c \in Clients, ReadBytes(c)
  PROVE  Traced'
<1>1. PICK s : s = toServer[c]
  OBVIOUS
<1>2. PICK n \in 1..Len(s) :
        /\ batch' = [client |-> c, msgs |-> SubSeq(s, 1, n)]
        /\ toServer' = [toServer EXCEPT ![c] = SubSeq(s, n + 1, Len(s))]
  BY <1>1 DEF ReadBytes
<1>3. batch.msgs = <<>> /\ UNCHANGED <<pg, manager, toClients, astVars, alive>>
  BY DEF ReadBytes, Idle
<1>4. s \in Seq(FromClient(c)) /\ toServer \in [Clients -> Seq(Messages)] /\ OnlyMakes(s)
  BY <1>1 DEF IInv, RequestWire, Traced
<1> DEFINE a == SubSeq(s, 1, n)
           b == SubSeq(s, n + 1, Len(s))
<1>5. /\ \A i \in 1..Len(a) : i \in 1..Len(s) /\ a[i] = s[i]
      /\ \A i \in 1..Len(b) : n + i \in 1..Len(s) /\ b[i] = s[n + i]
  BY <1>4, Split
<1>6. \A mk : Once(s, mk) => /\ Holds(s, mk) <=> (Holds(a, mk) \/ Holds(b, mk))
                             /\ Holds(b, mk) => ~Holds(a, mk)
                             /\ Once(a, mk) /\ Once(b, mk)
  BY <1>4, SplitHolds
<1>7. /\ batch'.msgs = a /\ toServer'[c] = b
      /\ \A d \in Clients : d # c => toServer'[d] = toServer[d]
  BY <1>2, <1>4
<1> HIDE DEF a, b
<1>8. OnlyMakes(a) /\ OnlyMakes(b)
  BY <1>4, <1>5 DEF OnlyMakes
<1>9. (\A d \in Clients : OnlyMakes(toServer[d]))' /\ OnlyMakes(batch.msgs)' /\ Nameless(manager)'
  <2>1. ASSUME NEW d \in Clients
        PROVE  OnlyMakes(toServer'[d])
    BY <1>7, <1>8, <2>1 DEF Traced
  <2> QED
    BY <1>3, <1>7, <1>8, <2>1 DEF Traced, OnlyMakes, Nameless
<1>10. ASSUME NEW mk \in Makes
       PROVE  Alone(mk)' /\ Tracked(mk)'
  <2>1. Alone(mk) /\ Tracked(mk) /\ mk.client \in Clients
    BY DEF Traced, Tracked, Makes, Others
  <2>2. ~Read(mk)
    BY <1>3 DEF Read, Holds
  <2>3. SameLines(mk) /\ SamePlaces(mk) /\ SameWants(mk)
    BY <1>3 DEF SameLines, SamePlaces, SameWants, SameClient, Dialled, LegOf, Answered,
                Reported, Making, Awaited, Wanted, astVars, toClients
  <2>4. /\ Asked(mk)' <=> Holds(toServer'[mk.client], mk)
        /\ Read(mk)' <=> Holds(a, mk)
        /\ Alone(mk)' <=> /\ Once(toServer'[mk.client], mk) /\ Once(a, mk)
                          /\ Once(manager, mk)
                          /\ \A x, y \in Channels :
                               caller[x].leg = mk /\ caller[y].leg = mk => x = y
    BY <1>3, <1>7 DEF Asked, Read, Holds, Alone, Once, astVars
  <2>5. CASE mk.client = c
    <3>1. Once(s, mk) /\ (Asked(mk) <=> Holds(s, mk))
      BY <1>1, <2>1, <2>5 DEF Alone, Asked
    <3>2. Alone(mk)'
      BY <1>6, <1>7, <2>1, <2>4, <2>5, <3>1 DEF Alone
    <3>3. /\ Asked(mk) <=> (Asked(mk)' \/ Read(mk)')
          /\ Asked(mk)' => ~Read(mk)'
      BY <1>6, <1>7, <2>4, <2>5, <3>1
    <3>4. Apart(mk)'
      BY <2>1, <2>3, <3>3 DEF Tracked, Apart, SameLines, SamePlaces
    <3>5. Unmade(mk)'
      BY <2>1, <2>3, <3>3 DEF Tracked, Unmade, SameLines, SamePlaces, SameWants, SameClient
    <3>6. Due(mk)'
      BY <2>1, <2>2, <2>3, <3>3 DEF Tracked, Due, SameLines, SamePlaces, SameWants, SameClient
    <3> QED
      BY <3>2, <3>4, <3>5, <3>6 DEF Tracked
  <2>6. CASE mk.client # c
    <3>1. ~Holds(s, mk)
      <4> SUFFICES ASSUME NEW i \in 1..Len(s), s[i].make = mk
                   PROVE  FALSE
        BY DEF Holds
      <4>1. s[i] \in FromClient(c) /\ s[i].type = "MAKECALL"
        BY <1>4, RoutingAssumption DEF OnlyMakes
      <4> QED
        BY <2>6, <4>1 DEF FromClient
    <3>2. ~Holds(a, mk) /\ Once(a, mk)
      BY <1>5, <3>1 DEF Holds, Once
    <3>3. SameRequests(mk)
      BY <1>7, <2>1, <2>2, <2>4, <2>6, <3>2 DEF SameRequests, Asked
    <3>4. Alone(mk)'
      BY <1>7, <2>1, <2>4, <2>6, <3>2 DEF Alone
    <3> QED
      BY <2>1, <2>3, <3>3, <3>4, StaysTracked
  <2> QED
    BY <2>5, <2>6
<1> QED
  BY <1>9, <1>10 DEF Traced, Tracked

LEMMA ServerTraced ==
  ASSUME IInv, Serving, Traced, ServerStep
  PROVE  Traced'
BY HandleTraced, ReadTraced, EventTraced DEF ServerStep

\* What Asterisk makes of a call being made.
LEMMA SameRest ==
  ASSUME UNCHANGED <<batch, toServer, client, alive>>, pg'.ct = pg.ct,
         pg'.callmaking = pg.callmaking, pg'.awaiting = pg.awaiting, NEW mk
  PROVE  /\ SameRequests(mk) /\ SameWants(mk)
         /\ Making(mk)' <=> Making(mk)
         /\ Awaited(mk)' <=> Awaited(mk)
BY DEF SameRequests, SameWants, SameClient, Asked, Read, Making, Awaited, Wanted

LEMMA SameMessages ==
  ASSUME Traced, UNCHANGED <<batch, toServer>>
  PROVE  (\A c \in Clients : OnlyMakes(toServer[c]))' /\ OnlyMakes(batch.msgs)'
BY DEF Traced, OnlyMakes

\* A channel that changes while no call being made moves.
LEMMA LineTraced ==
  ASSUME Traced, UNCHANGED <<batch, toServer, client, alive, originating>>,
         pg'.ct = pg.ct, pg'.callmaking = pg.callmaking, pg'.awaiting = pg.awaiting,
         \A ch \in Channels : /\ caller'[ch].leg = caller[ch].leg
                              /\ caller'[ch].leg # None =>
                                   (caller'[ch].line = "answered"
                                    <=> caller[ch].line = "answered"),
         Nameless(manager)',
         \A mk \in Makes : Once(manager, mk)' /\ (Reported(mk)' <=> Reported(mk))
  PROVE  Traced'
<1>1. ASSUME NEW mk \in Makes
      PROVE  Alone(mk)' /\ Tracked(mk)'
  <2>1. Alone(mk) /\ Tracked(mk)
    BY DEF Traced, Tracked
  <2>2. Alone(mk)'
    BY <2>1 DEF Alone, Once
  <2>3. SameLines(mk)
    BY RoutingAssumption DEF SameLines, Dialled, LegOf, Answered
  <2>4. SameRequests(mk) /\ SameWants(mk) /\ SamePlaces(mk)
    BY SameRest DEF SamePlaces
  <2> QED
    BY <2>1, <2>2, <2>3, <2>4, StaysTracked
<1> QED
  BY <1>1, SameMessages DEF Traced, Tracked

\* An event that the manager queues.
LEMMA EventAppended ==
  ASSUME IInv, Traced, NEW e \in Events, manager' = Append(manager, e),
         e.type = "HANGUP" => e.make = None
  PROVE  /\ Nameless(manager)'
         /\ \A mk : /\ Reported(mk)' <=> (Reported(mk) \/ e.make = mk)
                    /\ Once(manager, mk) /\ (e.make = mk => ~Reported(mk)) =>
                         Once(manager, mk)'
<1>1. manager \in Seq(Events)
  BY DEF IInv, AsteriskTyped
<1>2. \A i \in 1..Len(manager') :
        \/ manager'[i] = e
        \/ i \in 1..Len(manager) /\ manager'[i] = manager[i]
  BY EventQueued
<1>3. Nameless(manager)'
  BY <1>2 DEF Traced, Nameless
<1>4. ASSUME NEW mk
      PROVE  /\ Reported(mk)' <=> (Reported(mk) \/ e.make = mk)
             /\ Once(manager, mk) /\ (e.make = mk => ~Reported(mk)) =>
                  Once(manager, mk)'
  <2>1. /\ Holds(Append(manager, e), mk) <=> (Holds(manager, mk) \/ e.make = mk)
        /\ Once(manager, mk) /\ (e.make = mk => ~Holds(manager, mk)) =>
             Once(Append(manager, e), mk)
    BY <1>1, AppendHolds
  <2>2. Holds(manager', mk) <=> Reported(mk)'
    BY DEF Holds, Reported
  <2>3. Once(manager', mk) => Once(manager, mk)'
    BY DEF Once
  <2> QED
    BY <2>1, <2>2, <2>3 DEF Reported
<1> QED
  BY <1>3, <1>4

LEMMA AsteriskTraced ==
  ASSUME IInv, Traced, AsteriskStep
  PROVE  Traced'
<1>1. /\ pg \in Knowledge /\ caller \in [Channels -> CallState]
  BY DEF IInv, Good, AsteriskTyped
<1>2. ASSUME NEW ch \in Channels, Connects(ch)
      PROVE  /\ pg'.ct = pg.ct /\ pg'.callmaking = pg.callmaking
             /\ pg'.awaiting = pg.awaiting
  BY <1>1, <1>2, AgiSet DEF Connects
<1>3. ASSUME UNCHANGED manager
      PROVE  /\ Nameless(manager)'
             /\ \A mk \in Makes : Once(manager, mk)' /\ (Reported(mk)' <=> Reported(mk))
  BY <1>3 DEF Traced, Alone, Nameless, Once, Reported
<1>4. ASSUME NEW ch \in Channels, CallComes(ch)
      PROVE  Traced'
  <2>1. caller[ch].line = "idle" /\ caller[ch].leg = None /\ Connects(ch)
    BY <1>4 DEF CallComes, IInv, Unused
  <2>2. PICK dnis, self : caller' = [caller EXCEPT ![ch] =
             [line |-> "up", dnis |-> dnis, self |-> self, leg |-> None, bye |-> FALSE]]
    BY <1>4 DEF CallComes
  <2>3. \A x \in Channels : /\ caller'[x].leg = caller[x].leg
                            /\ caller'[x].leg # None =>
                                 (caller'[x].line = "answered"
                                  <=> caller[x].line = "answered")
    BY <1>1, <2>1, <2>2
  <2>4. UNCHANGED <<batch, toServer, client, alive, originating, manager>>
    BY <1>4 DEF CallComes, toClients
  <2> QED
    BY <1>2, <1>3, <2>1, <2>3, <2>4, LineTraced
<1>5. ASSUME NEW ch \in Channels, LegConnects(ch)
      PROVE  Traced'
  <2>1. UNCHANGED <<batch, toServer, client, alive, astVars, manager>> /\ Connects(ch)
    BY <1>5 DEF LegConnects, toClients
  <2> QED
    BY <1>2, <1>3, <2>1, LineTraced DEF astVars
<1>6. ASSUME NEW ch \in Channels, HangsUp(ch)
      PROVE  Traced'
  <2>1. /\ caller[ch].line = "up" /\ caller' = [caller EXCEPT ![ch].line = "over"]
        /\ UNCHANGED <<pg, batch, toServer, client, alive, originating>>
        /\ \/ UNCHANGED manager
           \/ manager' = Append(manager, Event("HANGUP", None, ch))
    BY <1>6 DEF HangsUp, serverVars, toClients
  <2>2. \A x \in Channels : /\ caller'[x].leg = caller[x].leg
                            /\ (caller'[x].line = "answered"
                                <=> caller[x].line = "answered")
    BY <1>1, <2>1 DEF CallState
  <2>3. CASE manager' = Append(manager, Event("HANGUP", None, ch))
    <3>1. Event("HANGUP", None, ch) \in Events /\ Event("HANGUP", None, ch).make = None
      BY DEF Event, Events
    <3>2. /\ Nameless(manager)'
          /\ \A mk \in Makes : Once(manager, mk)' /\ (Reported(mk)' <=> Reported(mk))
      BY <2>3, <3>1, EventAppended, RoutingAssumption DEF Traced, Alone
    <3> QED
      BY <2>1, <2>2, <3>2, LineTraced
  <2> QED
    BY <1>3, <2>1, <2>2, <2>3, LineTraced
<1>7. ASSUME NEW ch \in Channels, AnswerReported(ch)
      PROVE  Traced'
  <2>1. /\ caller[ch].line = "answered" /\ caller' = [caller EXCEPT ![ch].line = "up"]
        /\ UNCHANGED <<pg, batch, toServer, client, alive, originating>>
        /\ manager' = Append(manager, Event("SUCCESS", caller[ch].leg, ch))
    BY <1>7 DEF AnswerReported, serverVars, toClients
  <2>2. PICK mk0 \in Makes : mk0 = caller[ch].leg
    BY <1>1, <2>1 DEF IInv, LegsKnown, CallState
  <2> DEFINE e == Event("SUCCESS", mk0, ch)
  <2>3. e \in Events /\ e.make = mk0 /\ e.type = "SUCCESS"
    BY DEF Event, Events
  <2>4. manager' = Append(manager, e)
    BY <2>1, <2>2
  <2> HIDE DEF e
  <2>5. Answered(mk0) /\ LegOf(mk0) /\ Apart(mk0)
    BY <2>1, <2>2 DEF Answered, LegOf, Traced
  <2>6. ~Reported(mk0) /\ ~Dialled(mk0) /\ Making(mk0)
    BY <2>5 DEF Apart
  <2>7. /\ Nameless(manager)'
        /\ \A mk \in Makes : Once(manager, mk)' /\ (Reported(mk)' <=> (Reported(mk) \/ mk = mk0))
    BY <2>3, <2>4, <2>6, EventAppended DEF Traced, Alone
  <2>8. /\ \A x \in Channels : caller'[x].leg = caller[x].leg
        /\ \A x \in Channels : x # ch => caller'[x].line = caller[x].line
        /\ caller'[ch].line = "up"
    BY <1>1, <2>1 DEF CallState
  <2>9. ASSUME NEW mk \in Makes
        PROVE  Alone(mk)' /\ Tracked(mk)'
    <3>1. Alone(mk) /\ Tracked(mk)
      BY DEF Traced, Tracked
    <3>2. Alone(mk)'
      BY <2>1, <2>7, <2>8, <3>1 DEF Alone, Once
    <3>3. /\ SameRequests(mk) /\ SameWants(mk)
          /\ Making(mk)' <=> Making(mk)
          /\ Awaited(mk)' <=> Awaited(mk)
      BY <2>1, SameRest
    <3>4. (LegOf(mk)' <=> LegOf(mk)) /\ (Dialled(mk)' <=> Dialled(mk))
      BY <2>1, <2>8 DEF LegOf, Dialled
    <3>5. CASE mk # mk0
      <4>1. Answered(mk)' <=> Answered(mk)
        BY <2>2, <2>8, <3>5 DEF Answered
      <4>2. SameLines(mk) /\ SamePlaces(mk)
        BY <2>7, <3>3, <3>4, <3>5, <4>1 DEF SameLines, SamePlaces
      <4> QED
        BY <3>1, <3>2, <3>3, <4>2, StaysTracked
    <3>6. CASE mk = mk0
      <4>1. ~Answered(mk)'
        BY <2>2, <2>8, <3>1, <3>6 DEF Answered, Alone
      <4>2. Reported(mk)'
        BY <2>7, <3>6
      <4>3. Apart(mk)'
        BY <2>5, <2>6, <3>1, <3>3, <3>4, <3>6, <4>1, <4>2
           DEF Tracked, Apart, SameRequests
      <4>4. Unmade(mk)'
        BY <3>1, <3>3, <3>4 DEF Tracked, Unmade, SameRequests, SameWants, SameClient
      <4>5. Due(mk)'
        BY <3>1, <3>3 DEF Tracked, Due, SameRequests, SameWants, SameClient
      <4> QED
        BY <3>2, <4>3, <4>4, <4>5 DEF Tracked
    <3> QED
      BY <3>5, <3>6
  <2> QED
    BY <2>1, <2>7, <2>9, SameMessages DEF Traced, Tracked
<1>8. ASSUME NEW ch \in Channels, NEW mk0 \in Makes, Answers(ch, mk0)
      PROVE  Traced'
  <2>1. /\ mk0 \in originating /\ caller[ch].line = "idle"
        /\ originating' = originating \ {mk0}
        /\ UNCHANGED <<pg, batch, toServer, manager, client, alive>>
    BY <1>8 DEF Answers, serverVars, toClients
  <2>2. /\ caller'[ch].line = "answered" /\ caller'[ch].leg = mk0
        /\ \A x \in Channels : x # ch => caller'[x] = caller[x]
    BY <1>1, <1>8 DEF Answers
  <2>3. caller[ch].leg = None
    BY <2>1 DEF IInv, Unused
  <2>4. Dialled(mk0) /\ Apart(mk0)
    BY <2>1 DEF Dialled, Traced
  <2>5. ~LegOf(mk0) /\ ~Reported(mk0) /\ Making(mk0) /\ ~Asked(mk0) /\ ~Read(mk0)
    BY <2>4 DEF Apart
  <2>6. /\ Nameless(manager)'
        /\ \A mk \in Makes : Once(manager, mk)' /\ (Reported(mk)' <=> Reported(mk))
    BY <1>3, <2>1
  <2>7. ASSUME NEW mk \in Makes
        PROVE  Alone(mk)' /\ Tracked(mk)'
    <3>1. Alone(mk) /\ Tracked(mk)
      BY DEF Traced, Tracked
    <3>2. /\ SameRequests(mk) /\ SameWants(mk)
          /\ Making(mk)' <=> Making(mk)
          /\ Awaited(mk)' <=> Awaited(mk)
      BY <2>1, SameRest
    <3>3. CASE mk # mk0
      <4>1. \A x \in Channels : /\ caller'[x].leg = mk <=> caller[x].leg = mk
                                /\ caller'[x].leg = mk => caller'[x] = caller[x]
                                /\ caller[x].leg = mk => caller'[x] = caller[x]
        BY <2>2, <2>3, <3>3, RoutingAssumption
      <4>2. SameLines(mk)
        BY <2>1, <3>3, <4>1 DEF SameLines, Dialled, LegOf, Answered
      <4>3. Alone(mk)'
        BY <2>1, <3>1, <4>1 DEF Alone, Once
      <4>4. SamePlaces(mk)
        BY <2>6, <3>2 DEF SamePlaces
      <4> QED
        BY <3>1, <3>2, <4>2, <4>3, <4>4, StaysTracked
    <3>4. CASE mk = mk0
      <4>1. \A x \in Channels : caller'[x].leg = mk => x = ch
        BY <2>2, <2>5, <3>4 DEF LegOf
      <4>2. Alone(mk)'
        BY <2>1, <3>1, <4>1 DEF Alone, Once
      <4>3. LegOf(mk)' /\ Answered(mk)' /\ ~Dialled(mk)' /\ ~Reported(mk)'
        BY <2>1, <2>2, <2>5, <2>6, <3>4 DEF LegOf, Answered, Dialled
      <4>4. Making(mk)' /\ ~Asked(mk)' /\ ~Read(mk)' /\ ~Awaited(mk)'
        BY <2>4, <2>5, <3>2, <3>4 DEF Apart, SameRequests
      <4>5. Apart(mk)'
        BY <4>3, <4>4 DEF Apart
      <4>6. Unmade(mk)'
        BY <2>5, <3>1, <3>2, <3>4 DEF Tracked, Unmade, SameWants, SameClient
      <4>7. Due(mk)'
        BY <3>1, <3>2 DEF Tracked, Due, SameRequests, SameWants, SameClient
      <4> QED
        BY <4>2, <4>5, <4>6, <4>7 DEF Tracked
    <3> QED
      BY <3>3, <3>4
  <2> QED
    BY <2>1, <2>6, <2>7, SameMessages DEF Traced, Tracked
<1>9. ASSUME NEW mk0 \in Makes, Fails(mk0)
      PROVE  Traced'
  <2> DEFINE e == Event("FAILURE", mk0, None)
  <2>1. /\ mk0 \in originating /\ originating' = originating \ {mk0}
        /\ UNCHANGED <<pg, batch, toServer, client, alive, caller>>
        /\ manager' = Append(manager, e)
    BY <1>9 DEF Fails, serverVars, toClients
  <2>2. e \in Events /\ e.make = mk0 /\ e.type = "FAILURE"
    BY DEF Event, Events
  <2> HIDE DEF e
  <2>3. Dialled(mk0) /\ Apart(mk0)
    BY <2>1 DEF Dialled, Traced
  <2>4. ~LegOf(mk0) /\ ~Reported(mk0) /\ Making(mk0) /\ ~Answered(mk0)
    BY <2>3 DEF Apart, LegOf, Answered
  <2>5. /\ Nameless(manager)'
        /\ \A mk \in Makes : Once(manager, mk)' /\ (Reported(mk)' <=> (Reported(mk) \/ mk = mk0))
    BY <2>1, <2>2, <2>4, EventAppended DEF Traced, Alone
  <2>6. ASSUME NEW mk \in Makes
        PROVE  Alone(mk)' /\ Tracked(mk)'
    <3>1. Alone(mk) /\ Tracked(mk)
      BY DEF Traced, Tracked
    <3>2. Alone(mk)'
      BY <2>1, <2>5, <3>1 DEF Alone, Once
    <3>3. /\ SameRequests(mk) /\ SameWants(mk)
          /\ Making(mk)' <=> Making(mk)
          /\ Awaited(mk)' <=> Awaited(mk)
      BY <2>1, SameRest
    <3>4. (LegOf(mk)' <=> LegOf(mk)) /\ (Answered(mk)' <=> Answered(mk))
      BY <2>1 DEF LegOf, Answered
    <3>5. CASE mk # mk0
      <4>1. Dialled(mk)' <=> Dialled(mk)
        BY <2>1, <3>5 DEF Dialled
      <4>2. SameLines(mk) /\ SamePlaces(mk)
        BY <2>5, <3>3, <3>4, <3>5, <4>1 DEF SameLines, SamePlaces
      <4> QED
        BY <3>1, <3>2, <3>3, <4>2, StaysTracked
    <3>6. CASE mk = mk0
      <4>1. ~Dialled(mk)' /\ Reported(mk)'
        BY <2>1, <2>5, <3>6 DEF Dialled
      <4>2. Apart(mk)'
        BY <2>4, <3>1, <3>3, <3>4, <3>6, <4>1 DEF Tracked, Apart, SameRequests
      <4>3. Unmade(mk)'
        BY <3>1, <3>3, <3>4 DEF Tracked, Unmade, SameRequests, SameWants, SameClient
      <4>4. Due(mk)'
        BY <3>1, <3>3 DEF Tracked, Due, SameRequests, SameWants, SameClient
      <4> QED
        BY <3>2, <4>2, <4>3, <4>4 DEF Tracked
    <3> QED
      BY <3>5, <3>6
  <2> QED
    BY <2>1, <2>5, <2>6, SameMessages DEF Traced, Tracked
<1> QED
  BY <1>4, <1>5, <1>6, <1>7, <1>8, <1>9 DEF AsteriskStep

\* A request that makes no call.
LEMMA RequestTraced ==
  ASSUME IInv, Traced, NEW c \in Clients, NEW m \in Messages, m.make = None,
         toServer' = [toServer EXCEPT ![c] = Append(@, m)],
         UNCHANGED <<pg, batch, manager, astVars>>, \A mk \in Makes : SameWants(mk)
  PROVE  Traced'
<1>1. toServer \in [Clients -> Seq(Messages)]
  BY DEF IInv, RequestWire
<1>2. /\ toServer'[c] = Append(toServer[c], m) /\ toServer[c] \in Seq(Messages)
      /\ \A d \in Clients : d # c => toServer'[d] = toServer[d]
  BY <1>1
<1>3. ASSUME NEW mk \in Makes
      PROVE  /\ Holds(toServer'[mk.client], mk) <=> Holds(toServer[mk.client], mk)
             /\ Once(toServer[mk.client], mk) => Once(toServer'[mk.client], mk)
  <2>1. m.make # mk /\ mk.client \in Clients
    BY RoutingAssumption DEF Makes, Others
  <2>2. /\ Holds(Append(toServer[c], m), mk) <=> (Holds(toServer[c], mk) \/ m.make = mk)
        /\ Once(toServer[c], mk) /\ (m.make = mk => ~Holds(toServer[c], mk)) =>
             Once(Append(toServer[c], m), mk)
    BY <1>2, AppendHolds
  <2> QED
    BY <1>2, <2>1, <2>2
<1>4. ASSUME NEW d \in Clients
      PROVE  OnlyMakes(toServer'[d])
  <2>1. OnlyMakes(toServer[d])
    BY DEF Traced
  <2>2. CASE d = c
    <3>1. \A i \in 1..Len(Append(toServer[c], m)) :
            \/ i \in 1..Len(toServer[c]) /\ Append(toServer[c], m)[i] = toServer[c][i]
            \/ Append(toServer[c], m)[i] = m
      BY <1>2, Appended
    <3> QED
      BY <1>2, <2>1, <2>2, <3>1 DEF OnlyMakes
  <2> QED
    BY <1>2, <2>1, <2>2
<1>5. ASSUME NEW mk \in Makes
      PROVE  Alone(mk)' /\ Tracked(mk)'
  <2>1. Alone(mk) /\ Tracked(mk)
    BY DEF Traced, Tracked
  <2>2. /\ Asked(mk)' <=> Holds(toServer'[mk.client], mk)
        /\ Once(toServer[mk.client], mk)' <=> Once(toServer'[mk.client], mk)
    BY DEF Asked, Holds, Once
  <2>3. Alone(mk)'
    BY <1>3, <2>1, <2>2 DEF Alone, Once, astVars
  <2>4. SameRequests(mk)
    BY <1>3, <2>2 DEF SameRequests, Asked, Read
  <2>5. SameLines(mk) /\ SamePlaces(mk)
    BY DEF SameLines, SamePlaces, Dialled, LegOf, Answered, Reported, Making, Awaited,
           astVars
  <2> QED
    BY <2>1, <2>3, <2>4, <2>5, StaysTracked
<1>6. (\A d \in Clients : OnlyMakes(toServer[d]))' /\ OnlyMakes(batch.msgs)' /\ Nameless(manager)'
  BY <1>4 DEF Traced, OnlyMakes, Nameless
<1> QED
  BY <1>5, <1>6 DEF Traced, Tracked

\* A client that says something else than that it is to make a call.
LEMMA OtherRequestTraced ==
  ASSUME IInv, Traced, NEW c \in Others, NEW m \in Messages, m.make = None,
         Request(c, m), UNCHANGED <<pg, batch, manager, astVars, alive>>,
         \A d \in Others : /\ client'[d].making = client[d].making
                           /\ client'[d].made = client[d].made
  PROVE  Traced'
<1>1. \A mk \in Makes : SameWants(mk)
  <2> TAKE mk \in Makes
  <2>1. mk.client \in Others
    BY DEF Makes
  <2> QED
    BY <2>1 DEF SameWants, SameClient, Wanted
<1>2. c \in Clients
  BY DEF Others
<1> QED
  BY <1>1, <1>2, RequestTraced DEF Request

LEMMA MakesCallTraced ==
  ASSUME IInv, Traced, NEW c \in Others, MakesCall(c),
         UNCHANGED <<pg, batch, manager, astVars, alive>>
  PROVE  Traced'
<1>1. client \in [Others -> ClientState] /\ client[c] \in ClientState
  BY DEF IInv, ClientWires
<1>2. client[c].made \in Nat /\ c \in alive /\ client[c].made < MaxMakes
  BY <1>1 DEF ClientState, MakesCall, Request
<1>3. PICK k : k = client[c].made + 1
  OBVIOUS
<1>4. PICK mk0 : mk0 = [client |-> c, id |-> k]
  OBVIOUS
<1>5. /\ mk0 \in Makes /\ mk0.client = c /\ mk0.id > client[c].made
      /\ c \in Clients
  <2>1. k \in 1..MaxMakes /\ k > client[c].made
    BY <1>2, <1>3, RoutingAssumption
  <2> QED
    BY <1>4, <2>1 DEF Makes, Others
<1> DEFINE m == [Message("MAKECALL") EXCEPT !.make = mk0]
<1>6. /\ toServer' = [toServer EXCEPT ![c] = Append(@, m)]
      /\ client' = [client EXCEPT ![c].made = @ + 1, ![c].sent = @ + 1,
                                  ![c].making = @ \cup {mk0}]
  BY <1>3, <1>4 DEF MakesCall, Request
<1>7. m \in Messages /\ m.make = mk0 /\ m.type = "MAKECALL"
  <2>1. m \in FromClient(c)
    BY <1>5, MakeRequests
  <2> QED
    BY <2>1 DEF FromClient, Message
<1> HIDE DEF m
<1>8. /\ client'[c].making = client[c].making \cup {mk0}
      /\ client'[c].made = k
      /\ \A d \in Others : d # c => client'[d] = client[d]
  BY <1>1, <1>3, <1>6 DEF ClientState
<1>9. /\ toServer \in [Clients -> Seq(Messages)]
      /\ toServer'[c] = Append(toServer[c], m) /\ toServer[c] \in Seq(Messages)
      /\ \A d \in Clients : d # c => toServer'[d] = toServer[d]
  BY <1>5, <1>6 DEF IInv, RequestWire
<1>10. Tracked(mk0) /\ Alone(mk0)
  BY <1>5 DEF Traced, Tracked
<1>11. ~Asked(mk0) /\ ~Read(mk0) /\ ~Making(mk0) /\ ~LegOf(mk0) /\ ~Wanted(mk0)
  BY <1>2, <1>5, <1>10 DEF Tracked, Unmade
<1>12. ASSUME NEW mk \in Makes
       PROVE  /\ Asked(mk)' <=> (Asked(mk) \/ mk = mk0)
              /\ Alone(mk)'
  <2>1. mk.client \in Clients /\ Alone(mk)
    BY DEF Makes, Others, Traced
  <2>2. /\ Asked(mk)' <=> Holds(toServer'[mk.client], mk)
        /\ Once(toServer[mk.client], mk)' <=> Once(toServer'[mk.client], mk)
    BY DEF Asked, Holds, Once
  <2>3. /\ Holds(Append(toServer[c], m), mk) <=> (Holds(toServer[c], mk) \/ m.make = mk)
        /\ Once(toServer[c], mk) /\ (m.make = mk => ~Holds(toServer[c], mk)) =>
             Once(Append(toServer[c], m), mk)
    BY <1>7, <1>9, AppendHolds
  <2>4. CASE mk.client = c
    <3>1. /\ Asked(mk)' <=> (Asked(mk) \/ mk = mk0)
          /\ Once(toServer'[mk.client], mk)
      BY <1>5, <1>7, <1>9, <1>11, <2>1, <2>2, <2>3, <2>4 DEF Asked, Alone
    <3> QED
      BY <2>1, <2>2, <3>1 DEF Alone, Once, astVars
  <2>5. CASE mk.client # c
    <3>1. toServer'[mk.client] = toServer[mk.client] /\ mk # mk0
      BY <1>5, <1>9, <2>1, <2>5
    <3>2. Asked(mk)' <=> Asked(mk)
      BY <2>2, <3>1 DEF Asked
    <3>3. Once(toServer'[mk.client], mk)
      BY <2>1, <3>1 DEF Alone
    <3> QED
      BY <2>1, <2>2, <3>1, <3>2, <3>3 DEF Alone, Once, astVars
  <2> QED
    BY <2>4, <2>5
<1>13. ASSUME NEW mk \in Makes
       PROVE  Tracked(mk)'
  <2>1. Tracked(mk) /\ mk.client \in Others
    BY DEF Traced, Tracked, Makes
  <2>2. SameLines(mk) /\ SamePlaces(mk) /\ (Read(mk)' <=> Read(mk))
    BY DEF SameLines, SamePlaces, Dialled, LegOf, Answered, Reported, Making, Awaited,
           Read, astVars
  <2>3. CASE mk = mk0
    <3>1. /\ Asked(mk)' /\ ~Read(mk)' /\ ~Making(mk)' /\ ~LegOf(mk)'
          /\ Wanted(mk)'
      BY <1>5, <1>8, <1>11, <1>12, <2>2, <2>3 DEF SameLines, SamePlaces, Wanted
    <3>2. ~Awaited(mk)
      BY <1>11, <2>3, AwaitedLeg
    <3>3. Apart(mk)'
      BY <2>1, <2>2, <2>3, <3>1, <3>2 DEF Tracked, Apart, SameLines, SamePlaces
    <3>4. ~(mk.id > client'[mk.client].made)
      <4>1. mk.id = k /\ client'[mk.client].made = k
        BY <1>4, <1>8, <2>3
      <4>2. k \in Nat
        BY <1>2, <1>3
      <4> QED
        BY <4>1, <4>2
    <3> QED
      BY <3>1, <3>3, <3>4 DEF Tracked, Unmade, Due
  <2>4. CASE mk # mk0
    <3>1. SameRequests(mk)
      BY <1>12, <2>2, <2>4 DEF SameRequests
    <3>2. Wanted(mk)' <=> Wanted(mk)
      BY <1>8, <2>1, <2>4 DEF Wanted
    <3>3. Apart(mk)'
      BY <2>1, <2>2, <3>1 DEF Tracked, Apart, SameLines, SamePlaces, SameRequests
    <3>4. Due(mk)'
      BY <2>1, <2>2, <3>1, <3>2 DEF Tracked, Due, SameLines, SamePlaces, SameRequests
    <3>5. mk.id > client'[mk.client].made => mk.id > client[mk.client].made
      <4>1. CASE mk.client = c
        <5>1. mk.id \in Nat /\ client'[mk.client].made = client[mk.client].made + 1
          BY <1>3, <1>8, <4>1 DEF Makes
        <5> QED
          BY <1>2, <4>1, <5>1
      <4>2. CASE mk.client # c
        BY <1>8, <2>1, <4>2
      <4> QED
        BY <4>1, <4>2
    <3>6. Unmade(mk)'
      BY <2>1, <2>2, <3>1, <3>2, <3>5
         DEF Tracked, Unmade, SameLines, SamePlaces, SameRequests
    <3> QED
      BY <3>3, <3>4, <3>6 DEF Tracked
  <2> QED
    BY <2>3, <2>4
<1>14. ASSUME NEW d \in Clients
       PROVE  OnlyMakes(toServer'[d])
  <2>1. OnlyMakes(toServer[d])
    BY DEF Traced
  <2>2. CASE d = c
    <3>1. \A i \in 1..Len(Append(toServer[c], m)) :
            \/ i \in 1..Len(toServer[c]) /\ Append(toServer[c], m)[i] = toServer[c][i]
            \/ Append(toServer[c], m)[i] = m
      BY <1>7, <1>9, Appended
    <3> QED
      BY <1>7, <1>9, <2>1, <2>2, <3>1 DEF OnlyMakes
  <2> QED
    BY <1>9, <2>1, <2>2
<1>15. (\A d \in Clients : OnlyMakes(toServer[d]))' /\ OnlyMakes(batch.msgs)' /\ Nameless(manager)'
  BY <1>14 DEF Traced, OnlyMakes, Nameless
<1> QED
  BY <1>12, <1>13, <1>15 DEF Traced, Tracked

LEMMA ClientTraced ==
  ASSUME IInv, Traced, NEW c \in Others, ClientStep(c)
  PROVE  Traced'
<1>1. UNCHANGED <<pg, batch, manager, astVars>>
  BY DEF ClientStep, serverVars
<1>2. c \in Clients /\ client \in [Others -> ClientState] /\ client[c] \in ClientState
  BY DEF Others, IInv, ClientWires
<1>3. ASSUME Configures(c), UNCHANGED alive
      PROVE  Traced'
  <2>1. PICK m \in Messages : m.make = None /\ Asks(c, m)
    <3>1. \A toself \in BOOLEAN : /\ [Message("START") EXCEPT !.toself = toself] \in Messages
                                  /\ [Message("START") EXCEPT !.toself = toself].make = None
      BY <1>2, StartRequests DEF FromClient, Message
    <3>2. \A type \in {"ALLOWIN", "STOPIN", "STOP"} :
             Message(type) \in Messages /\ Message(type).make = None
      BY <1>2, PlainRequests DEF FromClient, Message
    <3>3. \A type \in {"REG", "UNREG"}, url \in Urls :
             AboutUrl(type, url) \in Messages /\ AboutUrl(type, url).make = None
      BY <1>2, UrlRequests DEF FromClient, AboutUrl, Message
    <3> QED
      BY <1>3, <3>1, <3>2, <3>3 DEF Configures
  <2>2. /\ Request(c, m)
        /\ client' = [client EXCEPT ![c].asked = m.type, ![c].started = TRUE,
                                    ![c].sent = @ + 1]
    BY <2>1 DEF Asks
  <2>3. \A d \in Others : /\ client'[d].making = client[d].making
                          /\ client'[d].made = client[d].made
    BY <1>2, <2>2 DEF ClientState
  <2> QED
    BY <1>1, <1>3, <2>1, <2>2, <2>3, OtherRequestTraced
<1>4. ASSUME NEW ch \in Channels, Releases(c, ch), UNCHANGED alive
      PROVE  Traced'
  <2>1. /\ Request(c, AboutCall("RELEASE", ch))
        /\ client' = [client EXCEPT ![c].calls = @ \ {ch}, ![c].sent = @ + 1]
    BY <1>4 DEF Releases
  <2>2. \A d \in Others : /\ client'[d].making = client[d].making
                          /\ client'[d].made = client[d].made
    BY <1>2, <2>1 DEF ClientState
  <2>3. AboutCall("RELEASE", ch) \in Messages /\ AboutCall("RELEASE", ch).make = None
    <3>1. AboutCall("RELEASE", ch) \in FromClient(c)
      BY <1>2, CallRequests
    <3> QED
      BY <3>1 DEF FromClient, AboutCall, Message
  <2> QED
    BY <1>1, <1>4, <2>1, <2>2, <2>3, OtherRequestTraced
<1>5. ASSUME ClientDies(c)
      PROVE  Traced'
  <2>1. alive' = alive \ {c} /\ client' = [client EXCEPT ![c] = Fresh] /\ UNCHANGED toServer
    BY <1>5 DEF ClientDies
  <2>2. ASSUME NEW mk \in Makes
        PROVE  Alone(mk)' /\ Tracked(mk)'
    <3>1. Alone(mk) /\ Tracked(mk) /\ mk.client \in Others
      BY DEF Traced, Tracked, Makes
    <3>2. SameWants(mk)
      <4>1. CASE mk.client = c
        BY <1>1, <2>1, <4>1 DEF SameWants, SameClient
      <4>2. CASE mk.client # c
        BY <1>1, <1>2, <2>1, <3>1, <4>2 DEF SameWants, SameClient, Wanted
      <4> QED
        BY <4>1, <4>2
    <3>3. SamePlaces(mk)
      BY <1>1 DEF SamePlaces, Reported, Making, Awaited
    <3> QED
      BY <1>1, <2>1, <3>1, <3>2, <3>3, SamePlacesOf, SameAlone, StaysTracked
  <2>3. Nameless(manager)'
    BY <1>1 DEF Traced, Nameless
  <2> QED
    BY <1>1, <2>1, <2>2, <2>3, SameMessages DEF Traced, Tracked
<1> QED
  BY <1>1, <1>3, <1>4, <1>5, MakesCallTraced DEF ClientStep

LEMMA VglueTraced ==
  ASSUME IInv, Serving, Traced, VglueStep \/ StopCommand
  PROVE  Traced'
<1>1. UNCHANGED <<pg, batch, manager, astVars, client>> /\ (alive' \subseteq alive)
  BY DEF VglueStep, StopCommand, Begin, InitializeCtServer, Initialize,
         HandleMsgFromCtServer, Shutdown, ThreadEnds, serverVars
<1>2. Vglue \in Clients /\ \A mk \in Makes : mk.client # Vglue
  BY RoutingAssumption DEF Makes, Others
<1>3. \A d \in Others : d # Vglue
  BY DEF Others
<1>4. ASSUME NEW mk \in Makes
      PROVE  SameWants(mk)
  BY <1>1 DEF SameWants, SameClient, Wanted
<1>5. CASE UNCHANGED toServer
  <2>1. ASSUME NEW mk \in Makes
        PROVE  Alone(mk)' /\ Tracked(mk)'
    <3>1. Alone(mk) /\ Tracked(mk)
      BY DEF Traced, Tracked
    <3>2. SamePlaces(mk)
      BY <1>1 DEF SamePlaces, Reported, Making, Awaited
    <3> QED
      BY <1>1, <1>4, <1>5, <3>1, <3>2, SamePlacesOf, SameAlone, StaysTracked
  <2>2. Nameless(manager)'
    BY <1>1 DEF Traced, Nameless
  <2> QED
    BY <1>1, <1>5, <2>1, <2>2, SameMessages DEF Traced, Tracked
<1>6. ASSUME NEW m \in Messages, m.make = None, Send(m)
      PROVE  Traced'
  BY <1>1, <1>2, <1>4, <1>6, RequestTraced DEF Send
<1>7. \A type \in Requests, url \in Urls, toself \in BOOLEAN :
        /\ Message(type) \in Messages /\ AboutUrl(type, url) \in Messages
        /\ [Message(type) EXCEPT !.toself = toself] \in Messages
  BY PlainIsMessage
<1>8. /\ \A type : Message(type).make = None
      /\ \A type, url : AboutUrl(type, url).make = None
      /\ \A type, ch : AboutCall(type, ch).make = None
      /\ \A type, toself : [Message(type) EXCEPT !.toself = toself].make = None
  BY DEF Message, AboutUrl, AboutCall
<1>9. \A type \in {"RELEASE", "HANGUP"}, ch \in Channels : AboutCall(type, ch) \in Messages
  BY <1>2, CallRequests DEF FromClient
<1>10. /\ "START" \in Requests /\ "REG" \in Requests /\ "ALLOWIN" \in Requests
       /\ "STOPIN" \in Requests /\ "STOP" \in Requests /\ Registered \in Urls
  BY LifecycleAssumption DEF Requests
<1>11. CASE Begin
  BY <1>6, <1>7, <1>8, <1>10, <1>11 DEF Begin
<1>12. CASE InitializeCtServer
  <2>1. \/ UNCHANGED toServer
        \/ Send(AboutUrl("REG", Registered)) \/ Send(Message("ALLOWIN"))
    BY <1>12 DEF InitializeCtServer, Initialize
  <2> QED
    BY <1>5, <1>6, <1>7, <1>8, <1>10, <2>1
<1>13. CASE HandleMsgFromCtServer
  <2>1. PICK x : x = Head(fromServer).call
    OBVIOUS
  <2>2. \/ UNCHANGED toServer
        \/ Head(fromServer).type = "INCOMING" /\ Send(AboutCall("HANGUP", x))
    BY <1>13, <2>1 DEF HandleMsgFromCtServer, HandleSatcIncoming, HandleSatcHungupOrReleased
  <2>3. Head(fromServer).type = "INCOMING" => x \in Channels
    <3>1. fromServer \in Seq(ToClients) /\ fromServer # <<>>
      BY <1>13 DEF HandleMsgFromCtServer, IInv, ClientWires
    <3>2. Head(fromServer) \in ToClients
      BY <3>1, HeadTailProperties
    <3> QED
      BY <2>1, <3>2 DEF ToClients
  <2> QED
    BY <1>5, <1>6, <1>8, <1>9, <2>2, <2>3
<1>14. CASE \E ch \in Channels : ThreadEnds(ch)
  <2>1. \/ UNCHANGED toServer
        \/ \E ch \in Channels : Send(AboutCall("RELEASE", ch))
    BY <1>14 DEF ThreadEnds
  <2> QED
    BY <1>5, <1>6, <1>8, <1>9, <2>1
<1>15. CASE StopCommand \/ Shutdown
  <2>1. Send(Message("STOPIN")) \/ Send(Message("STOP"))
    BY <1>15 DEF StopCommand, Shutdown
  <2>2. /\ Message("STOPIN") \in Messages /\ Message("STOP") \in Messages
    BY <1>7, <1>10
  <2> QED
    BY <1>6, <1>8, <2>1, <2>2
<1> QED
  BY <1>11, <1>12, <1>13, <1>14, <1>15 DEF VglueStep

LEMMA TracedInitially ==
  ASSUME Init
  PROVE  Traced
<1>1. PICK here, regs, free : RoutingInit(here, regs, free)
  BY DEF Init
<1>2. /\ toServer = [c \in Clients |-> <<>>] /\ batch.msgs = <<>>
      /\ manager = <<>> /\ originating = {} /\ pg.callmaking = {}
      /\ \A ch \in Channels : pg.awaiting[ch] = None /\ caller[ch].leg = None
  BY <1>1 DEF RoutingInit
<1>3. \A c \in Others : client[c].making = {}
  <2> DEFINE Of(c) == {u \in Urls : <<u, c>> \in regs}
  <2>1. client = [c \in Others |-> IF Of(c) = {} THEN Fresh
                                   ELSE [Fresh EXCEPT !.started = TRUE,
                                                      !.sent = MaxSent]]
    BY <1>1 DEF RoutingInit
  <2> HIDE DEF Of
  <2> QED
    BY <2>1 DEF Fresh
<1>4. ASSUME NEW mk
      PROVE  ~Holds(<<>>, mk) /\ Once(<<>>, mk)
  BY DEF Holds, Once
<1>5. ASSUME NEW mk \in Makes
      PROVE  Alone(mk) /\ Apart(mk) /\ Unmade(mk) /\ Due(mk)
  <2>1. mk.client \in Others /\ mk.client \in Clients /\ mk # None
    BY RoutingAssumption DEF Makes, Others
  <2>2. toServer[mk.client] = <<>> /\ client[mk.client].making = {}
    BY <1>2, <1>3, <2>1
  <2>3. ~Asked(mk) /\ ~Read(mk) /\ ~Reported(mk)
    BY <1>2, <1>4, <2>2 DEF Asked, Read, Reported
  <2>4. ~Dialled(mk) /\ ~LegOf(mk) /\ ~Answered(mk)
    BY <1>2, <2>1 DEF Dialled, LegOf, Answered
  <2>5. ~Making(mk) /\ ~Awaited(mk) /\ ~Wanted(mk)
    BY <1>2, <2>1, <2>2 DEF Making, Awaited, Wanted
  <2>6. Alone(mk)
    <3>1. \A a, b \in Channels : caller[a].leg = mk /\ caller[b].leg = mk => a = b
      BY <1>2, <2>1
    <3> QED
      BY <1>2, <1>4, <2>2, <3>1 DEF Alone
  <2> QED
    BY <2>3, <2>4, <2>5, <2>6 DEF Apart, Unmade, Due
<1>6. \A c \in Clients : OnlyMakes(toServer[c])
  BY <1>2 DEF OnlyMakes
<1>7. OnlyMakes(batch.msgs) /\ Nameless(manager)
  BY <1>2 DEF OnlyMakes, Nameless
<1> QED
  BY <1>5, <1>6, <1>7 DEF Traced

LEMMA StepTraced ==
  ASSUME IInv, Serving, Traced, [Next]_vars
  PROVE  Traced'
<1>1. CASE UNCHANGED vars
  <2>1. UNCHANGED <<pg, batch, toServer, manager, caller, originating, alive, client>>
    BY <1>1 DEF vars, routingVars, serverVars, toClients, astVars
  <2>2. (\A c \in Clients : OnlyMakes(toServer[c]))' /\ OnlyMakes(batch.msgs)'
        /\ Nameless(manager)'
    BY <2>1 DEF Traced, OnlyMakes, Nameless
  <2>3. ASSUME NEW mk \in Makes
        PROVE  Alone(mk)' /\ Tracked(mk)'
    <3>1. Alone(mk) /\ Tracked(mk)
      BY DEF Traced, Tracked
    <3>2. SameRequests(mk) /\ SameLines(mk)
      BY <2>1, SamePlacesOf DEF astVars
    <3>3. SamePlaces(mk) /\ SameWants(mk)
      BY <2>1 DEF SamePlaces, Reported, Making, Awaited, SameWants, SameClient, Wanted
    <3>4. Alone(mk)'
      BY <2>1, <3>1, SameAlone DEF astVars
    <3> QED
      BY <3>1, <3>2, <3>3, <3>4, StaysTracked
  <2> QED
    BY <2>2, <2>3 DEF Traced, Tracked
<1> QED
  BY <1>1, ServerTraced, AsteriskTraced, ClientTraced, VglueTraced DEF Next

-----------------------------------------------------------------------------
(* How often a call being made is somewhere.                                *)

LEMMA CopiesOf ==
  ASSUME NEW seq, NEW mk, Once(seq, mk)
  PROVE  Cardinality({i \in 1..Len(seq) : seq[i].make = mk}) =
           IF Holds(seq, mk) THEN 1 ELSE 0
<1> DEFINE places == {i \in 1..Len(seq) : seq[i].make = mk}
<1>1. CASE Holds(seq, mk)
  <2>1. PICK i \in 1..Len(seq) : seq[i].make = mk
    BY <1>1 DEF Holds
  <2>2. \A j \in 1..Len(seq) : seq[j].make = mk => j = i
    BY <2>1 DEF Once
  <2>3. places = {i}
    BY <2>1, <2>2
  <2>4. Cardinality(places) = 1
    BY <2>3, FS_Singleton
  <2> QED
    BY <1>1, <2>4
<1>2. CASE ~Holds(seq, mk)
  <2>1. places = {}
    BY <1>2 DEF Holds
  <2>2. Cardinality(places) = 0
    BY <2>1, FS_EmptySet
  <2> QED
    BY <1>2, <2>2
<1> QED
  BY <1>1, <1>2

\* A request that is read is of the client it is read from.
LEMMA ReadFromMaker ==
  ASSUME IInv, Traced, NEW mk \in Makes, Read(mk)
  PROVE  batch.client = mk.client
<1>1. mk # None
  BY RoutingAssumption
<1>2. PICK i \in 1..Len(batch.msgs) : batch.msgs[i].make = mk
  BY DEF Read, Holds
<1>3. batch.msgs[i].type = "MAKECALL"
  BY <1>1, <1>2 DEF Traced, OnlyMakes
<1>4. batch.msgs # <<>>
  BY <1>2
<1>5. PICK c \in Clients : batch.client = c
  BY <1>4 DEF IInv, BatchTyped
<1>6. batch.msgs \in Seq(FromClient(c))
  BY <1>4, <1>5 DEF IInv, BatchTyped
<1>7. batch.msgs[i] \in FromClient(c)
  BY <1>2, <1>6, ElementOfSeq
<1> QED
  BY <1>2, <1>3, <1>5, <1>7 DEF FromClient

LEMMA TracedOnce ==
  ASSUME IInv, Traced
  PROVE  MakesInOnePlace
<1> SUFFICES ASSUME NEW mk \in Makes, mk.client \in alive,
                    pg.ct[mk.client].fh = "open"
             PROVE  Places(mk) = IF Wanted(mk) THEN 1 ELSE 0
  BY DEF MakesInOnePlace, Wanted
<1>1. Alone(mk) /\ Apart(mk) /\ Due(mk)
  BY DEF Traced
<1> DEFINE legs == {ch \in Channels : pg.awaiting[ch] = mk}
           asked == Cardinality({i \in 1..Len(toServer[mk.client]) :
                                   toServer[mk.client][i].make = mk})
           read == Cardinality({i \in 1..Len(batch.msgs) : batch.msgs[i].make = mk})
<1>2. Places(mk) = asked + (IF batch.client = mk.client THEN read ELSE 0)
                   + (IF mk \in pg.callmaking THEN 1 ELSE 0) + Cardinality(legs)
  BY DEF Places, Copies
<1>3. asked = IF Asked(mk) THEN 1 ELSE 0
  BY <1>1, CopiesOf DEF Alone, Asked
<1>4. read = IF Read(mk) THEN 1 ELSE 0
  BY <1>1, CopiesOf DEF Alone, Read
<1>5. Cardinality(legs) = IF Awaited(mk) THEN 1 ELSE 0
  <2>1. CASE Awaited(mk)
    <3>1. PICK a \in Channels : pg.awaiting[a] = mk
      BY <2>1 DEF Awaited
    <3>2. \A b \in Channels : pg.awaiting[b] = mk => caller[b].leg = mk
      BY RoutingAssumption DEF IInv, LegsKnown
    <3>3. legs = {a}
      BY <1>1, <3>1, <3>2 DEF Alone
    <3>4. Cardinality(legs) = 1
      BY <3>3, FS_Singleton
    <3> QED
      BY <2>1, <3>4
  <2>2. CASE ~Awaited(mk)
    <3>1. legs = {}
      BY <2>2 DEF Awaited
    <3>2. Cardinality(legs) = 0
      BY <3>1, FS_EmptySet
    <3> QED
      BY <2>2, <3>2
  <2> QED
    BY <2>1, <2>2
<1>6. Read(mk) => batch.client = mk.client
  BY ReadFromMaker
<1>7. Awaited(mk) => LegOf(mk)
  BY AwaitedLeg
<1>8. /\ Asked(mk) => ~Read(mk) /\ ~Making(mk) /\ ~Awaited(mk)
      /\ Read(mk) => ~Making(mk) /\ ~Awaited(mk)
      /\ Awaited(mk) => ~Making(mk)
      /\ Wanted(mk) <=> (Asked(mk) \/ Read(mk) \/ Making(mk) \/ Awaited(mk))
  BY <1>1, <1>7 DEF Apart, Due
<1> HIDE DEF legs, asked, read
<1> QED
  BY <1>2, <1>3, <1>4, <1>5, <1>6, <1>8 DEF Making

\* A call that a client has asked for and not been told of is in one place, on
\* its way to phoneglue, made by Asterisk or awaited from it, and one the client
\* has been told of in none: it is neither lost nor answered twice, whichever of
\* its channel and its event comes first (callmaking, received, awaiting).
THEOREM MakesAreInOnePlace == Spec => []MakesInOnePlace
<1>1. Init => Serving /\ Traced
  BY ServingInitially, TracedInitially
<1>2. IInv /\ IInv' /\ Serving /\ Traced /\ [Next]_vars => Serving' /\ Traced'
  BY StepServes, StepTraced
<1>3. IInv /\ Traced => MakesInOnePlace
  BY TracedOnce
<1> QED
  BY <1>1, <1>2, <1>3, RoutingInvariant, PTL DEF Spec
=============================================================================
