------------------------ MODULE PhoneglueCallProofs ------------------------
(***************************************************************************)
(* What holds of a call in phoneglue for every set of commands and signals *)
(* and any number of them.                                                 *)
(***************************************************************************)
EXTENDS PhoneglueCall, SequenceTheorems, NaturalsInduction, WellFoundedInduction,
        TLAPS

-----------------------------------------------------------------------------
(* Types.                                                                   *)

AgiLines  == AgiCommands \cup {"MONITOR", "STOPMONITOR"}
ResultOfs == AgiLines \cup {"INIT", "CLOSED"}
AgiResults == [of : ResultOfs, ok : BOOLEAN, key : Keys \cup {None} \cup MinusOne]
SaidToClient == Messages \cup {Ok("GOTDIG")}
CallState == [agifh : Nat, agi_doing : AgiCommands \cup {None},
              collected : Seq(Keys), stopkeys : SUBSET Keys, files : Nat,
              vamd_state : -1..3, queued : AgiCommands \cup {None}]

TalkTypes ==
  /\ toServer \in Seq(Commands) /\ fromServer \in Seq(SaidToClient)
  /\ live \in BOOLEAN /\ doing \in Answered \cup {None}

LineTypes ==
  /\ call \in CallState /\ call.agifh <= Len(conn)
  /\ conn \in Seq(Seq(AgiResults)) /\ conn # <<>>
  /\ toAgi \in Seq(AgiLines)
  /\ caller \in BOOLEAN /\ redirecting \in BOOLEAN /\ dialing \in BOOLEAN
  /\ vamd \in BOOLEAN /\ listen \in BOOLEAN /\ monitor \in BOOLEAN
  /\ redirects \in Nat /\ statuses \in Nat
  /\ fromVamd \in Seq(Signals \cup {"listening"})

-----------------------------------------------------------------------------
(* The inductive invariant.                                                 *)

\* A call that is over has no connection and is sent nothing.
Dead == ~live => call = NoCall /\ toAgi = <<>>

\* The client sends one command at a time.
Polite == /\ Len(toServer) <= 1
          /\ toServer # <<>> /\ Head(toServer).type # "RELEASE" => doing = None

\* A connection opens with INIT, which is read before it is the call's; the
\* first one has none.  Until then nothing is sent on it.
Openings ==
  \A i \in DOMAIN conn :
    /\ \A j \in DOMAIN conn[i] :
         conn[i][j].of = "INIT" => j = 1 /\ i # 1 /\ i # call.agifh
    /\ conn[i] # <<>> /\ Head(conn[i]).of = "INIT" =>
         /\ \A j \in DOMAIN conn[i] : j # 1 => conn[i][j].of = "CLOSED"
         /\ i = Len(conn) => toAgi = <<>>

\* Where hangups come from, and which connections may be the call's.
Hangups ==
  /\ \A i \in DOMAIN conn : \A j \in DOMAIN conn[i] :
       conn[i][j].of = "CLOSED" /\ caller => i # Len(conn)
  /\ redirects > 0 \/ Len(conn) > 1 => call.agifh # 1
  /\ live /\ redirecting => call.agifh = 0

\* Only a HANGUP is waiting for a HANGUP's result.
HangupAsked == call.agi_doing = "HANGUP" => doing = "HANGUP"

Media == {"PLAYFILE", "GETDIGIT", "RECORDFILE"}

\* What phoneglue takes the next result for, and whether it waits for one.
Expected == CASE call.vamd_state = 2  -> "MONITOR"
              [] call.vamd_state = -1 -> "STOPMONITOR"
              [] OTHER -> call.agi_doing
Awaits == /\ call.agi_doing # None /\ call.vamd_state # 1
          /\ doing = ClientCommand(call.agi_doing)

\* The command that was sent is on its way to Asterisk, or its result is on its
\* way back, or it is lost with its connection.
Outstanding ==
  call.agifh # 0 =>
    /\ \A j \in DOMAIN conn[call.agifh] :
         conn[call.agifh][j].of # "CLOSED" =>
           /\ j = 1 /\ Awaits /\ conn[call.agifh][j].of = Expected
           /\ call.agifh = Len(conn) => toAgi = <<>>
           /\ call.vamd_state = 2 => monitor
    /\ call.agifh = Len(conn) /\ toAgi # <<>> =>
         /\ Awaits /\ toAgi = <<Expected>>
         /\ call.vamd_state = 0 /\ Expected \in Media /\ vamd =>
              SignalsOf(call, Expected) = {}

\* What runs on a connection that is not the call's.
LeftBehind ==
  call.agifh # Len(conn) /\ toAgi # <<>> =>
    /\ Len(toAgi) = 1 /\ Head(toAgi) \in AgiCommands
    /\ Head(toAgi) \in Media /\ vamd => monitor

\* While the monitor is started or stopped, the command is put off.
Changing ==
  call.vamd_state \in {1, 2, -1} =>
    /\ call.agi_doing # None /\ doing = ClientCommand(call.agi_doing)
    /\ call.agifh # 0
    /\ call.queued \in {None, call.agi_doing}
    /\ call.queued = None => call.collected # <<>>
    /\ call.vamd_state = -1 => SignalsOf(call, call.agi_doing) = {}

\* The analyser is asked once, and answers once.
Asking ==
  /\ call.vamd_state = 3 => monitor
  /\ listen \/ (\E i \in DOMAIN fromVamd : fromVamd[i] = "listening") =>
       call.vamd_state = 1
  /\ listen => \A i \in DOMAIN fromVamd : fromVamd[i] # "listening"
  /\ \A i, j \in DOMAIN fromVamd :
       fromVamd[i] = "listening" /\ fromVamd[j] = "listening" => i = j

InOrder == Outstanding /\ LeftBehind /\ Changing /\ Asking
Talk == TalkTypes /\ Dead /\ Polite /\ HangupAsked
Line == LineTypes /\ Openings /\ Hangups
IInv == Talk /\ Line /\ (live /\ ~dialing => InOrder)

-----------------------------------------------------------------------------
(* What the connections hold after a step.                                  *)

\* The first item is taken from connection i.
Taken(i) == /\ i \in DOMAIN conn /\ conn[i] # <<>>
            /\ conn' = [conn EXCEPT ![i] = Tail(@)]

\* The last connection gets its last items, and one more opens with its first.
Moved(items, b) ==
  conn' = Append([conn EXCEPT ![Len(conn)] = @ \o items], <<b>>)

\* What is left of a sequence whose head was taken.
LEMMA TailItems ==
  ASSUME NEW S, NEW s \in Seq(S), s # <<>>
  PROVE  /\ Tail(s) \in Seq(S) /\ Len(Tail(s)) = Len(s) - 1
         /\ 1 \in DOMAIN s /\ Head(s) = s[1] /\ Head(s) \in S
         /\ \A j \in DOMAIN Tail(s) : j + 1 \in DOMAIN s /\ Tail(s)[j] = s[j + 1]
OBVIOUS

\* What a sequence holds with another one after it.
LEMMA JoinedItems ==
  ASSUME NEW S, NEW s \in Seq(S), NEW t \in Seq(S)
  PROVE  /\ s \o t \in Seq(S) /\ Len(s \o t) = Len(s) + Len(t)
         /\ \A j \in DOMAIN (s \o t) :
              \/ j \in DOMAIN s /\ (s \o t)[j] = s[j]
              \/ j - Len(s) \in DOMAIN t /\ (s \o t)[j] = t[j - Len(s)]
         /\ \A j \in DOMAIN s : j \in DOMAIN (s \o t) /\ (s \o t)[j] = s[j]
OBVIOUS

\* What a sequence holds with another element.
LEMMA AppendedItem ==
  ASSUME NEW S, NEW s \in Seq(S), NEW x \in S
  PROVE  /\ Append(s, x) \in Seq(S) /\ Len(Append(s, x)) = Len(s) + 1
         /\ Append(s, x)[Len(s) + 1] = x
         /\ \A j \in DOMAIN s : j \in DOMAIN Append(s, x) /\ Append(s, x)[j] = s[j]
         /\ \A j \in DOMAIN Append(s, x) : j \in DOMAIN s \/ j = Len(s) + 1
OBVIOUS

LEMMA PairJoined ==
  ASSUME NEW S, NEW s \in Seq(S), NEW x \in S, NEW y \in S
  PROVE  s \o <<x>> \o <<y>> = s \o <<x, y>>
<1>1. <<x>> \in Seq(S) /\ <<y>> \in Seq(S)
  OBVIOUS
<1>2. s \o <<x>> \o <<y>> = s \o (<<x>> \o <<y>>)
  BY <1>1, ConcatAssociative
<1>3. <<x>> \o <<y>> = <<x, y>>
  <2>1. Len(<<x>>) = 1 /\ Len(<<y>>) = 1 /\ Len(<<x, y>>) = 2 /\ <<x>>[1] = x
        /\ <<y>>[1] = y /\ <<x, y>>[1] = x /\ <<x, y>>[2] = y
    OBVIOUS
  <2>2. /\ <<x>> \o <<y>> \in Seq(S) /\ Len(<<x>> \o <<y>>) = 2
        /\ (<<x>> \o <<y>>)[1] = <<x>>[1] /\ (<<x>> \o <<y>>)[2] = <<y>>[1]
    BY <1>1, <2>1, ConcatProperties
  <2>3. <<x, y>> \in Seq(S)
    OBVIOUS
  <2> DEFINE s1 == <<x>> \o <<y>>
             s2 == <<x, y>>
  <2> HIDE DEF s1, s2
  <2>4. /\ s1 \in Seq(S) /\ s2 \in Seq(S) /\ Len(s1) = 2 /\ Len(s2) = 2
        /\ s1[1] = s2[1] /\ s1[2] = s2[2]
    BY <2>1, <2>2, <2>3 DEF s1, s2
  <2>5. \A i \in 1 .. Len(s1) : s1[i] = s2[i]
    BY <2>4
  <2> QED
    BY <2>4, <2>5, SeqEqual DEF s1, s2
<1> QED
  BY <1>2, <1>3

\* Taking an item changes its connection only.
LEMMA TakenConn ==
  ASSUME NEW S, conn \in Seq(Seq(S)), NEW i \in DOMAIN conn, Taken(i)
  PROVE  /\ conn' \in Seq(Seq(S)) /\ Len(conn') = Len(conn)
         /\ DOMAIN conn' = DOMAIN conn
         /\ conn'[i] = Tail(conn[i])
         /\ \A k \in DOMAIN conn : k # i => conn'[k] = conn[k]
         /\ \A j \in DOMAIN conn'[i] :
              j + 1 \in DOMAIN conn[i] /\ conn'[i][j] = conn[i][j + 1]
<1>1. conn[i] \in Seq(S) /\ conn[i] # <<>>
  BY DEF Taken
<1>2. /\ Tail(conn[i]) \in Seq(S)
      /\ \A j \in DOMAIN Tail(conn[i]) :
           j + 1 \in DOMAIN conn[i] /\ Tail(conn[i])[j] = conn[i][j + 1]
  BY <1>1, TailItems
<1>3. conn' = [conn EXCEPT ![i] = Tail(conn[i])]
  BY DEF Taken
<1>4. conn' \in Seq(Seq(S)) /\ Len(conn') = Len(conn) /\ DOMAIN conn' = DOMAIN conn
  BY <1>2, <1>3
<1>5. conn'[i] = Tail(conn[i]) /\ \A k \in DOMAIN conn : k # i => conn'[k] = conn[k]
  BY <1>3
<1> QED
  BY <1>2, <1>4, <1>5

\* So does telling the last one something.
LEMMA ToldConn ==
  ASSUME NEW S, conn \in Seq(Seq(S)), conn # <<>>, NEW items \in Seq(S),
         Tells(items)
  PROVE  /\ conn' \in Seq(Seq(S)) /\ Len(conn') = Len(conn)
         /\ DOMAIN conn' = DOMAIN conn /\ Len(conn) \in DOMAIN conn
         /\ conn'[Len(conn)] = conn[Len(conn)] \o items
         /\ \A k \in DOMAIN conn : k # Len(conn) => conn'[k] = conn[k]
<1>1. Len(conn) \in DOMAIN conn /\ conn[Len(conn)] \in Seq(S)
  OBVIOUS
<1>2. conn[Len(conn)] \o items \in Seq(S)
  BY <1>1
<1>3. conn' = [conn EXCEPT ![Len(conn)] = conn[Len(conn)] \o items]
  BY DEF Tells
<1>4. conn' \in Seq(Seq(S)) /\ Len(conn') = Len(conn) /\ DOMAIN conn' = DOMAIN conn
  BY <1>1, <1>2, <1>3
<1> QED
  BY <1>1, <1>3, <1>4

\* A redirect closes the last connection and opens one more.
LEMMA MovedConn ==
  ASSUME NEW S, conn \in Seq(Seq(S)), conn # <<>>, NEW items \in Seq(S), NEW b \in S,
         Moved(items, b)
  PROVE  /\ conn' \in Seq(Seq(S)) /\ Len(conn') = Len(conn) + 1
         /\ DOMAIN conn \subseteq DOMAIN conn' /\ Len(conn) \in DOMAIN conn
         /\ \A k \in DOMAIN conn' : k \in DOMAIN conn \/ k = Len(conn) + 1
         /\ conn'[Len(conn)] = conn[Len(conn)] \o items
         /\ conn'[Len(conn) + 1] = <<b>>
         /\ \A k \in DOMAIN conn : k # Len(conn) => conn'[k] = conn[k]
<1> DEFINE closed == [conn EXCEPT ![Len(conn)] = conn[Len(conn)] \o items]
<1>1. Len(conn) \in DOMAIN conn /\ conn[Len(conn)] \in Seq(S)
  OBVIOUS
<1>2. conn[Len(conn)] \o items \in Seq(S)
  BY <1>1
<1>3. /\ closed \in Seq(Seq(S)) /\ Len(closed) = Len(conn)
      /\ DOMAIN closed = DOMAIN conn
  BY <1>1, <1>2
<1>4. /\ closed[Len(conn)] = conn[Len(conn)] \o items
      /\ \A k \in DOMAIN conn : k # Len(conn) => closed[k] = conn[k]
  BY <1>1, <1>2
<1>5. conn' = Append(closed, <<b>>) /\ <<b>> \in Seq(S)
  BY DEF Moved
<1> HIDE DEF closed
<1>6. /\ conn' \in Seq(Seq(S)) /\ Len(conn') = Len(conn) + 1
      /\ conn'[Len(conn) + 1] = <<b>>
      /\ \A k \in DOMAIN conn : k \in DOMAIN conn' /\ conn'[k] = closed[k]
      /\ \A k \in DOMAIN conn' : k \in DOMAIN conn \/ k = Len(conn) + 1
  <2> DEFINE T == Seq(S)
             last == <<b>>
  <2>1. closed \in Seq(T) /\ last \in T /\ conn' = Append(closed, last)
    BY <1>3, <1>5
  <2> HIDE DEF T, last
  <2>2. conn' \in Seq(T) /\ Len(conn') = Len(closed) + 1
    BY <2>1
  <2>3. conn'[Len(closed) + 1] = last
    BY <2>1
  <2>4. \A k \in DOMAIN closed : k \in DOMAIN conn' /\ conn'[k] = closed[k]
    BY <2>1
  <2>5. \A k \in DOMAIN conn' : k \in DOMAIN closed \/ k = Len(closed) + 1
    BY <2>1
  <2> QED
    BY <1>3, <2>2, <2>3, <2>4, <2>5 DEF T, last
<1> QED
  BY <1>1, <1>4, <1>6

-----------------------------------------------------------------------------
(* Tables.                                                                  *)

LEMMA ClientCommandIs ==
  /\ ClientCommand("PLAYFILE") = "PLAY" /\ ClientCommand("GETDIGIT") = "GETDIG"
  /\ ClientCommand("RECORDFILE") = "RECORD" /\ ClientCommand("SENDDTMF") = "PLAYDIG"
  /\ ClientCommand("SETCALLERID") = "TRANSFER" /\ ClientCommand("DIAL") = "TRANSFER"
  /\ ClientCommand("SETVARIABLE") = "RETURNVAR" /\ ClientCommand("HANGUP") = "HANGUP"
BY DEF ClientCommand

\* What a command is for is something that is answered, and only "HANGUP" is
\* for a hangup.
LEMMA ClientCommandTypes ==
  \A of \in AgiCommands :
    /\ ClientCommand(of) \in Answered
    /\ ClientCommand(of) = "HANGUP" => of = "HANGUP"
BY ClientCommandIs DEF AgiCommands, Answered

LEMMA AnswerTypes ==
  \A type \in CommandTypes : /\ AnswerType(type) \in MessageTypes
                             /\ RefusalType(type) \in MessageTypes
BY DEF CommandTypes, Answered, AnswerType, RefusalType, MessageTypes

\* What phoneglue says is what a client may be told.
LEMMA FailureSaid ==
  ASSUME NEW type \in MessageTypes, NEW known \in BOOLEAN
  PROVE  Message(type, known, FALSE, None) \in SaidToClient
BY DEF Message, Messages, SaidToClient

LEMMA SuccessSaid ==
  ASSUME NEW type \in MessageTypes, type # "GOTDIG"
  PROVE  /\ Message(type, TRUE, TRUE, None) \in SaidToClient
         /\ Ok(type) \in SaidToClient
BY DEF Message, Messages, SaidToClient, Ok

LEMMA DigitSaid ==
  ASSUME NEW key \in Keys \cup {"timeout"}
  PROVE  Message("GOTDIG", TRUE, TRUE, key) \in SaidToClient
BY KeysAssumption DEF Message, Messages, SaidToClient, MessageTypes, None

-----------------------------------------------------------------------------
(* What a handler of phoneglue may do: to the connections, and to what is   *)
(* between it and the client.                                               *)

Handled ==
  /\ UNCHANGED conn \/ \E i \in DOMAIN conn : Taken(i)
  /\ call' \in CallState
  /\ \/ call'.agifh \in {0, call.agifh}
     \/ /\ call'.agifh \in DOMAIN conn /\ Taken(call'.agifh)
        /\ Head(conn[call'.agifh]) = INIT
  /\ toAgi' \in Seq(AgiLines)
  /\ toAgi' # <<>> => toAgi # <<>> \/ (call.agifh # 0 /\ call.agifh = Len(conn))
  /\ redirecting' \in BOOLEAN /\ dialing' \in BOOLEAN /\ listen' \in BOOLEAN
  /\ live' /\ redirecting' =>
       call'.agifh = 0 \/ (live /\ redirecting /\ call'.agifh = call.agifh)
  /\ redirects' \in Nat /\ statuses' \in Nat
  /\ redirects' > 0 => redirects > 0 \/ call'.agifh = 0
  /\ fromVamd' \in Seq(Signals \cup {"listening"})
  /\ UNCHANGED <<caller, vamd, monitor>>

Over == live' = FALSE /\ doing' = None /\ call' = NoCall /\ toAgi' = <<>>

Talked ==
  /\ toServer' = toServer \/ (toServer # <<>> /\ toServer' = Tail(toServer))
  /\ fromServer' \in Seq(SaidToClient)
  /\ \/ Over
     \/ ~live /\ UNCHANGED <<live, call, toAgi>> /\ doing' \in {None, doing}
     \/ /\ live /\ live' = live
        /\ \/ doing' = None /\ call'.agi_doing # "HANGUP"
           \/ UNCHANGED doing /\ call'.agi_doing \in {None, call.agi_doing}
           \/ /\ doing # None \/ (toServer # <<>> /\ toServer' = Tail(toServer))
              /\ doing' \in Answered
              /\ call'.agi_doing = "HANGUP" => doing' = "HANGUP"

LEMMA TalkedTalk ==
  ASSUME Talk, Talked
  PROVE  Talk'
<1> USE DEF Talk, Talked
<1>1. TalkTypes'
  <2>1. toServer' \in Seq(Commands)
    BY TailItems DEF TalkTypes
  <2>2. live' \in BOOLEAN /\ doing' \in Answered \cup {None}
    BY DEF TalkTypes, Over
  <2> QED
    BY <2>1, <2>2 DEF TalkTypes
<1>2. Dead'
  BY DEF TalkTypes, Dead, Over
<1>3. Polite'
  <2>1. Len(toServer) <= 1 /\ toServer \in Seq(Commands)
    BY DEF TalkTypes, Polite
  <2>2. CASE toServer # <<>> /\ toServer' = Tail(toServer)
    <3>1. toServer' = <<>>
      BY <2>1, <2>2
    <3> QED
      BY <3>1 DEF Polite
  <2>3. CASE toServer' = toServer
    <3>1. doing = None => doing' = None
      BY <2>1, <2>3 DEF Over, Answered
    <3> QED
      BY <2>3, <3>1 DEF Polite
  <2> QED
    BY <2>2, <2>3
<1>4. HangupAsked'
  BY DEF HangupAsked, Over, NoCall, None, Dead
<1> QED
  BY <1>1, <1>2, <1>3, <1>4

LEMMA HandledLine ==
  ASSUME Line, Handled
  PROVE  Line'
<1> USE DEF Line
<1>1. /\ Len(conn') = Len(conn) /\ DOMAIN conn' = DOMAIN conn
      /\ conn' \in Seq(Seq(AgiResults)) /\ conn' # <<>>
  <2>1. CASE UNCHANGED conn
    BY <2>1 DEF LineTypes
  <2>2. ASSUME NEW i \in DOMAIN conn, Taken(i)
        PROVE  /\ Len(conn') = Len(conn) /\ DOMAIN conn' = DOMAIN conn
               /\ conn' \in Seq(Seq(AgiResults))
    BY <2>2, TakenConn DEF LineTypes
  <2> QED
    BY <2>1, <2>2 DEF Handled, LineTypes
<1>2. \A i \in DOMAIN conn : \A j \in DOMAIN conn'[i] :
        \/ j \in DOMAIN conn[i] /\ conn'[i] = conn[i]
        \/ /\ j + 1 \in DOMAIN conn[i] /\ conn'[i][j] = conn[i][j + 1]
           /\ j \in Nat \ {0}
  <2>1. CASE UNCHANGED conn
    BY <2>1
  <2>2. ASSUME NEW n \in DOMAIN conn, Taken(n),
               NEW i \in DOMAIN conn, NEW j \in DOMAIN conn'[i]
        PROVE  \/ j \in DOMAIN conn[i] /\ conn'[i] = conn[i]
               \/ /\ j + 1 \in DOMAIN conn[i] /\ conn'[i][j] = conn[i][j + 1]
                  /\ j \in Nat \ {0}
    <3>1. CASE i # n
      BY <2>2, <3>1, TakenConn DEF LineTypes
    <3>2. CASE i = n
      <4>1. /\ \A k \in DOMAIN conn'[n] :
                 k + 1 \in DOMAIN conn[n] /\ conn'[n][k] = conn[n][k + 1]
            /\ conn'[n] = Tail(conn[n]) /\ Tail(conn[n]) \in Seq(AgiResults)
        BY <2>2, TakenConn, TailItems DEF LineTypes, Taken
      <4>2. j \in Nat \ {0}
        BY <3>2, <4>1
      <4> QED
        BY <3>2, <4>1, <4>2
    <3> QED
      BY <3>1, <3>2
  <2> QED
    BY <2>1, <2>2 DEF Handled
<1>3. call'.agifh \in {0, call.agifh} \/ call'.agifh \in DOMAIN conn
  BY DEF Handled
<1>4. LineTypes'
  <2>1. call'.agifh <= Len(conn)
    BY <1>3 DEF LineTypes, CallState
  <2> QED
    BY <1>1, <2>1 DEF LineTypes, Handled
<1>5. Openings'
  <2> SUFFICES ASSUME NEW i \in DOMAIN conn
               PROVE  /\ \A j \in DOMAIN conn'[i] :
                           conn'[i][j].of = "INIT" => j = 1 /\ i # 1 /\ i # call'.agifh
                      /\ conn'[i] # <<>> /\ Head(conn'[i]).of = "INIT" =>
                           /\ \A j \in DOMAIN conn'[i] :
                                j # 1 => conn'[i][j].of = "CLOSED"
                           /\ i = Len(conn') => toAgi' = <<>>
    BY <1>1 DEF Openings
  <2>1. conn[i] \in Seq(AgiResults) /\ conn'[i] \in Seq(AgiResults)
    BY <1>1 DEF LineTypes
  <2>2. \A j \in DOMAIN conn'[i] : conn'[i][j].of = "INIT" =>
          j = 1 /\ i # 1 /\ i # call.agifh /\ conn'[i] = conn[i]
    <3> TAKE j \in DOMAIN conn'[i]
    <3>1. CASE j \in DOMAIN conn[i] /\ conn'[i] = conn[i]
      BY <3>1 DEF Openings
    <3>2. CASE /\ j + 1 \in DOMAIN conn[i] /\ conn'[i][j] = conn[i][j + 1]
               /\ j \in Nat \ {0}
      BY <3>2 DEF Openings
    <3> QED
      BY <1>2, <3>1, <3>2
  <2>3. ASSUME NEW j \in DOMAIN conn'[i], conn'[i][j].of = "INIT"
        PROVE  i # call'.agifh
    <3>1. i # call.agifh /\ conn'[i] = conn[i] /\ j = 1
      BY <2>2, <2>3
    <3>2. CASE call'.agifh \in {0, call.agifh}
      BY <3>1, <3>2 DEF LineTypes
    <3>3. CASE call'.agifh \in DOMAIN conn /\ Taken(call'.agifh)
      <4>1. i = call'.agifh => Len(conn'[i]) = Len(conn[i]) - 1
        BY <3>3, TakenConn, TailItems DEF LineTypes, Taken
      <4> QED
        BY <2>1, <3>1, <4>1
    <3> QED
      BY <3>2, <3>3 DEF Handled
  <2>4. ASSUME conn'[i] # <<>>, Head(conn'[i]).of = "INIT"
        PROVE  /\ \A j \in DOMAIN conn'[i] : j # 1 => conn'[i][j].of = "CLOSED"
               /\ i = Len(conn') => toAgi' = <<>>
    <3>1. 1 \in DOMAIN conn'[i] /\ Head(conn'[i]) = conn'[i][1]
      BY <2>1, <2>4
    <3>2. conn'[i] = conn[i] /\ i # call.agifh
      BY <2>2, <2>4, <3>1
    <3>3. /\ \A j \in DOMAIN conn[i] : j # 1 => conn[i][j].of = "CLOSED"
          /\ i = Len(conn) => toAgi = <<>>
      BY <2>4, <3>2 DEF Openings
    <3>4. i = Len(conn) => toAgi' = <<>>
      BY <3>2, <3>3 DEF Handled
    <3> QED
      BY <1>1, <3>2, <3>3, <3>4
  <2> QED
    BY <2>2, <2>3, <2>4
<1>6. Hangups'
  <2>1. \A i \in DOMAIN conn : \A j \in DOMAIN conn'[i] :
          conn'[i][j].of = "CLOSED" /\ caller => i # Len(conn)
    <3> TAKE i \in DOMAIN conn
    <3> TAKE j \in DOMAIN conn'[i]
    <3>1. CASE j \in DOMAIN conn[i] /\ conn'[i] = conn[i]
      BY <3>1 DEF Hangups
    <3>2. CASE j + 1 \in DOMAIN conn[i] /\ conn'[i][j] = conn[i][j + 1]
      BY <3>2 DEF Hangups
    <3> QED
      BY <1>2, <3>1, <3>2
  <2>2. redirects' > 0 \/ Len(conn') > 1 => call'.agifh # 1
    <3>1. CASE call'.agifh \in {0, call.agifh}
      BY <1>1, <3>1 DEF Handled, Hangups
    <3>2. CASE /\ call'.agifh \in DOMAIN conn /\ Taken(call'.agifh)
               /\ Head(conn[call'.agifh]) = INIT
      <4> DEFINE n == call'.agifh
      <4>1. n \in DOMAIN conn /\ conn[n] # <<>> /\ Head(conn[n]).of = "INIT"
        BY <3>2 DEF Taken, INIT, Result
      <4>2. 1 \in DOMAIN conn[n] /\ Head(conn[n]) = conn[n][1]
        BY <4>1, TailItems DEF LineTypes
      <4>3. n # 1
        BY <4>1, <4>2 DEF Openings
      <4> QED
        BY <4>3
    <3> QED
      BY <3>1, <3>2 DEF Handled
  <2>3. live' /\ redirecting' => call'.agifh = 0
    BY DEF Handled, Hangups
  <2> QED
    BY <1>1, <2>1, <2>2, <2>3 DEF Hangups, Handled
<1> QED
  BY <1>4, <1>5, <1>6

-----------------------------------------------------------------------------
(* What the operators of the handlers do.                                   *)

Like(d, c) == /\ d.agifh = c.agifh /\ d.vamd_state = c.vamd_state
              /\ d.agi_doing = c.agi_doing

\* One of the messages is said, and nothing is sent to Asterisk.
Replies(c, ms) ==
  /\ \E m \in ms : Answer(m)
  /\ call' \in CallState
  /\ call'.agifh = c.agifh /\ call'.vamd_state = c.vamd_state
  /\ call'.agi_doing \in {None, c.agi_doing}
  /\ UNCHANGED <<toAgi, listen>>

\* Nor is anything said.
Silent(c) ==
  /\ call' \in CallState
  /\ call'.agifh = c.agifh /\ call'.vamd_state = c.vamd_state
  /\ call'.agi_doing = None
  /\ UNCHANGED <<doing, fromServer, toAgi, listen>>

\* A command goes out.
Sends(c, of) ==
  /\ \E d \in CallState : Like(d, c) /\ SendAgi(d, of)
  /\ doing' = ClientCommand(of) /\ UNCHANGED fromServer

LEMMA CallFields ==
  ASSUME NEW c \in CallState
  PROVE  /\ \A v \in AgiCommands \cup {None} :
              [c EXCEPT !.agi_doing = v] \in CallState
         /\ \A v \in Seq(Keys) : [c EXCEPT !.collected = v] \in CallState
         /\ \A v \in SUBSET Keys : [c EXCEPT !.stopkeys = v] \in CallState
         /\ \A v \in Nat : [c EXCEPT !.files = v] \in CallState
         /\ \A v \in -1..3 : [c EXCEPT !.vamd_state = v] \in CallState
         /\ \A v \in AgiCommands \cup {None} : [c EXCEPT !.queued = v] \in CallState
         /\ \A v \in Nat : [c EXCEPT !.agifh = v] \in CallState
         /\ c.agifh \in Nat /\ c.agi_doing \in AgiCommands \cup {None}
         /\ c.collected \in Seq(Keys) /\ c.stopkeys \in SUBSET Keys
         /\ c.files \in Nat /\ c.vamd_state \in -1..3
         /\ c.queued \in AgiCommands \cup {None}
BY DEF CallState

LEMMA SendAgiDoes ==
  ASSUME NEW c \in CallState, NEW of \in AgiCommands, SendAgi(c, of),
         toAgi \in Seq(AgiLines), listen \in BOOLEAN
  PROVE  /\ call' \in CallState /\ call'.agifh = c.agifh
         /\ call'.stopkeys = c.stopkeys /\ call'.collected = c.collected
         /\ call'.agi_doing = (IF c.agifh = 0 THEN c.agi_doing ELSE of)
         /\ toAgi' \in Seq(AgiLines) /\ listen' \in BOOLEAN
         /\ toAgi' = toAgi \/ (c.agifh # 0 /\ c.agifh = Len(conn))
<1> DEFINE d == [c EXCEPT !.agi_doing = of]
<1>1. /\ d \in CallState /\ d.agifh = c.agifh /\ d.stopkeys = c.stopkeys
      /\ d.collected = c.collected /\ d.agi_doing = of
  BY CallFields DEF CallState
<1>2. \A line \in AgiLines :
        /\ Written(c, line) \in Seq(AgiLines)
        /\ Written(c, line) = toAgi \/ c.agifh = Len(conn)
  BY DEF Written
<1>3. of \in AgiLines /\ "STOPMONITOR" \in AgiLines
  BY DEF AgiLines
<1>4. CASE c.agifh = 0 /\ call' = c /\ UNCHANGED <<toAgi, listen>>
  BY <1>4
<1>5. CASE /\ c.agifh # 0 /\ WantsMonitor(c, of)
           /\ call' = [d EXCEPT !.vamd_state = 1, !.queued = of]
           /\ listen' = TRUE /\ UNCHANGED toAgi
  <2> HIDE DEF d
  <2>1. call' \in CallState
    <3>1. [d EXCEPT !.vamd_state = 1] \in CallState
      BY SMTT(60), <1>1 DEF CallState
    <3>2. call' = [[d EXCEPT !.vamd_state = 1] EXCEPT !.queued = of]
      BY <1>1, <1>5 DEF CallState
    <3> QED
      BY <3>1, <3>2, CallFields
  <2>2. /\ call'.agifh = d.agifh /\ call'.stopkeys = d.stopkeys
        /\ call'.collected = d.collected /\ call'.agi_doing = d.agi_doing
    BY <1>1, <1>5 DEF CallState
  <2> QED
    BY <1>1, <1>5, <2>1, <2>2
<1>6. CASE /\ c.agifh # 0 /\ EndsMonitor(c, of)
           /\ call' = [d EXCEPT !.vamd_state = -1, !.queued = of]
           /\ toAgi' = Written(c, "STOPMONITOR") /\ UNCHANGED listen
  <2> HIDE DEF d
  <2>1. call' \in CallState
    <3>0. -1 \in -1..3
      OBVIOUS
    <3>1. [d EXCEPT !.vamd_state = -1] \in CallState
      BY <1>1, <3>0, CallFields, Zenon
    <3>2. call' = [[d EXCEPT !.vamd_state = -1] EXCEPT !.queued = of]
      BY <1>1, <1>6 DEF CallState
    <3> QED
      BY <3>1, <3>2, CallFields
  <2>2. /\ call'.agifh = d.agifh /\ call'.stopkeys = d.stopkeys
        /\ call'.collected = d.collected /\ call'.agi_doing = d.agi_doing
    BY <1>1, <1>6 DEF CallState
  <2> QED
    BY <1>1, <1>2, <1>3, <1>6, <2>1, <2>2
<1>7. CASE /\ c.agifh # 0 /\ ~WantsMonitor(c, of) /\ ~EndsMonitor(c, of)
           /\ call' = d /\ toAgi' = Written(c, of) /\ UNCHANGED listen
  <2> HIDE DEF d
  <2> QED
    BY <1>1, <1>2, <1>3, <1>7
<1> QED
  BY <1>4, <1>5, <1>6, <1>7 DEF SendAgi

LEMMA PlayNextFileDoes ==
  ASSUME NEW c \in CallState, PlayNextFile(c)
  PROVE  Replies(c, {Ok("PLAYED")}) \/ Sends(c, "PLAYFILE")
<1>1. CASE /\ Answer(Ok("PLAYED"))
           /\ call' = [c EXCEPT !.files = 0] /\ UNCHANGED <<toAgi, listen>>
  <2>1. call' \in CallState
    BY <1>1, CallFields
  <2> QED
    BY <1>1, <2>1 DEF Replies, CallState
<1>2. CASE /\ c.files # 0 /\ SendAgi([c EXCEPT !.files = @ - 1], "PLAYFILE")
           /\ doing' = "PLAY" /\ UNCHANGED fromServer
  <2> DEFINE d == [c EXCEPT !.files = @ - 1]
  <2>1. d \in CallState /\ Like(d, c)
    BY <1>2 DEF CallState, Like
  <2> HIDE DEF d
  <2>2. SendAgi(d, "PLAYFILE")
    BY <1>2 DEF d
  <2> QED
    BY <1>2, <2>1, <2>2, ClientCommandIs DEF Sends
<1> QED
  BY <1>1, <1>2 DEF PlayNextFile

LEMMA GetNextDigitDoes ==
  ASSUME NEW c \in CallState, NEW timedout \in BOOLEAN, GetNextDigit(c, timedout)
  PROVE  Replies(c, Results("GETDIG")) \/ Sends(c, "GETDIGIT")
<1>1. CASE /\ c.collected # <<>>
           /\ Answer(Message("GOTDIG", TRUE, TRUE, Head(c.collected)))
           /\ call' = [c EXCEPT !.collected = Tail(@), !.agi_doing = None]
           /\ UNCHANGED <<toAgi, listen>>
  <2> DEFINE keys == c.collected
  <2>0. keys \in Seq(Keys) /\ keys # <<>>
    BY <1>1, CallFields
  <2> HIDE DEF keys
  <2>1a. Head(keys) \in Keys /\ Tail(keys) \in Seq(Keys)
    BY <2>0
  <2>1. Head(c.collected) \in Keys /\ Tail(c.collected) \in Seq(Keys)
    BY <2>1a DEF keys
  <2>2. /\ call' \in CallState /\ call'.agifh = c.agifh
        /\ call'.vamd_state = c.vamd_state /\ call'.agi_doing = None
    BY <1>1, <2>1 DEF CallState
  <2>3. Message("GOTDIG", TRUE, TRUE, Head(c.collected)) \in Results("GETDIG")
    BY <2>1 DEF Results
  <2> QED
    BY <1>1, <2>2, <2>3 DEF Replies
<1>2. CASE /\ Answer(Message("GOTDIG", TRUE, TRUE, "timeout"))
           /\ call' = [c EXCEPT !.agi_doing = None] /\ UNCHANGED <<toAgi, listen>>
  <2>1. /\ call' \in CallState /\ call'.agifh = c.agifh
        /\ call'.vamd_state = c.vamd_state /\ call'.agi_doing = None
    BY <1>2 DEF CallState
  <2>2. Message("GOTDIG", TRUE, TRUE, "timeout") \in Results("GETDIG")
    BY DEF Results
  <2> QED
    BY <1>2, <2>1, <2>2 DEF Replies
<1>3. CASE SendAgi(c, "GETDIGIT") /\ doing' = "GETDIG" /\ UNCHANGED fromServer
  BY <1>3, ClientCommandIs DEF Sends, Like
<1> QED
  BY <1>1, <1>2, <1>3 DEF GetNextDigit

LEMMA AfterStopKeyType ==
  ASSUME NEW c \in CallState
  PROVE  AfterStopKey(c) \in Seq(Keys)
<1> DEFINE stops == {i \in DOMAIN c.collected : c.collected[i] \in c.stopkeys}
           first == CHOOSE i \in stops : \A j \in stops : i <= j
<1>1. c.collected \in Seq(Keys)
  BY DEF CallState
<1>1a. stops \in SUBSET (Nat \ {0}) /\ stops \subseteq DOMAIN c.collected
  BY <1>1
<1>2. CASE stops = {}
  BY <1>1, <1>2 DEF AfterStopKey
<1>3. CASE stops # {}
  <2>1. \E i \in stops : \A j \in stops : i <= j
    <3>1. stops \in SUBSET Nat
      BY <1>1a
    <3> HIDE DEF stops, first
    <3>2. \A m, n \in Nat : <<m, n>> \in OpToRel(<, Nat) <=> m < n
      BY DEF OpToRel
    <3>3. \A m \in stops : m \in Nat
      BY <3>1
    <3>4. PICK i \in stops : \A j \in stops : <<j, i>> \notin OpToRel(<, Nat)
      BY <1>3, <3>1, NatLessThanWellFounded, WFMin
    <3>5. ASSUME NEW j \in stops
          PROVE  i <= j
      <4>1. i \in Nat /\ j \in Nat
        BY <3>3
      <4>2. ~(j < i)
        BY <3>2, <3>4, <4>1
      <4> QED
        BY <4>1, <4>2
    <3> QED
      BY <3>4, <3>5
  <2>2. first \in stops
    BY <2>1
  <2> HIDE DEF first
  <2>3. first \in 1..Len(c.collected)
    BY <1>1, <2>2
  <2>4. 1 + first \in 1..(Len(c.collected) + 1)
    BY <2>3, <1>1
  <2>5. SubSeq(c.collected, 1 + first, Len(c.collected)) \in Seq(Keys)
    BY <1>1, <2>4
  <2> QED
    BY <1>3, <2>5 DEF AfterStopKey, first
<1> QED
  BY <1>2, <1>3

\* The answer when a GETDIG's digit went to the GETDIG before it.
NoDigit == IF doing = "GETDIG" THEN {Ok("GOTDIG")} ELSE {}

LEMMA InterruptedDoes ==
  ASSUME NEW c \in CallState, HandleInterruptedCommand(c)
  PROVE  /\ \/ /\ doing \in {"PLAY", "GETDIG", "RECORD"}
               /\ \/ Replies(c, Results(doing))
                  \/ c.collected = <<>> /\ Replies(c, NoDigit)
            \/ doing \notin {"PLAY", "GETDIG", "RECORD"} /\ Silent(c)
         /\ call'.agi_doing = None
<1> DEFINE d == [c EXCEPT !.agi_doing = None]
<1>1. /\ d \in CallState /\ d.agifh = c.agifh /\ d.vamd_state = c.vamd_state
      /\ d.agi_doing = None
  BY DEF CallState
<1> HIDE DEF d
<1>2. UNCHANGED <<toAgi, listen>>
  BY DEF HandleInterruptedCommand
<1>3. CASE doing = "PLAY" /\ Answer(Ok("PLAYED")) /\ call' = [d EXCEPT !.files = 0]
  <2>1. /\ call' \in CallState /\ call'.agifh = c.agifh
        /\ call'.vamd_state = c.vamd_state /\ call'.agi_doing = None
    BY <1>1, <1>3 DEF CallState
  <2>2. Ok("PLAYED") \in Results(doing)
    BY <1>3 DEF Ok, Results, AnswerType
  <2> QED
    BY <1>2, <1>3, <2>1, <2>2 DEF Replies
<1>4. CASE doing = "GETDIG" /\ c.collected = <<>> /\ Answer(Ok("GOTDIG")) /\ call' = d
  BY <1>1, <1>2, <1>4 DEF Replies, NoDigit
<1>5. CASE /\ doing = "GETDIG" /\ c.collected # <<>>
           /\ Answer(Message("GOTDIG", TRUE, TRUE, Head(c.collected)))
           /\ call' = [d EXCEPT !.collected = Tail(@)]
  <2>1. c.collected = d.collected /\ d.collected \in Seq(Keys)
    BY <1>1 DEF CallState, d
  <2>2. Head(c.collected) \in Keys /\ Tail(d.collected) \in Seq(Keys)
    BY <1>5, <2>1
  <2>3. /\ call' \in CallState /\ call'.agifh = c.agifh
        /\ call'.vamd_state = c.vamd_state /\ call'.agi_doing = None
    BY <1>1, <1>5, <2>2 DEF CallState
  <2>4. Message("GOTDIG", TRUE, TRUE, Head(c.collected)) \in Results(doing)
    BY <1>5, <2>2 DEF Results
  <2> QED
    BY <1>2, <1>5, <2>3, <2>4 DEF Replies
<1>6. CASE /\ doing = "RECORD" /\ Answer(Ok("RECORDED"))
           /\ call' = [d EXCEPT !.collected = AfterStopKey(c)]
  <2>1. /\ call' \in CallState /\ call'.agifh = c.agifh
        /\ call'.vamd_state = c.vamd_state /\ call'.agi_doing = None
    BY <1>1, <1>6, AfterStopKeyType DEF CallState
  <2>2. Ok("RECORDED") \in Results(doing)
    BY <1>6 DEF Ok, Results, AnswerType
  <2> QED
    BY <1>2, <1>6, <2>1, <2>2 DEF Replies
<1>7. CASE /\ doing \notin {"PLAY", "GETDIG", "RECORD"}
           /\ call' = d /\ UNCHANGED <<doing, fromServer>>
  BY <1>1, <1>2, <1>7 DEF Silent
<1> QED
  BY <1>3, <1>4, <1>5, <1>6, <1>7 DEF HandleInterruptedCommand, d

-----------------------------------------------------------------------------
(* Every handler keeps the talk and the line.                               *)

\* What a handler leaves of a call that goes on.
Outcome ==
  /\ call' \in CallState /\ call'.agifh = call.agifh
  /\ toAgi' \in Seq(AgiLines) /\ listen' \in BOOLEAN
  /\ toAgi' = toAgi \/ (call.agifh # 0 /\ call.agifh = Len(conn))
  /\ fromServer' \in Seq(SaidToClient)
  /\ \/ doing' = None /\ call'.agi_doing # "HANGUP"
     \/ UNCHANGED doing /\ call'.agi_doing \in {None, call.agi_doing}
     \/ doing' \in Answered /\ (call'.agi_doing = "HANGUP" => doing' = "HANGUP")

\* What it reads, and leaves alone.
Frame ==
  /\ UNCHANGED conn \/ \E i \in DOMAIN conn : Taken(i)
  /\ toServer' = toServer \/ (toServer # <<>> /\ toServer' = Tail(toServer))
  /\ dialing' \in BOOLEAN
  /\ UNCHANGED <<caller, redirecting, redirects, statuses, vamd, monitor, fromVamd>>

LEMMA SaidAlso ==
  ASSUME NEW m \in SaidToClient, fromServer \in Seq(SaidToClient)
  PROVE  Append(fromServer, m) \in Seq(SaidToClient)
OBVIOUS

LEMMA SaidMore ==
  ASSUME NEW m \in SaidToClient, fromServer \in Seq(SaidToClient), Answer(m)
  PROVE  fromServer' \in Seq(SaidToClient) /\ doing' = None
BY DEF Answer

LEMMA SendsOutcome ==
  ASSUME Talk, Line, NEW c \in CallState, NEW of \in AgiCommands, Sends(c, of),
         c.agifh = call.agifh, c.agi_doing # "HANGUP"
  PROVE  Outcome
<1>1. PICK d \in CallState : Like(d, c) /\ SendAgi(d, of)
  BY DEF Sends
<1>2. /\ call' \in CallState /\ call'.agifh = d.agifh
      /\ call'.agi_doing = (IF d.agifh = 0 THEN d.agi_doing ELSE of)
      /\ toAgi' \in Seq(AgiLines) /\ listen' \in BOOLEAN
      /\ toAgi' = toAgi \/ (d.agifh # 0 /\ d.agifh = Len(conn))
  BY <1>1, SendAgiDoes DEF Line, LineTypes
<1>3. d.agifh = call.agifh /\ d.agi_doing # "HANGUP"
  BY <1>1 DEF Like
<1>4. call'.agi_doing = "HANGUP" => of = "HANGUP"
  BY <1>2, <1>3
<1>5. doing' \in Answered /\ (of = "HANGUP" => doing' = "HANGUP")
  BY ClientCommandTypes, ClientCommandIs DEF Sends
<1>6. fromServer' \in Seq(SaidToClient)
  BY DEF Sends, Talk, TalkTypes
<1> QED
  BY <1>2, <1>3, <1>4, <1>5, <1>6 DEF Outcome

LEMMA RepliesOutcome ==
  ASSUME Talk, Line, NEW c \in CallState, NEW ms \in SUBSET SaidToClient,
         Replies(c, ms), c.agifh = call.agifh,
         c.agi_doing # "HANGUP" \/ call'.agi_doing = None
  PROVE  Outcome
<1>1. fromServer' \in Seq(SaidToClient) /\ doing' = None
  BY SaidMore DEF Replies, Talk, TalkTypes
<1>2. call'.agi_doing # "HANGUP"
  BY DEF Replies, None
<1> QED
  BY <1>1, <1>2 DEF Outcome, Replies, Line, LineTypes

LEMMA SilentOutcome ==
  ASSUME Talk, Line, NEW c \in CallState, Silent(c), c.agifh = call.agifh
  PROVE  Outcome
BY DEF Outcome, Silent, Line, LineTypes, Talk, TalkTypes

LEMMA OutcomeKeeps ==
  ASSUME Talk, Line, Outcome, Frame, live, live' = live,
         doing # None \/ (toServer # <<>> /\ toServer' = Tail(toServer))
         \/ doing' = None
  PROVE  Talk' /\ Line'
<1>1. Handled
  <2>1. toAgi' # <<>> => toAgi # <<>> \/ (call.agifh # 0 /\ call.agifh = Len(conn))
    BY DEF Outcome
  <2>2. redirects' \in Nat /\ statuses' \in Nat /\ redirecting' \in BOOLEAN
        /\ fromVamd' \in Seq(Signals \cup {"listening"})
    BY DEF Frame, Line, LineTypes
  <2> QED
    BY <2>1, <2>2 DEF Handled, Outcome, Frame
<1>2. Talked
  BY DEF Talked, Outcome, Frame, None
<1> QED
  BY <1>1, <1>2, HandledLine, TalkedTalk

LEMMA OverKeeps ==
  ASSUME Talk, Line, Over, Frame, UNCHANGED listen,
         fromServer' \in Seq(SaidToClient)
  PROVE  Talk' /\ Line'
<1>1. NoCall \in CallState /\ NoCall.agifh = 0
  BY DEF NoCall, CallState
<1>2. Handled
  <2>1. redirects' \in Nat /\ statuses' \in Nat /\ redirecting' \in BOOLEAN
        /\ fromVamd' \in Seq(Signals \cup {"listening"}) /\ listen' \in BOOLEAN
        /\ toAgi' \in Seq(AgiLines)
    BY DEF Frame, Line, LineTypes, Over
  <2> QED
    BY <1>1, <2>1 DEF Handled, Frame, Over
<1>3. Talked
  BY DEF Talked, Frame
<1> QED
  BY <1>2, <1>3, HandledLine, TalkedTalk

\* Results are read while the call is there.
LEMMA ReadsDoes ==
  ASSUME Talk, Line, Reads
  PROVE  /\ live /\ call.agifh \in DOMAIN conn /\ Taken(call.agifh)
         /\ Item = conn[call.agifh][1] /\ 1 \in DOMAIN conn[call.agifh]
         /\ Item \in AgiResults /\ conn[call.agifh] \in Seq(AgiResults)
         /\ toServer' = toServer
         /\ dialing' \in BOOLEAN => Frame
<1>1. call.agifh \in DOMAIN conn
  BY DEF Reads, Line, LineTypes, CallState
<1>2. live
  BY DEF Reads, Talk, Dead, NoCall, TalkTypes
<1>3. conn[call.agifh] \in Seq(AgiResults) /\ conn[call.agifh] # <<>>
  BY <1>1 DEF Reads, Line, LineTypes
<1>4. /\ Item = conn[call.agifh][1] /\ 1 \in DOMAIN conn[call.agifh]
      /\ Item \in AgiResults
  BY <1>3, TailItems DEF Item
<1>5. Taken(call.agifh)
  BY <1>1, <1>3 DEF Reads, Taken
<1>6. dialing' \in BOOLEAN => Frame
  BY <1>1, <1>5 DEF Frame, Reads
<1> QED
  BY <1>1, <1>2, <1>3, <1>4, <1>5, <1>6 DEF Reads

\* So are commands that the call carries out.
LEMMA TodoDoes ==
  ASSUME Talk, Line, NEW type, Todo(type)
  PROVE  /\ live /\ live' = live /\ Frame /\ doing = None
         /\ toServer # <<>> /\ toServer' = Tail(toServer)
         /\ call \in CallState /\ call.agi_doing # "HANGUP"
         /\ Head(toServer) \in Commands
         /\ Stopping \in CallState /\ Like(Stopping, call)
         /\ Head(toServer).files \in Nat
<1>1. call \in CallState /\ call.agi_doing # "HANGUP"
  BY DEF Todo, Line, LineTypes, Talk, HangupAsked, None
<1>2. Head(toServer) \in Commands
  BY TailItems DEF Todo, Talk, TalkTypes
<1>3. Head(toServer).stopkeys \in SUBSET Keys /\ Head(toServer).files \in Nat
  BY <1>2, PhoneglueAssumption
<1>4. Stopping \in CallState /\ Like(Stopping, call)
  BY <1>1, <1>3 DEF Stopping, CallState, Like
<1>5. Frame
  BY DEF Todo, Frame, mgrVars, Line, LineTypes
<1> QED
  BY <1>1, <1>2, <1>3, <1>4, <1>5 DEF Todo

\* Results are said, and no more.
LEMMA ResultsSaid ==
  /\ \A type \in Answered : Results(type) \subseteq SaidToClient \/ type = "HANGUP"
  /\ Ok("GOTDIG") \in SaidToClient /\ Ok("PLAYED") \in SaidToClient
  /\ Ok("RECORDED") \in SaidToClient /\ Ok("HUNGUP") \in SaidToClient
  /\ NoDigit \subseteq SaidToClient
  /\ Results("GETDIG") \subseteq SaidToClient
<1>1. \A type \in {"PLAYED", "RECORDED", "HUNGUP"} : Ok(type) \in SaidToClient
  BY SuccessSaid DEF MessageTypes
<1>2. Ok("GOTDIG") \in SaidToClient
  BY DEF SaidToClient
<1>3. Results("GETDIG") \subseteq SaidToClient
  BY DigitSaid, FailureSaid DEF Results, MessageTypes
<1>4. ASSUME NEW type \in Answered, type # "GETDIG"
      PROVE  Results(type) \subseteq SaidToClient
  <2>1. AnswerType(type) \in MessageTypes /\ AnswerType(type) # "GOTDIG"
    BY <1>4 DEF Answered, AnswerType, MessageTypes
  <2> QED
    BY <1>4, <2>1, SuccessSaid, FailureSaid DEF Results
<1> QED
  BY <1>1, <1>2, <1>3, <1>4 DEF NoDigit

-----------------------------------------------------------------------------
\* A recording is sent, or refused for its file.
LEMMA RecordDoes ==
  ASSUME Talk, Line, DoRecord
  PROVE  /\ Todo("RECORD")
         /\ Sends(Stopping, "RECORDFILE") \/ Replies(call, Results("RECORD"))
<1>1. Todo("RECORD")
  BY DEF DoRecord
<1>2. /\ Stopping \in CallState /\ Like(Stopping, Stopping)
      /\ call \in CallState /\ Like(call, call)
  BY <1>1, TodoDoes DEF Like
<1>3. CASE SendAgi(Stopping, "RECORDFILE") /\ doing' = "RECORD" /\ UNCHANGED fromServer
  BY <1>1, <1>2, <1>3, ClientCommandIs DEF Sends
<1>4. CASE /\ Answer(Message("RECORDED", TRUE, FALSE, None))
           /\ UNCHANGED <<call, toAgi, listen>>
  <2>1. Message("RECORDED", TRUE, FALSE, None) \in Results("RECORD")
    BY DEF Results, AnswerType
  <2> QED
    BY <1>1, <1>2, <1>4, <2>1 DEF Replies, Like
<1> QED
  BY <1>1, <1>3, <1>4 DEF DoRecord

LEMMA CommandsOutcome ==
  ASSUME Talk, Line, DoPlay \/ DoGetdig \/ DoRecord \/ DoOther
  PROVE  Outcome /\ \E type \in Answered : Todo(type)
<1>0. {"PLAY", "GETDIG", "RECORD"} \subseteq Answered
  BY DEF Answered
<1>1. CASE DoPlay
  <2> DEFINE c == [Stopping EXCEPT !.files = Head(toServer).files]
  <2>1. PlayNextFile(c) /\ Todo("PLAY")
    BY <1>1 DEF DoPlay
  <2>2. c \in CallState /\ Like(c, call)
    BY <2>1, TodoDoes DEF CallState, Like
  <2> HIDE DEF c
  <2>3. c.agifh = call.agifh /\ c.agi_doing # "HANGUP"
    BY <2>1, <2>2, TodoDoes DEF Like
  <2>4. Outcome
    BY <2>1, <2>2, <2>3, PlayNextFileDoes, ResultsSaid, RepliesOutcome, SendsOutcome
       DEF AgiCommands
  <2> QED
    BY <1>0, <2>1, <2>4
<1>2. CASE DoGetdig
  <2>1. GetNextDigit(Stopping, FALSE) /\ Todo("GETDIG")
    BY <1>2 DEF DoGetdig
  <2>2. /\ Stopping \in CallState /\ Stopping.agifh = call.agifh
        /\ Stopping.agi_doing # "HANGUP"
    BY <2>1, TodoDoes DEF Like
  <2>3. Outcome
    BY <2>1, <2>2, GetNextDigitDoes, ResultsSaid, RepliesOutcome, SendsOutcome
       DEF AgiCommands
  <2> QED
    BY <1>0, <2>1, <2>3
<1>3. CASE DoRecord
  <2>1. Todo("RECORD")
        /\ (Sends(Stopping, "RECORDFILE") \/ Replies(call, Results("RECORD")))
    BY <1>3, RecordDoes
  <2>2. /\ Stopping \in CallState /\ Stopping.agifh = call.agifh
        /\ Stopping.agi_doing # "HANGUP"
        /\ call \in CallState /\ call.agi_doing # "HANGUP"
    BY <2>1, TodoDoes DEF Like
  <2>2a. Results("RECORD") \subseteq SaidToClient
    BY ResultsSaid DEF Answered
  <2>3. Outcome
    BY <2>1, <2>2, <2>2a, SendsOutcome, RepliesOutcome DEF AgiCommands
  <2> QED
    BY <1>0, <2>1, <2>3
<1>4. CASE DoOther
  <2>1. PICK of \in {"SENDDTMF", "SETCALLERID", "DIAL", "SETVARIABLE", "HANGUP"} :
          /\ Todo(ClientCommand(of)) /\ SendAgi(call, of)
          /\ doing' = ClientCommand(of) /\ UNCHANGED fromServer
    BY <1>4 DEF DoOther
  <2>2. call \in CallState /\ call.agi_doing # "HANGUP" /\ of \in AgiCommands
    BY <2>1, TodoDoes DEF AgiCommands
  <2>3. Sends(call, of)
    BY <2>1, <2>2 DEF Sends, Like
  <2>4. Outcome
    BY <2>2, <2>3, SendsOutcome
  <2> QED
    BY <2>1, <2>2, <2>4, ClientCommandTypes
<1> QED
  BY <1>1, <1>2, <1>3, <1>4

LEMMA CommandsKeep ==
  ASSUME Talk, Line, DoPlay \/ DoGetdig \/ DoRecord \/ DoOther
  PROVE  Talk' /\ Line'
<1>1. PICK type \in Answered : Todo(type)
  BY CommandsOutcome
<1> QED
  BY <1>1, CommandsOutcome, TodoDoes, OutcomeKeeps

\* Refusals and releases.
LEMMA RefusalsKeep ==
  ASSUME Talk, Line, Rejects \/ Releases
  PROVE  Talk' /\ Line'
<1>1. CASE Releases
  <2>1. Over /\ fromServer' = Append(fromServer, Message("RELEASED", TRUE, TRUE, None))
    BY <1>1 DEF Releases, Release, Over
  <2>2. fromServer' \in Seq(SaidToClient)
    <3>1. Message("RELEASED", TRUE, TRUE, None) \in SaidToClient
      BY SuccessSaid DEF MessageTypes
    <3> QED
      BY <2>1, <3>1, SaidAlso DEF Talk, TalkTypes
  <2>3. Frame /\ UNCHANGED listen
    BY <1>1 DEF Releases, Release, Frame, mgrVars, vamdVars, Line, LineTypes
  <2> QED
    BY <2>1, <2>2, <2>3, OverKeeps
<1>2. CASE Rejects
  <2> DEFINE refusal == RefusalType(Head(toServer).type)
  <2>1. Head(toServer) \in Commands /\ toServer # <<>>
    BY <1>2, TailItems DEF Rejects, Refuse, Talk, TalkTypes
  <2>2. refusal \in MessageTypes /\ NamesCall(refusal) \in BOOLEAN
    BY <2>1, AnswerTypes, PhoneglueAssumption DEF NamesCall
  <2>3. ~live
    <3>1. Head(toServer).type # "RELEASE" => doing = None
      BY <2>1 DEF Talk, Polite
    <3> QED
      BY <1>2, <3>1 DEF Rejects, Refuse
  <2>4. /\ fromServer' = Append(fromServer,
                                Message(refusal, NamesCall(refusal), FALSE, None))
        /\ doing' \in {None, doing} /\ toServer' = Tail(toServer)
        /\ UNCHANGED <<live, call, toAgi>>
    BY <1>2 DEF Rejects, Refuse, astVars
  <2> HIDE DEF refusal
  <2>5. fromServer' \in Seq(SaidToClient)
    <3>1. Message(refusal, NamesCall(refusal), FALSE, None) \in SaidToClient
      BY <2>2, FailureSaid
    <3> QED
      BY <2>4, <3>1, SaidAlso DEF Talk, TalkTypes
  <2>6. Talked
    BY <2>1, <2>3, <2>4, <2>5 DEF Talked
  <2>7. Handled
    BY <1>2, <2>3, <2>4 DEF Rejects, Handled, astVars, mgrVars, vamdVars, Line, LineTypes
  <2> QED
    BY <2>6, <2>7, TalkedTalk, HandledLine
<1> QED
  BY <1>1, <1>2

\* The end of a call that results tell of.
LEMMA FinishedKeeps ==
  ASSUME Talk, Line, Reads, UNCHANGED dialing,
         NEW answers \in Seq(SaidToClient), AgiClientFinished(answers)
  PROVE  Talk' /\ Line'
<1>1. Over /\ UNCHANGED listen
  BY DEF AgiClientFinished, Over
<1>2. fromServer' \in Seq(SaidToClient)
  <2>1. <<Ok("HUNGUP")>> \in Seq(SaidToClient)
    BY ResultsSaid
  <2>2. answers \o <<Ok("HUNGUP")>> \in Seq(SaidToClient)
    BY <2>1
  <2>3. fromServer \o answers \in Seq(SaidToClient)
    BY DEF Talk, TalkTypes
  <2>4. fromServer \o answers \o <<Ok("HUNGUP")>> \in Seq(SaidToClient)
    BY <2>1, <2>3
  <2> QED
    BY <2>4 DEF AgiClientFinished
<1>3. Frame
  BY ReadsDoes DEF Line, LineTypes
<1> QED
  BY <1>1, <1>2, <1>3, OverKeeps

LEMMA EndsKeep ==
  ASSUME Talk, Line, Finishes \/ HangupResult
  PROVE  Talk' /\ Line'
<1>1. Reads /\ UNCHANGED dialing /\ AgiClientFinished(<<>>)
  BY DEF Finishes, HangupResult, ResultOf
<1>2. <<>> \in Seq(SaidToClient)
  OBVIOUS
<1> QED
  BY <1>1, <1>2, FinishedKeeps

\* A result of the command it is taken for.
LEMMA SucceedsDoes ==
  ASSUME Talk, Line, NEW of \in AgiCommands, Succeeds(of)
  PROVE  /\ Reads /\ live /\ Item \in AgiResults /\ doing = ClientCommand(of)
         /\ doing # None /\ call.agi_doing = of /\ call \in CallState
         /\ Item.key \notin MinusOne =>
              Collecting \in CallState /\ Collecting.agifh = call.agifh
              /\ Collecting.agi_doing = None /\ Collecting.vamd_state = call.vamd_state
<1>1. Reads /\ doing = ClientCommand(of) /\ call.agi_doing = of
  BY DEF Succeeds, ResultOf
<1>2. live /\ Item \in AgiResults
  BY <1>1, ReadsDoes
<1>3. doing # None
  BY <1>1, ClientCommandTypes DEF Answered, None
<1>4. call \in CallState
  BY DEF Line, LineTypes
<1>5. ASSUME Item.key \notin MinusOne
      PROVE  /\ Collecting \in CallState /\ Collecting.agifh = call.agifh
             /\ Collecting.agi_doing = None
             /\ Collecting.vamd_state = call.vamd_state
  <2>1. Item.key \in Keys \cup {None}
    BY <1>2, <1>5 DEF AgiResults
  <2> DEFINE keys == IF Item.key = None THEN call.collected
                     ELSE Append(call.collected, Item.key)
  <2>2. call.collected \in Seq(Keys)
    BY <1>4 DEF CallState
  <2>3. keys \in Seq(Keys)
    BY <2>1, <2>2
  <2>4. Collecting = [call EXCEPT !.agi_doing = None, !.collected = keys]
    BY <1>4 DEF Collecting, CallState
  <2> HIDE DEF keys
  <2> QED
    BY <1>4, <2>3, <2>4 DEF CallState
<1> QED
  BY <1>1, <1>2, <1>3, <1>4, <1>5

LEMMA ResultsOutcome ==
  ASSUME Talk, Line,
         PlayResult \/ GetdigResult \/ RecordResult \/ OtherResult \/ DialResult
           \/ CallerIdResult
  PROVE  /\ Reads /\ dialing' \in BOOLEAN /\ doing # None
         /\ \/ Outcome /\ live' = live
            \/ UNCHANGED dialing /\ AgiClientFinished(<<Ok("RECORDED")>>)
<1>0. /\ {"PLAYFILE", "GETDIGIT", "RECORDFILE", "SENDDTMF", "SETVARIABLE", "DIAL",
          "SETCALLERID"} \subseteq AgiCommands
      /\ dialing \in BOOLEAN /\ toAgi \in Seq(AgiLines) /\ listen \in BOOLEAN
      /\ fromServer \in Seq(SaidToClient)
      /\ [call EXCEPT !.agi_doing = None] \in CallState
      /\ [call EXCEPT !.agi_doing = None].agifh = call.agifh
      /\ [call EXCEPT !.agi_doing = None].agi_doing = None
  BY DEF AgiCommands, Talk, TalkTypes, Line, LineTypes, CallState
<1> DEFINE ended == [call EXCEPT !.agi_doing = None]
<1> HIDE DEF ended
<1>1. CASE PlayResult
  <2>1. Succeeds("PLAYFILE") /\ Item.key \notin MinusOne /\ UNCHANGED <<live, dialing>>
    BY <1>1 DEF PlayResult
  <2>2. CASE PlayNextFile(Collecting)
    <3>1. Outcome
      BY <1>0, <2>1, <2>2, SucceedsDoes, PlayNextFileDoes, ResultsSaid, RepliesOutcome,
         SendsOutcome DEF None
    <3> QED
      BY <1>0, <2>1, <3>1, SucceedsDoes
  <2>3. CASE /\ Answer(Message("PLAYED", TRUE, FALSE, None))
             /\ call' = ended /\ UNCHANGED <<toAgi, listen>>
    <3>1. fromServer' \in Seq(SaidToClient) /\ doing' = None
      BY <1>0, <2>3, FailureSaid, SaidMore DEF MessageTypes
    <3>2. Outcome
      BY <1>0, <2>3, <3>1 DEF Outcome, None, ended
    <3> QED
      BY <1>0, <2>1, <3>2, SucceedsDoes
  <2> QED
    BY <1>1, <2>2, <2>3 DEF PlayResult, ended
<1>2. CASE GetdigResult
  <2>1. Succeeds("GETDIGIT") /\ Item.key \notin MinusOne /\ UNCHANGED <<live, dialing>>
        /\ GetNextDigit(Collecting, Item.key = None)
    BY <1>2 DEF GetdigResult
  <2>2. (Item.key = None) \in BOOLEAN
    OBVIOUS
  <2>3. Replies(Collecting, Results("GETDIG")) \/ Sends(Collecting, "GETDIGIT")
    BY <1>0, <2>1, <2>2, SucceedsDoes, GetNextDigitDoes
  <2>4. Outcome
    BY <1>0, <2>1, <2>3, SucceedsDoes, ResultsSaid, RepliesOutcome, SendsOutcome DEF None
  <2> QED
    BY <1>0, <2>1, <2>4, SucceedsDoes
<1>3. CASE RecordResult
  <2>1. Succeeds("RECORDFILE") /\ UNCHANGED dialing
    BY <1>3 DEF RecordResult
  <2>2. CASE AgiClientFinished(<<Ok("RECORDED")>>)
    BY <1>0, <2>1, <2>2, SucceedsDoes
  <2>3. CASE /\ Answer(Message("RECORDED", TRUE, HasEndpos /\ Item.key # "-1", None))
             /\ call' = ended /\ UNCHANGED <<live, toAgi, listen>>
    <3>1. Message("RECORDED", TRUE, HasEndpos /\ Item.key # "-1", None) \in SaidToClient
      <4>1. (HasEndpos /\ Item.key # "-1") \in BOOLEAN
        OBVIOUS
      <4>2. "RECORDED" \in MessageTypes /\ "RECORDED" # "GOTDIG"
        BY DEF MessageTypes
      <4> QED
        BY <4>1, <4>2, FailureSaid, SuccessSaid
    <3>2. fromServer' \in Seq(SaidToClient) /\ doing' = None
      BY <1>0, <2>3, <3>1, SaidMore
    <3>3. Outcome
      BY <1>0, <2>3, <3>2 DEF Outcome, None, ended
    <3> QED
      BY <1>0, <2>1, <2>3, <3>3, SucceedsDoes
  <2> QED
    BY <1>3, <2>2, <2>3 DEF RecordResult, ended
<1>4. CASE OtherResult
  <2>1. PICK of \in {"SENDDTMF", "SETVARIABLE"} :
          Succeeds(of) /\ Answer(Ok(AnswerType(ClientCommand(of))))
    BY <1>4 DEF OtherResult
  <2>2. call' = ended /\ UNCHANGED <<live, toAgi, listen, dialing>>
    BY <1>4 DEF OtherResult, ended
  <2>3. Ok(AnswerType(ClientCommand(of))) \in SaidToClient
    BY ClientCommandIs, SuccessSaid DEF AnswerType, MessageTypes
  <2>4. fromServer' \in Seq(SaidToClient) /\ doing' = None
    BY <1>0, <2>1, <2>3, SaidMore
  <2>5. Outcome
    BY <1>0, <2>2, <2>4 DEF Outcome, None, ended
  <2> QED
    BY <1>0, <2>1, <2>2, <2>5, SucceedsDoes
<1>5. CASE DialResult
  <2>1. /\ Succeeds("DIAL") /\ dialing' = TRUE /\ call' = ended
        /\ UNCHANGED <<live, doing, fromServer, toAgi, listen>>
    BY <1>5 DEF DialResult, ended
  <2>2. Outcome
    BY <1>0, <2>1 DEF Outcome, ended
  <2> QED
    BY <1>0, <2>1, <2>2, SucceedsDoes
<1>6. CASE CallerIdResult
  <2>1. /\ Succeeds("SETCALLERID") /\ SendAgi(call, "DIAL")
        /\ UNCHANGED <<live, doing, fromServer, dialing>>
    BY <1>6 DEF CallerIdResult
  <2>2. Sends(call, "DIAL")
    <3>1. doing' = ClientCommand("DIAL")
      BY <1>0, <2>1, SucceedsDoes, ClientCommandIs
    <3> QED
      BY <1>0, <2>1, <3>1, SucceedsDoes DEF Sends, Like
  <2>3. Outcome
    BY <1>0, <2>1, <2>2, SucceedsDoes, SendsOutcome
  <2> QED
    BY <1>0, <2>1, <2>3, SucceedsDoes
<1> QED
  BY <1>1, <1>2, <1>3, <1>4, <1>5, <1>6

LEMMA ResultsKeep ==
  ASSUME Talk, Line,
         PlayResult \/ GetdigResult \/ RecordResult \/ OtherResult \/ DialResult
           \/ CallerIdResult
  PROVE  Talk' /\ Line'
<1>1. Reads /\ dialing' \in BOOLEAN /\ doing # None
  BY ResultsOutcome
<1>2. CASE Outcome /\ live' = live
  BY <1>1, <1>2, ReadsDoes, OutcomeKeeps
<1>3. CASE UNCHANGED dialing /\ AgiClientFinished(<<Ok("RECORDED")>>)
  <2>1. <<Ok("RECORDED")>> \in Seq(SaidToClient)
    BY ResultsSaid
  <2> QED
    BY <1>1, <1>3, <2>1, FinishedKeeps
<1> QED
  BY <1>2, <1>3, ResultsOutcome

LEMMA UnexpectedKeeps ==
  ASSUME Talk, Line, Unexpected \/ Fails
  PROVE  Talk' /\ Line'
<1>0. /\ dialing \in BOOLEAN /\ toAgi \in Seq(AgiLines) /\ listen \in BOOLEAN
      /\ fromServer \in Seq(SaidToClient) /\ call \in CallState
      /\ [call EXCEPT !.agi_doing = None] \in CallState
      /\ [call EXCEPT !.agi_doing = None].agifh = call.agifh
      /\ [call EXCEPT !.agi_doing = None].agi_doing = None
  BY DEF Talk, TalkTypes, Line, LineTypes, CallState
<1>1. CASE Unexpected
  <2>1. Reads /\ UNCHANGED <<live, call, doing, fromServer, toAgi, listen, dialing>>
    BY <1>1 DEF Unexpected
  <2>2. live /\ Frame
    BY <1>0, <2>1, ReadsDoes
  <2>3. Talked
    BY <1>0, <2>1, <2>2 DEF Talked, Frame
  <2>4. Handled
    BY <1>0, <2>1, <2>2 DEF Handled, Frame, Line, LineTypes, Hangups
  <2> QED
    BY <2>3, <2>4, HandledLine, TalkedTalk
<1>2. CASE Fails
  <2>1. PICK of \in AgiCommands \ {"HANGUP"} :
          /\ ResultOf(of)
          /\ Answer(Message(AnswerType(ClientCommand(of)), TRUE, FALSE, None))
    BY <1>2 DEF Fails
  <2>2. /\ Reads /\ call.agi_doing = of
        /\ UNCHANGED <<live, toAgi, listen, dialing>>
        /\ call' \in {call, [call EXCEPT !.agi_doing = None]}
    BY <1>2, <2>1 DEF ResultOf, Fails
  <2>3. AnswerType(ClientCommand(of)) \in MessageTypes
    BY ClientCommandTypes, AnswerTypes DEF CommandTypes
  <2>4. fromServer' \in Seq(SaidToClient) /\ doing' = None
    BY <1>0, <2>1, <2>3, FailureSaid, SaidMore
  <2>5. Outcome
    BY <1>0, <2>2, <2>4 DEF Outcome, None
  <2>6. live /\ Frame
    BY <1>0, <2>2, ReadsDoes
  <2> QED
    BY <2>2, <2>4, <2>5, <2>6, OutcomeKeeps
<1> QED
  BY <1>1, <1>2

\* The call once the monitor was started, or stopped.
Changed == [call EXCEPT !.vamd_state = IF @ = 2 THEN 3 ELSE 0]

LEMMA ChangedIs ==
  ASSUME Line
  PROVE  /\ Changed \in CallState /\ Changed.agifh = call.agifh
         /\ Changed.agi_doing = call.agi_doing /\ Changed.queued = call.queued
         /\ Changed.stopkeys = call.stopkeys /\ Changed.collected = call.collected
         /\ Changed.vamd_state = (IF call.vamd_state = 2 THEN 3 ELSE 0)
<1> DEFINE state == IF call.vamd_state = 2 THEN 3 ELSE 0
<1>1. call \in CallState /\ state \in -1..3
  BY DEF Line, LineTypes
<1>2. Changed = [call EXCEPT !.vamd_state = state]
  BY <1>1 DEF Changed, CallState
<1> HIDE DEF state
<1>3. /\ Changed \in CallState /\ Changed.agifh = call.agifh
      /\ Changed.agi_doing = call.agi_doing /\ Changed.queued = call.queued
      /\ Changed.stopkeys = call.stopkeys /\ Changed.collected = call.collected
      /\ Changed.vamd_state = state
  BY <1>1, <1>2 DEF CallState
<1> QED
  BY <1>3 DEF state

LEMMA MonitorChangesDoes ==
  ASSUME MonitorChanges
  PROVE  /\ Reads /\ Item.of # "CLOSED" /\ call.agi_doing # None
         /\ call.vamd_state \in {2, -1} /\ UNCHANGED <<live, dialing>>
         /\ \/ /\ Changed.queued # None
               /\ toAgi' = Written(Changed, Changed.queued)
               /\ call' = Changed /\ UNCHANGED <<doing, fromServer, listen>>
            \/ Changed.queued = None /\ HandleInterruptedCommand(Changed)
BY DEF MonitorChanges, Changed

\* An interrupted command leaves a call that goes on.
LEMMA InterruptedOutcome ==
  ASSUME Talk, Line, NEW c \in CallState, c.agifh = call.agifh,
         HandleInterruptedCommand(c)
  PROVE  Outcome
<1>1. /\ \/ Replies(c, Results(doing)) /\ doing \in {"PLAY", "GETDIG", "RECORD"}
         \/ Replies(c, NoDigit)
         \/ Silent(c)
      /\ call'.agi_doing = None
  BY InterruptedDoes
<1>2. doing \in {"PLAY", "GETDIG", "RECORD"} => Results(doing) \subseteq SaidToClient
  BY ResultsSaid DEF Answered
<1> QED
  BY <1>1, <1>2, ResultsSaid, RepliesOutcome, SilentOutcome

LEMMA MonitorChangesKeeps ==
  ASSUME Talk, Line, MonitorChanges
  PROVE  Talk' /\ Line'
<1>1. /\ Reads /\ UNCHANGED <<live, dialing>> /\ live
      /\ \/ /\ Changed.queued # None
            /\ toAgi' = Written(Changed, Changed.queued)
            /\ call' = Changed /\ UNCHANGED <<doing, fromServer, listen>>
         \/ HandleInterruptedCommand(Changed)
  BY MonitorChangesDoes, ReadsDoes
<1>2. Frame
  BY <1>1, ReadsDoes DEF Line, LineTypes
<1>3. CASE HandleInterruptedCommand(Changed)
  <2>1. Outcome
    BY <1>3, ChangedIs, InterruptedOutcome
  <2>2. doing # None \/ doing' = None
    BY <1>3 DEF HandleInterruptedCommand, Answer
  <2> QED
    BY <1>1, <1>2, <2>1, <2>2, OutcomeKeeps
<1>4. CASE /\ Changed.queued # None
           /\ toAgi' = Written(Changed, Changed.queued)
           /\ call' = Changed /\ UNCHANGED <<doing, fromServer, listen>>
  <2>1. Changed.queued \in AgiLines
    BY <1>4, ChangedIs DEF CallState, AgiLines
  <2>2. /\ toAgi' \in Seq(AgiLines)
        /\ toAgi' = toAgi \/ call.agifh = Len(conn)
    BY <1>4, <2>1, ChangedIs DEF Written, Line, LineTypes
  <2>3. call.agifh # 0
    BY <1>1 DEF Reads
  <2>4. Handled
    BY <1>1, <1>2, <1>4, <2>2, <2>3, ChangedIs
       DEF Handled, Frame, Line, LineTypes, Hangups
  <2>5. Talked
    BY <1>1, <1>2, <1>4, ChangedIs DEF Talked, Frame, Talk, TalkTypes
  <2> QED
    BY <2>4, <2>5, HandledLine, TalkedTalk
<1> QED
  BY <1>1, <1>3, <1>4

\* A connection that opened.
LEMMA OpensDoes ==
  ASSUME Line, NEW i \in DOMAIN conn, Opens(i)
  PROVE  /\ Taken(i) /\ Head(conn[i]) = INIT /\ toServer' = toServer
         /\ dialing' = dialing /\ dialing \in BOOLEAN
         /\ UNCHANGED <<caller, redirects, statuses, vamd, monitor, fromVamd, live>>
         /\ conn[i] \in Seq(AgiResults)
BY DEF Opens, Taken, Line, LineTypes

\* That nobody waits for it any longer concerns no other part of the state.
LEMMA TimeoutLeaves ==
  ASSUME ReceivedTimesOut
  PROVE  UNCHANGED <<toServer, fromServer, live, doing, call, conn, toAgi, caller,
           redirects, statuses, monitor, redirecting, again, dialing, vamd, listen,
           fromVamd>>
BY DEF ReceivedTimesOut, serverVars, astVars, vamdVars

LEMMA OpensKeeps ==
  ASSUME Talk, Line, Reattaches \/ Parks \/ ReceivedTimesOut
  PROVE  Talk' /\ Line'
<1>0. /\ toAgi \in Seq(AgiLines) /\ listen \in BOOLEAN /\ call \in CallState
      /\ fromServer \in Seq(SaidToClient) /\ redirecting \in BOOLEAN
      /\ redirects \in Nat /\ statuses \in Nat
      /\ fromVamd \in Seq(Signals \cup {"listening"})
  BY DEF Talk, TalkTypes, Line, LineTypes
<1>1. CASE Parks
  <2>1. PICK i \in DOMAIN conn : /\ Opens(i)
             /\ UNCHANGED <<redirecting, call, doing, fromServer, toAgi, listen>>
    BY <1>1 DEF Parks
  <2>2. /\ Taken(i) /\ toServer' = toServer /\ UNCHANGED dialing
        /\ UNCHANGED <<caller, redirects, statuses, vamd, monitor, fromVamd, live>>
        /\ dialing \in BOOLEAN
    BY <2>1, OpensDoes
  <2>3. Handled
    BY <1>0, <2>1, <2>2 DEF Handled, Line, Hangups
  <2>4. Talked
    BY <1>0, <2>1, <2>2 DEF Talked, Talk, TalkTypes
  <2> QED
    BY <2>3, <2>4, HandledLine, TalkedTalk
<1>2. CASE Reattaches
  <2>1. PICK i \in DOMAIN conn :
          /\ Opens(i) /\ redirecting /\ redirecting' = FALSE
          /\ \/ live /\ HandleInterruptedCommand([call EXCEPT !.agifh = i])
             \/ UNCHANGED <<call, doing, fromServer, toAgi, listen>>
    BY <1>2 DEF Reattaches
  <2>2. /\ Taken(i) /\ toServer' = toServer /\ UNCHANGED dialing
        /\ UNCHANGED <<caller, redirects, statuses, vamd, monitor, fromVamd, live>>
        /\ dialing \in BOOLEAN /\ Head(conn[i]) = INIT
    BY <2>1, OpensDoes
  <2>3. CASE UNCHANGED <<call, doing, fromServer, toAgi, listen>>
    <3>1. Handled
      BY <1>0, <2>1, <2>2, <2>3 DEF Handled
    <3>2. Talked
      BY <1>0, <2>1, <2>2, <2>3 DEF Talked, Talk, TalkTypes
    <3> QED
      BY <3>1, <3>2, HandledLine, TalkedTalk
  <2>4. CASE live /\ HandleInterruptedCommand([call EXCEPT !.agifh = i])
    <3> DEFINE c == [call EXCEPT !.agifh = i]
    <3>0. i \in Nat
      BY DEF Line, LineTypes
    <3>1. c \in CallState /\ c.agifh = i
      BY <1>0, <3>0 DEF CallState
    <3> HIDE DEF c
    <3>2. /\ \/ Replies(c, Results(doing)) /\ doing \in {"PLAY", "GETDIG", "RECORD"}
             \/ Replies(c, NoDigit)
             \/ Silent(c)
          /\ call'.agi_doing = None
      <4>1. HandleInterruptedCommand(c)
        BY <2>4 DEF c
      <4> QED
        BY <3>1, <4>1, InterruptedDoes
    <3>3. call' \in CallState /\ call'.agifh = i /\ UNCHANGED <<toAgi, listen>>
      BY <3>1, <3>2 DEF Replies, Silent
    <3>4. /\ fromServer' \in Seq(SaidToClient)
          /\ doing' = None \/ doing' = doing
      <4>1. doing \in {"PLAY", "GETDIG", "RECORD"} => Results(doing) \subseteq SaidToClient
        BY ResultsSaid DEF Answered
      <4>2. ASSUME NEW ms \in SUBSET SaidToClient, Replies(c, ms)
            PROVE  fromServer' \in Seq(SaidToClient) /\ doing' = None
        BY <1>0, <4>2, SaidMore DEF Replies
      <4> QED
        BY <1>0, <3>2, <4>1, <4>2, ResultsSaid DEF Silent
    <3>5. Handled
      BY <1>0, <2>1, <2>2, <3>3 DEF Handled
    <3>6. Talked
      BY <2>2, <2>4, <3>2, <3>4 DEF Talked, None
    <3> QED
      BY <3>5, <3>6, HandledLine, TalkedTalk
  <2> QED
    BY <2>1, <2>3, <2>4
<1>3. CASE ReceivedTimesOut
  <2>1. Talk'
    BY <1>3, TimeoutLeaves DEF Talk, TalkTypes, Dead, Polite, HangupAsked
  <2>2. Line'
    BY <1>3, TimeoutLeaves DEF Line, LineTypes, Openings, Hangups
  <2> QED
    BY <2>1, <2>2
<1> QED
  BY <1>1, <1>2, <1>3

LEMMA NewsKeeps ==
  ASSUME Talk, Line, DialStatus \/ VamdListens \/ VamdSignals
  PROVE  Talk' /\ Line'
<1>0. /\ toAgi \in Seq(AgiLines) /\ listen \in BOOLEAN /\ call \in CallState
      /\ fromServer \in Seq(SaidToClient) /\ redirecting \in BOOLEAN
      /\ redirects \in Nat /\ statuses \in Nat /\ dialing \in BOOLEAN
      /\ fromVamd \in Seq(Signals \cup {"listening"}) /\ live \in BOOLEAN
      /\ live /\ redirecting => call.agifh = 0
      /\ ~live => call = NoCall /\ NoCall.agi_doing = None
  BY DEF Talk, TalkTypes, Dead, Line, LineTypes, Hangups, NoCall
<1>1. CASE DialStatus
  <2>1. /\ statuses > 0 /\ statuses' = statuses - 1
        /\ UNCHANGED <<toServer, live, conn, toAgi, caller, redirects, monitor,
                       redirecting, dialing, vamd, listen, fromVamd>>
    BY <1>1 DEF DialStatus, mgrVars, vamdVars
  <2>2. \/ /\ live /\ Answer(Message("TRANSFERED", TRUE, doing = "TRANSFER", None))
           /\ call' = [call EXCEPT !.agi_doing = None]
        \/ UNCHANGED <<call, doing, fromServer>>
    BY <1>1 DEF DialStatus
  <2>3. /\ call' \in CallState /\ call'.agifh = call.agifh
        /\ call'.agi_doing \in {None, call.agi_doing}
    BY <1>0, <2>2 DEF CallState
  <2>4. fromServer' \in Seq(SaidToClient) /\ (UNCHANGED <<call, doing>>
          \/ (live /\ doing' = None /\ call'.agi_doing = None))
    <3>1. Message("TRANSFERED", TRUE, doing = "TRANSFER", None) \in SaidToClient
      <4>1. "TRANSFERED" \in MessageTypes /\ "TRANSFERED" # "GOTDIG"
        BY DEF MessageTypes
      <4>2. (doing = "TRANSFER") \in BOOLEAN
        OBVIOUS
      <4> QED
        BY <4>1, <4>2, FailureSaid, SuccessSaid
    <3> QED
      BY <1>0, <2>2, <3>1, SaidMore DEF CallState
  <2>5. Handled
    <3>1. statuses' \in Nat
      BY <1>0, <2>1
    <3> QED
      BY <1>0, <2>1, <2>3, <3>1 DEF Handled
  <2>6. Talked
    BY <1>0, <2>1, <2>4 DEF Talked, None
  <2> QED
    BY <2>5, <2>6, HandledLine, TalkedTalk
<1>2. ASSUME FromVamd
      PROVE  /\ fromVamd' \in Seq(Signals \cup {"listening"})
             /\ Head(fromVamd) \in Signals \cup {"listening"}
             /\ UNCHANGED <<toServer, fromServer, live, doing, conn, caller, statuses,
                            monitor, dialing, vamd, listen>>
  BY <1>0, <1>2, TailItems DEF FromVamd, serverVars
<1>3. CASE VamdListens
  <2>1. /\ FromVamd /\ UNCHANGED <<redirects, redirecting>>
        /\ \/ live /\ call' = [call EXCEPT !.vamd_state = 2]
              /\ toAgi' = Written(call, "MONITOR")
           \/ ~live /\ UNCHANGED <<call, toAgi>>
    BY <1>3 DEF VamdListens
  <2>2. /\ call' \in CallState /\ call'.agifh = call.agifh
        /\ call'.agi_doing = call.agi_doing
    <3>1. call \in CallState /\ call' \in {call, [call EXCEPT !.vamd_state = 2]}
      BY <1>0, <2>1
    <3>2. 2 \in -1..3
      OBVIOUS
    <3> QED
      BY <3>1, <3>2 DEF CallState
  <2>3. toAgi' \in Seq(AgiLines)
    <3>1. "MONITOR" \in AgiLines /\ toAgi \in Seq(AgiLines)
      BY <1>0 DEF AgiLines
    <3>2. toAgi' \in {toAgi, Append(toAgi, "MONITOR")}
      BY <2>1 DEF Written
    <3> QED
      BY <3>1, <3>2
  <2>4. toAgi' = toAgi \/ call.agifh = Len(conn)
    BY <2>1 DEF Written
  <2>4a. Len(conn) # 0
    BY DEF Line, LineTypes
  <2>5. Handled
    BY <1>0, <1>2, <2>1, <2>2, <2>3, <2>4, <2>4a DEF Handled
  <2>6. Talked
    BY <1>0, <1>2, <2>1, <2>2 DEF Talked
  <2> QED
    BY <2>5, <2>6, HandledLine, TalkedTalk
<1>4. CASE VamdSignals
  <2> DEFINE signal == Head(fromVamd)
             c == [call EXCEPT !.collected = Append(@, signal)]
  <2>1. /\ FromVamd /\ signal # "listening" /\ UNCHANGED toAgi
        /\ \/ Interrupts(signal) /\ StopMedia(c)
           \/ UNCHANGED <<call, redirects, redirecting>>
    BY <1>4 DEF VamdSignals
  <2>2. signal \in Keys
    BY <1>2, <2>1, PhoneglueAssumption
  <2>3. c \in CallState /\ c.agifh = call.agifh /\ c.agi_doing = call.agi_doing
    <3>1. call \in CallState /\ call.collected \in Seq(Keys)
      BY <1>0 DEF CallState
    <3> HIDE DEF signal
    <3>2. Append(call.collected, signal) \in Seq(Keys)
      BY <2>2, <3>1
    <3>3. c = [call EXCEPT !.collected = Append(call.collected, signal)]
      BY <3>1 DEF CallState
    <3> HIDE DEF c
    <3> QED
      BY <3>1, <3>2, <3>3 DEF CallState
  <2>4. Interrupts(signal) => call.agi_doing # "HANGUP" /\ live
    BY <1>0 DEF Interrupts, None
  <2> HIDE DEF c, signal
  <2>5. StopMedia(c) =>
          \/ /\ call' = [c EXCEPT !.queued = None] /\ UNCHANGED <<redirects, redirecting>>
          \/ /\ call' = [c EXCEPT !.agifh = 0]
             /\ redirecting' = TRUE /\ redirects' = redirects + 1
    BY DEF StopMedia
  <2>6. /\ call' \in CallState /\ call'.agi_doing = call.agi_doing
        /\ \/ call'.agifh = call.agifh /\ UNCHANGED <<redirects, redirecting>>
           \/ call'.agifh = 0 /\ redirecting' = TRUE /\ redirects' = redirects + 1
    <3>1. CASE UNCHANGED <<call, redirects, redirecting>>
      BY <1>0, <3>1
    <3>2. CASE /\ call' = [c EXCEPT !.queued = None]
               /\ UNCHANGED <<redirects, redirecting>>
      BY <2>3, <3>2 DEF CallState
    <3>3. CASE /\ call' = [c EXCEPT !.agifh = 0]
               /\ redirecting' = TRUE /\ redirects' = redirects + 1
      BY <2>3, <3>3 DEF CallState
    <3> QED
      BY <2>1, <2>5, <3>1, <3>2, <3>3
  <2>7. Handled
    <3>1. redirects' \in Nat /\ redirecting' \in BOOLEAN
      <4>1. redirects \in Nat /\ redirecting \in BOOLEAN
        BY <1>0
      <4>2. redirects' \in {redirects, redirects + 1}
        BY <2>6
      <4>3. redirecting' \in {redirecting, TRUE}
        BY <2>6
      <4>4. redirects' \in Nat
        BY <4>1, <4>2
      <4>5. redirecting' \in BOOLEAN
        BY <4>1, <4>3
      <4> QED
        BY <4>4, <4>5
    <3>2. redirects' > 0 => redirects > 0 \/ call'.agifh = 0
      BY <1>0, <2>6
    <3> QED
      BY <1>0, <1>2, <2>1, <2>6, <3>1, <3>2 DEF Handled
  <2>8. Talked
    <3>1. CASE UNCHANGED call
      BY <1>0, <1>2, <2>1, <3>1 DEF Talked
    <3>2. CASE Interrupts(signal)
      BY <1>0, <1>2, <2>1, <2>4, <2>6, <3>2 DEF Talked
    <3> QED
      BY <2>1, <3>1, <3>2
  <2> QED
    BY <2>7, <2>8, HandledLine, TalkedTalk
<1> QED
  BY <1>1, <1>3, <1>4

-----------------------------------------------------------------------------
(* The client, Asterisk and the analyser.                                   *)

\* Asterisk leaves what is said alone.
LEMMA AsteriskTalk ==
  ASSUME Talk, UNCHANGED <<toServer, fromServer, live, doing, call>>,
         toAgi' # <<>> => toAgi # <<>>
  PROVE  Talk'
BY DEF Talk, TalkTypes, Dead, Polite, HangupAsked

\* What is told on the last connection.
LEMMA ToldLine ==
  ASSUME Line, NEW items \in Seq(AgiResults), Tells(items),
         \A j \in DOMAIN items :
           /\ items[j].of # "INIT"
           /\ toAgi = <<>> => items[j].of = "CLOSED"
           /\ items[j].of = "CLOSED" => ~caller',
         toAgi' \in Seq(AgiLines), toAgi' # <<>> => toAgi # <<>>,
         caller' \in BOOLEAN, caller' => caller, monitor' \in BOOLEAN,
         redirects' \in Nat, redirects' > 0 => redirects > 0, statuses' \in Nat,
         UNCHANGED <<call, live, redirecting, dialing, vamd, listen, fromVamd>>
  PROVE  Line'
<1> DEFINE last == Len(conn)
<1>1. /\ conn' \in Seq(Seq(AgiResults)) /\ Len(conn') = last
      /\ DOMAIN conn' = DOMAIN conn /\ last \in DOMAIN conn
      /\ conn'[last] = conn[last] \o items
      /\ \A k \in DOMAIN conn : k # last => conn'[k] = conn[k]
  BY ToldConn DEF Line, LineTypes
<1> HIDE DEF last
<1>2. conn[last] \in Seq(AgiResults)
  BY <1>1 DEF Line, LineTypes
<1>3. \A j \in DOMAIN conn'[last] :
        \/ j \in DOMAIN conn[last] /\ conn'[last][j] = conn[last][j]
        \/ j - Len(conn[last]) \in DOMAIN items
           /\ conn'[last][j] = items[j - Len(conn[last])]
  BY SMTT(60), <1>1, <1>2, JoinedItems
<1>4. LineTypes'
  BY <1>1 DEF Line, LineTypes
<1>5. Openings'
  <2> SUFFICES ASSUME NEW i \in DOMAIN conn
               PROVE  /\ \A j \in DOMAIN conn'[i] :
                           conn'[i][j].of = "INIT" => j = 1 /\ i # 1 /\ i # call'.agifh
                      /\ conn'[i] # <<>> /\ Head(conn'[i]).of = "INIT" =>
                           /\ \A j \in DOMAIN conn'[i] :
                                j # 1 => conn'[i][j].of = "CLOSED"
                           /\ i = Len(conn') => toAgi' = <<>>
    BY <1>1 DEF Openings
  <2>1. CASE i # last
    BY ZenonT(60), <1>1, <2>1 DEF Line, Openings, last
  <2>2. CASE i = last
    <3>1. \A j \in DOMAIN conn'[i] : conn'[i][j].of = "INIT" =>
            /\ j \in DOMAIN conn[i] /\ conn'[i][j] = conn[i][j]
            /\ j = 1 /\ i # 1 /\ i # call'.agifh
      <4> TAKE j \in DOMAIN conn'[i]
      <4>1. CASE j \in DOMAIN conn[i] /\ conn'[i][j] = conn[i][j]
        BY <1>1, <2>2, <4>1 DEF Line, Openings
      <4>2. CASE conn'[i][j].of # "INIT"
        BY <4>2
      <4> QED
        BY <1>3, <2>2, <4>1, <4>2
    <3>2. ASSUME conn'[i] # <<>>, Head(conn'[i]).of = "INIT"
          PROVE  /\ \A j \in DOMAIN conn'[i] : j # 1 => conn'[i][j].of = "CLOSED"
                 /\ toAgi' = <<>>
      <4>1. 1 \in DOMAIN conn'[i] /\ Head(conn'[i]) = conn'[i][1]
        BY <1>1, <2>2, <3>2, TailItems
      <4>2. 1 \in DOMAIN conn[i] /\ conn[i][1].of = "INIT"
        BY <3>1, <3>2, <4>1
      <4>3. conn[i] # <<>> /\ Head(conn[i]).of = "INIT"
        BY <1>2, <2>2, <4>2
      <4>4. /\ \A j \in DOMAIN conn[i] : j # 1 => conn[i][j].of = "CLOSED"
            /\ toAgi = <<>>
        BY <1>1, <2>2, <4>3 DEF Line, Openings, last
      <4> QED
        BY <1>3, <2>2, <4>4
    <3> QED
      BY <3>1, <3>2
  <2> QED
    BY <2>1, <2>2
<1>6. Hangups'
  <2>1. \A i \in DOMAIN conn : \A j \in DOMAIN conn'[i] :
          conn'[i][j].of = "CLOSED" /\ caller' => i # last
    <3> TAKE i \in DOMAIN conn
    <3>1. CASE i # last
      BY <1>1, <3>1 DEF Line, Hangups
    <3>2. CASE i = last
      BY <1>3, <3>2 DEF Line, Hangups, last
    <3> QED
      BY <3>1, <3>2
  <2> QED
    BY <1>1, <2>1 DEF Line, Hangups, last
<1> QED
  BY <1>4, <1>5, <1>6 DEF Line

\* A redirect opens one more connection.
LEMMA MovedLine ==
  ASSUME Line, NEW items \in Seq(AgiResults), Moved(items, INIT),
         \A j \in DOMAIN items : /\ items[j].of # "INIT"
                                 /\ toAgi = <<>> => items[j].of = "CLOSED",
         toAgi' = <<>>, UNCHANGED caller,
         redirects > 0, redirects' \in Nat, statuses' \in Nat,
         UNCHANGED <<call, live, redirecting, dialing, vamd, listen, fromVamd, monitor>>
  PROVE  Line'
<1> DEFINE last == Len(conn)
<1>0. INIT \in AgiResults
  BY DEF INIT, Result, AgiResults, ResultOfs, None
<1>1. /\ conn' \in Seq(Seq(AgiResults)) /\ Len(conn') = last + 1
      /\ DOMAIN conn \subseteq DOMAIN conn' /\ last \in DOMAIN conn
      /\ \A k \in DOMAIN conn' : k \in DOMAIN conn \/ k = last + 1
      /\ conn'[last] = conn[last] \o items
      /\ conn'[last + 1] = <<INIT>>
      /\ \A k \in DOMAIN conn : k # last => conn'[k] = conn[k]
  BY <1>0, MovedConn DEF Line, LineTypes
<1>1a. last \in Nat \ {0} /\ call.agifh \in Nat /\ call.agifh <= last
       /\ \A k \in DOMAIN conn : k # last + 1
  BY SMTT(60), <1>1 DEF Line, LineTypes, CallState
<1> HIDE DEF last
<1>2. conn[last] \in Seq(AgiResults)
  BY <1>1 DEF Line, LineTypes
<1>3. \A j \in DOMAIN conn'[last] :
        \/ j \in DOMAIN conn[last] /\ conn'[last][j] = conn[last][j]
        \/ j - Len(conn[last]) \in DOMAIN items
           /\ conn'[last][j] = items[j - Len(conn[last])]
  BY SMTT(60), <1>1, <1>2, JoinedItems
<1>4. LineTypes'
  <2>1. call.agifh <= Len(conn')
    BY <1>1, <1>1a
  <2>2. conn' # <<>> /\ <<>> \in Seq(AgiLines)
    BY <1>1, <1>1a
  <2> QED
    BY <1>1, <2>1, <2>2 DEF Line, LineTypes
<1>4a. INIT.of = "INIT"
  BY DEF INIT, Result
<1>4b. \A j \in DOMAIN conn'[last + 1] : j = 1 /\ conn'[last + 1][j] = INIT
  <2>1. conn'[last + 1] = <<INIT>>
    BY <1>1
  <2> QED
    BY <2>1
<1>5. Openings'
  <2> SUFFICES ASSUME NEW i \in DOMAIN conn'
               PROVE  /\ \A j \in DOMAIN conn'[i] :
                           conn'[i][j].of = "INIT" => j = 1 /\ i # 1 /\ i # call'.agifh
                      /\ conn'[i] # <<>> /\ Head(conn'[i]).of = "INIT" =>
                           /\ \A j \in DOMAIN conn'[i] :
                                j # 1 => conn'[i][j].of = "CLOSED"
                           /\ i = Len(conn') => toAgi' = <<>>
    BY <1>1 DEF Openings
  <2>1. CASE i # last /\ i \in DOMAIN conn
    <3>1. conn'[i] = conn[i] /\ i # Len(conn')
      BY <1>1, <1>1a, <2>1
    <3> QED
      BY <2>1, <3>1 DEF Line, Openings
  <2>2. CASE i = last
    <3>1. \A j \in DOMAIN conn'[i] : conn'[i][j].of = "INIT" =>
            /\ j \in DOMAIN conn[i] /\ conn'[i][j] = conn[i][j]
            /\ j = 1 /\ i # 1 /\ i # call'.agifh
      <4> SUFFICES ASSUME NEW j \in DOMAIN conn'[i], conn'[i][j].of = "INIT"
                   PROVE  /\ j \in DOMAIN conn[i] /\ conn'[i][j] = conn[i][j]
                          /\ j = 1 /\ i # 1 /\ i # call'.agifh
        OBVIOUS
      <4>1. j \in DOMAIN conn[i] /\ conn'[i][j] = conn[i][j]
        BY <1>3, <2>2
      <4>2. i \in DOMAIN conn /\ conn[i][j].of = "INIT"
        BY <1>1, <2>2, <4>1
      <4>3. j = 1 /\ i # 1 /\ i # call.agifh
        BY <4>1, <4>2 DEF Line, Openings
      <4> QED
        BY <4>1, <4>3
    <3>2. ASSUME conn'[i] # <<>>, Head(conn'[i]).of = "INIT"
          PROVE  /\ \A j \in DOMAIN conn'[i] : j # 1 => conn'[i][j].of = "CLOSED"
                 /\ toAgi' = <<>>
      <4>1. 1 \in DOMAIN conn'[i] /\ Head(conn'[i]) = conn'[i][1]
        BY <1>1, <2>2, <3>2, TailItems
      <4>2. 1 \in DOMAIN conn[i] /\ conn[i][1].of = "INIT"
        BY <3>1, <3>2, <4>1
      <4>3. conn[i] # <<>> /\ Head(conn[i]).of = "INIT"
        BY <1>2, <2>2, <4>2
      <4>4. /\ \A j \in DOMAIN conn[i] : j # 1 => conn[i][j].of = "CLOSED"
            /\ toAgi = <<>>
        BY <1>1, <2>2, <4>3 DEF Line, Openings, last
      <4>5. ASSUME NEW j \in DOMAIN conn'[i], j # 1
            PROVE  conn'[i][j].of = "CLOSED"
        <5>1. CASE j \in DOMAIN conn[i] /\ conn'[i][j] = conn[i][j]
          BY <4>4, <4>5, <5>1
        <5>2. CASE /\ j - Len(conn[i]) \in DOMAIN items
                   /\ conn'[i][j] = items[j - Len(conn[i])]
          BY <4>4, <5>2
        <5> QED
          BY <1>3, <2>2, <4>5, <5>1, <5>2
      <4> QED
        BY <4>4, <4>5
    <3> QED
      BY <3>1, <3>2
  <2>3. CASE i = last + 1
    <3>1. i # 1 /\ i # call'.agifh
      BY <1>1a, <2>3
    <3> QED
      BY <1>4b, <2>3, <3>1
  <2> QED
    BY <1>1, <2>1, <2>2, <2>3
<1>6. Hangups'
  <2>1. \A i \in DOMAIN conn' : \A j \in DOMAIN conn'[i] :
          conn'[i][j].of = "CLOSED" /\ caller' => i # last + 1
    <3> TAKE i \in DOMAIN conn'
    <3>1. CASE i # last /\ i \in DOMAIN conn
      BY <1>1, <1>1a, <3>1 DEF Line, Hangups
    <3>2. CASE i = last
      BY <1>1, <1>1a, <1>3, <1>4a, <3>2 DEF Line, Hangups
    <3>3. CASE i = last + 1
      BY <1>4a, <1>4b, <3>3
    <3> QED
      BY <1>1, <3>1, <3>2, <3>3
  <2> QED
    BY <1>1, <2>1 DEF Line, Hangups
<1> QED
  BY <1>4, <1>5, <1>6 DEF Line

\* What is running, and what comes of it.
LEMMA RunningDoes ==
  ASSUME Line
  PROVE  /\ toAgi = <<>> => Running = None
         /\ toAgi # <<>> => /\ Running \in AgiLines /\ Tail(toAgi) \in Seq(AgiLines)
                            /\ Running \notin {None, "INIT", "CLOSED"}
                            /\ toAgi = <<Running>> \o Tail(toAgi)
         /\ \A ok \in BOOLEAN, key \in Keys \cup {None} \cup MinusOne :
              toAgi # <<>> => Result(Running, ok, key) \in AgiResults
         /\ CLOSED \in AgiResults
<1>1. toAgi \in Seq(AgiLines)
  BY DEF Line, LineTypes
<1>2. toAgi # <<>> => Running \in AgiLines /\ Tail(toAgi) \in Seq(AgiLines)
                      /\ toAgi = <<Running>> \o Tail(toAgi)
  BY <1>1 DEF Running
<1>3. \A line \in AgiLines : line \notin {None, "INIT", "CLOSED"}
  BY DEF AgiLines, AgiCommands, None
<1> QED
  BY <1>2, <1>3 DEF Running, Result, CLOSED, AgiResults, ResultOfs

LEMMA KeysAreKeys ==
  ASSUME Line, NEW of
  PROVE  KeysOf(of) \subseteq Keys \cup {None} \cup MinusOne
<1>1. call.stopkeys \subseteq Keys
  BY DEF Line, LineTypes, CallState
<1> QED
  BY <1>1 DEF KeysOf, MinusOne

\* The last words on a connection: at most a result of what was running, and the
\* close.
LEMMA LastWordsAre ==
  ASSUME Line, NEW words \in LastWords(Running)
  PROVE  /\ words \in Seq(AgiResults)
         /\ \A j \in DOMAIN words :
              /\ words[j].of # "INIT"
              /\ toAgi = <<>> => words[j].of = "CLOSED"
              /\ words[j].of # "CLOSED" => j = 1 /\ words[j].of = Running
<1>1. CLOSED \in AgiResults /\ CLOSED.of = "CLOSED"
  BY RunningDoes DEF CLOSED, Result
<1>2. CASE words = <<CLOSED>>
  <2>1. \A j \in DOMAIN words : words[j] = CLOSED
    BY <1>2
  <2> QED
    BY <1>1, <1>2, <2>1
<1>3. ASSUME NEW key \in MinusOne, words = <<Result(Running, TRUE, key), CLOSED>>,
             Running # None
      PROVE  /\ words \in Seq(AgiResults) /\ toAgi # <<>>
             /\ \A j \in DOMAIN words :
                  /\ words[j].of # "INIT"
                  /\ words[j].of # "CLOSED" => j = 1 /\ words[j].of = Running
  <2> DEFINE item == Result(Running, TRUE, key)
  <2>1. toAgi # <<>>
    BY <1>3, RunningDoes
  <2>2. item \in AgiResults /\ item.of = Running /\ Running # "INIT"
    BY <2>1, RunningDoes DEF Result
  <2>3. words = <<item, CLOSED>>
    BY <1>3
  <2> HIDE DEF item
  <2>4. words \in Seq(AgiResults)
    BY <1>1, <2>2, <2>3
  <2>5. \A j \in DOMAIN words : (j = 1 /\ words[j] = item) \/ words[j] = CLOSED
    BY <2>3
  <2> QED
    BY <1>1, <2>1, <2>2, <2>4, <2>5
<1>4. \/ words = <<CLOSED>>
      \/ /\ Running # None
         /\ \E key \in MinusOne : words = <<Result(Running, TRUE, key), CLOSED>>
  <2>1. \/ words = <<CLOSED>>
        \/ \E key \in CASE Running = "RECORDFILE" -> {"hangup"}
                         [] Running \in {"PLAYFILE", "GETDIGIT", "SENDDTMF"} -> {"-1"}
                         [] OTHER -> {} :
             words = <<Result(Running, TRUE, key), CLOSED>>
    BY DEF LastWords
  <2> QED
    BY <2>1 DEF MinusOne, None
<1> QED
  BY <1>2, <1>3, <1>4

LEMMA AsteriskKeeps ==
  ASSUME Talk, Line,
         RunsJoined \/ AgiRuns \/ CallerHangsUp \/ AgiHangsUp \/ Redirects
  PROVE  Talk' /\ Line'
<1>0. /\ toAgi \in Seq(AgiLines) /\ redirects \in Nat /\ statuses \in Nat
      /\ caller \in BOOLEAN /\ monitor \in BOOLEAN /\ <<>> \in Seq(AgiLines)
      /\ <<CLOSED>> \in Seq(AgiResults)
  BY RunningDoes DEF Line, LineTypes
<1>1. CASE RunsJoined
  <2> DEFINE rest == Tail(toAgi)
  <2>0. Len(toAgi) > 1 /\ toAgi' = Tail(rest)
    BY <1>1 DEF RunsJoined
  <2>0a. toAgi # <<>>
    BY <1>0, <2>0
  <2>0b. rest \in Seq(AgiLines) /\ Len(rest) = Len(toAgi) - 1 /\ Len(toAgi) \in Nat
    BY <1>0, <2>0a, TailItems
  <2> HIDE DEF rest
  <2>0c. Len(rest) > 0
    BY <2>0, <2>0b
  <2>1. /\ toAgi # <<>> /\ toAgi' \in Seq(AgiLines)
    BY <2>0, <2>0a, <2>0b, <2>0c, TailItems
  <2> DEFINE item == Result(Running, TRUE, None)
  <2>2. item \in AgiResults /\ item.of = Running
        /\ item.of \notin {"INIT", "CLOSED"}
    BY <2>1, RunningDoes DEF Result, None
  <2>3. Tells(<<item>>) /\ UNCHANGED <<toServer, fromServer, live, doing, call, caller,
          redirects, redirecting, dialing, statuses, vamd, listen, fromVamd, monitor>>
    BY <1>1 DEF RunsJoined, serverVars, mgrVars, vamdVars
  <2> HIDE DEF item
  <2>4. <<item>> \in Seq(AgiResults) /\ \A j \in DOMAIN <<item>> : <<item>>[j] = item
    BY <2>2
  <2>5. Line'
    BY <1>0, <2>1, <2>2, <2>3, <2>4, ToldLine
  <2> QED
    BY <2>1, <2>3, <2>5, AsteriskTalk
<1>2. CASE AgiRuns
  <2>1. /\ toAgi # <<>> /\ toAgi' = Tail(toAgi) /\ toAgi' \in Seq(AgiLines)
        /\ UNCHANGED <<toServer, fromServer, live, doing, call, caller, redirects,
                       redirecting, dialing, vamd, listen, fromVamd>>
    BY <1>2, RunningDoes DEF AgiRuns, serverVars, mgrVars, vamdVars
  <2>2. PICK ok \in BOOLEAN, key \in Keys \cup {None} \cup MinusOne :
          Tells(<<Result(Running, ok, key)>>)
    BY <1>2, KeysAreKeys DEF AgiRuns
  <2>3. statuses' \in {statuses, statuses + 1} /\ monitor' \in BOOLEAN
    <3> DEFINE more == IF Running = "DIAL" THEN 1 ELSE 0
    <3>1. more \in {0, 1}
      OBVIOUS
    <3>2. statuses' = statuses \/ statuses' = statuses + more
      BY <1>2 DEF AgiRuns
    <3>3. monitor' \in BOOLEAN
      BY <1>0, <1>2 DEF AgiRuns
    <3> HIDE DEF more
    <3> QED
      BY <1>0, <3>1, <3>2, <3>3
  <2>3a. statuses' \in Nat
    BY <1>0, <2>3
  <2> DEFINE item == Result(Running, ok, key)
  <2>4. item \in AgiResults /\ item.of \notin {"INIT", "CLOSED"}
    BY <2>1, <2>2, RunningDoes DEF Result
  <2> HIDE DEF item
  <2>5. /\ <<item>> \in Seq(AgiResults) /\ Tells(<<item>>)
        /\ \A j \in DOMAIN <<item>> : <<item>>[j] = item
    BY <2>2, <2>4 DEF item
  <2>6. Line'
    BY <1>0, <2>1, <2>3, <2>3a, <2>4, <2>5, ToldLine
  <2> QED
    BY <2>1, <2>6, AsteriskTalk
<1>3. CASE CallerHangsUp
  <2>1. /\ caller' = FALSE /\ toAgi' = <<>>
        /\ UNCHANGED <<toServer, fromServer, live, doing, call, redirects,
                       redirecting, dialing, vamd, listen, fromVamd, monitor>>
        /\ statuses' \in {statuses, statuses + 1}
    BY <1>0, <1>3 DEF CallerHangsUp, Leaves, serverVars, mgrVars, vamdVars
  <2>1a. statuses' \in Nat
    BY <1>0, <2>1
  <2>2. PICK words \in LastWords(Running) : Tells(words)
    BY <1>3 DEF CallerHangsUp, Leaves
  <2>3. Line'
    BY <1>0, <2>1, <2>1a, <2>2, LastWordsAre, ToldLine
  <2> QED
    BY <2>1, <2>3, AsteriskTalk
<1>4. CASE AgiHangsUp
  <2>1. /\ caller' = FALSE /\ toAgi' = <<>> /\ toAgi # <<>>
        /\ UNCHANGED <<toServer, fromServer, live, doing, call, redirects, statuses,
                       redirecting, dialing, vamd, listen, fromVamd, monitor>>
        /\ Tells(<<Result("HANGUP", TRUE, None), CLOSED>>)
    BY <1>4 DEF AgiHangsUp, serverVars, mgrVars, vamdVars, Running, None
  <2> DEFINE item == Result("HANGUP", TRUE, None)
  <2>2. item \in AgiResults /\ item.of \notin {"INIT", "CLOSED"}
    BY DEF Result, AgiResults, ResultOfs, AgiLines, AgiCommands
  <2>3. CLOSED \in AgiResults /\ CLOSED.of = "CLOSED"
    BY RunningDoes DEF CLOSED, Result
  <2> HIDE DEF item
  <2>4. <<item, CLOSED>> \in Seq(AgiResults)
    BY <2>2, <2>3
  <2>5. \A j \in DOMAIN <<item, CLOSED>> :
          <<item, CLOSED>>[j] = item \/ <<item, CLOSED>>[j] = CLOSED
    OBVIOUS
  <2>5a. Tells(<<item, CLOSED>>)
    BY <2>1 DEF item
  <2>6. Line'
    BY <1>0, <2>1, <2>2, <2>3, <2>4, <2>5, <2>5a, ToldLine
  <2> QED
    BY <2>1, <2>6, AsteriskTalk
<1>5. CASE Redirects
  <2>1. /\ redirects > 0 /\ redirects' = redirects - 1 /\ redirects' \in Nat
        /\ UNCHANGED <<toServer, fromServer, live, doing, call, caller,
                       redirecting, dialing, vamd, listen, fromVamd, monitor>>
    BY <1>0, <1>5 DEF Redirects, Leaves, serverVars, mgrVars, vamdVars
  <2>2. CASE caller /\ UNCHANGED caller /\ Leaves(TRUE)
    <3>1. PICK words \in LastWords(Running) : Moved(words, INIT) /\ toAgi' = <<>>
      BY <2>2 DEF Leaves, Moved
    <3>2. statuses' \in {statuses, statuses + 1}
      BY <1>0, <2>2 DEF Leaves
    <3>3. statuses' \in Nat
      BY <1>0, <3>2
    <3>4. Line'
      BY <2>1, <2>2, <3>1, <3>3, LastWordsAre, MovedLine
    <3> QED
      BY <2>1, <3>1, <3>4, AsteriskTalk
  <2>3. CASE UNCHANGED <<conn, toAgi, statuses>>
    <3>1. Line'
      BY <2>1, <2>3 DEF Line, LineTypes, Openings, Hangups
    <3> QED
      BY <2>1, <2>3, <3>1, AsteriskTalk
  <2> QED
    BY <1>5, <2>2, <2>3 DEF Redirects
<1> QED
  BY <1>1, <1>2, <1>3, <1>4, <1>5

LEMMA OthersKeep ==
  ASSUME Talk, Line,
         ClientWrites \/ ClientReads \/ VamdReady \/ VamdHears \/ VamdStops
           \/ UNCHANGED vars
  PROVE  Talk' /\ Line'
<1>1. CASE ClientWrites
  <2>1. /\ toServer = <<>>
        /\ UNCHANGED <<fromServer, live, doing, call, conn, toAgi, caller, redirects,
             statuses, monitor, redirecting, dialing, vamd, listen, fromVamd>>
    BY <1>1 DEF ClientWrites, astVars, mgrVars, vamdVars
  <2>2. PICK c \in Commands : (doing = None \/ c.type = "RELEASE") /\ toServer' = <<c>>
    BY <1>1 DEF ClientWrites
  <2>3. /\ toServer' \in Seq(Commands) /\ Len(toServer') = 1 /\ Head(toServer') = c
    BY <2>2
  <2>4. Talk'
    BY <2>1, <2>2, <2>3 DEF Talk, TalkTypes, Dead, Polite, HangupAsked
  <2>5. Line'
    BY <2>1 DEF Line, LineTypes, Openings, Hangups
  <2> QED
    BY <2>4, <2>5
<1>2. CASE ClientReads
  <2>1. /\ fromServer # <<>> /\ fromServer' = Tail(fromServer)
        /\ UNCHANGED <<toServer, live, doing, call, conn, toAgi, caller, redirects,
             statuses, monitor, redirecting, dialing, vamd, listen, fromVamd>>
    BY <1>2 DEF ClientReads, astVars, mgrVars, vamdVars
  <2>2. fromServer' \in Seq(SaidToClient)
    BY <2>1, TailItems DEF Talk, TalkTypes
  <2>3. Talk'
    BY <2>1, <2>2 DEF Talk, TalkTypes, Dead, Polite, HangupAsked
  <2>4. Line'
    BY <2>1 DEF Line, LineTypes, Openings, Hangups
  <2> QED
    BY <2>3, <2>4
<1>3. CASE VamdReady \/ VamdHears \/ VamdStops \/ UNCHANGED vars
  <2>1. UNCHANGED <<toServer, fromServer, live, doing, call, conn, toAgi, caller,
           redirects, statuses, monitor, redirecting, dialing>>
    BY <1>3 DEF VamdReady, VamdHears, VamdStops, vars, serverVars, astVars, mgrVars
  <2>2. /\ listen' \in BOOLEAN /\ vamd' \in BOOLEAN
        /\ fromVamd' = fromVamd \/ \E s \in Signals \cup {"listening"} :
                                     fromVamd' = Append(fromVamd, s)
    BY <1>3 DEF VamdReady, VamdHears, VamdStops, vars, vamdVars, Line, LineTypes
  <2>3. fromVamd' \in Seq(Signals \cup {"listening"})
    <3>1. fromVamd \in Seq(Signals \cup {"listening"})
      BY DEF Line, LineTypes
    <3>2. ASSUME NEW s \in Signals \cup {"listening"}
          PROVE  Append(fromVamd, s) \in Seq(Signals \cup {"listening"})
      BY <3>1, <3>2
    <3> QED
      BY <2>2, <3>1, <3>2
  <2>4. Talk'
    BY <2>1, AsteriskTalk
  <2>5. Line'
    BY <2>1, <2>2, <2>3 DEF Line, LineTypes, Openings, Hangups
  <2> QED
    BY <2>4, <2>5
<1> QED
  BY <1>1, <1>2, <1>3

\* The talk and the line are kept by every step.
LEMMA TalkAndLine ==
  ASSUME Talk, Line, [Next]_vars
  PROVE  Talk' /\ Line'
<1>1. CASE ClientCommands
  BY <1>1, CommandsKeep, RefusalsKeep DEF ClientCommands
<1>2. CASE AgiMessages
  BY <1>2, OpensKeeps, EndsKeep, UnexpectedKeeps, MonitorChangesKeeps, ResultsKeep
     DEF AgiMessages
<1> QED
  BY <1>1, <1>2, NewsKeeps, AsteriskKeeps, OthersKeep DEF Next, Moves

LEMMA InitialTalk == Init => Talk /\ Line
<1> SUFFICES ASSUME Init PROVE Talk /\ Line
  OBVIOUS
<1>1. call \in CallState /\ call.agifh = 1 /\ call.agi_doing = None
  <2>1. NoCall \in CallState /\ NoCall.agi_doing = None
    BY DEF NoCall, CallState
  <2>2. call = [NoCall EXCEPT !.agifh = 1]
    BY DEF Init
  <2> QED
    BY <2>1, <2>2 DEF CallState
<1>2. conn = <<<<>>>> /\ conn \in Seq(Seq(AgiResults)) /\ Len(conn) = 1
  <2>1. <<>> \in Seq(AgiResults)
    OBVIOUS
  <2> QED
    BY <2>1 DEF Init
<1>3. Talk
  BY <1>1 DEF Init, ServerInit, Talk, TalkTypes, Dead, Polite, HangupAsked, None
<1>4. \A i \in DOMAIN conn : conn[i] = <<>>
  BY <1>2
<1>5. Line
  <2>1. LineTypes
    <3>1. call.agifh <= Len(conn) /\ conn # <<>>
      BY <1>1, <1>2
    <3> QED
      <4>1. <<>> \in Seq(AgiLines) /\ <<>> \in Seq(Signals \cup {"listening"})
            /\ 0 \in Nat
        OBVIOUS
      <4>2. /\ toAgi = <<>> /\ fromVamd = <<>> /\ redirects = 0 /\ statuses = 0
            /\ caller = TRUE /\ redirecting = FALSE /\ dialing = FALSE
            /\ vamd = TRUE /\ listen = FALSE /\ monitor = FALSE
        BY DEF Init
      <4> QED
        BY <1>1, <1>2, <3>1, <4>1, <4>2, Zenon DEF LineTypes
  <2>2. Openings
    BY <1>4 DEF Openings
  <2>3. Hangups
    BY <1>2, <1>4 DEF Init, Hangups
  <2> QED
    BY <2>1, <2>2, <2>3 DEF Line
<1> QED
  BY <1>3, <1>5

-----------------------------------------------------------------------------
(* The order of commands and results.                                       *)

\* After the step nothing is outstanding on the connection the call has now.
Quiet ==
  call.agifh # 0 =>
    /\ \A j \in DOMAIN conn'[call.agifh] : conn'[call.agifh][j].of = "CLOSED"
    /\ call.agifh = Len(conn) => toAgi = <<>>

\* A result that is read leaves nothing outstanding.
LEMMA ReadsQuiet ==
  ASSUME Talk, Line, InOrder, Reads, Item.of # "CLOSED"
  PROVE  /\ Quiet /\ Len(conn') = Len(conn) /\ call.agifh # 0 /\ live
         /\ Awaits /\ Item.of = Expected
         /\ call.vamd_state = 2 => monitor
         /\ UNCHANGED <<vamd, monitor, fromVamd>>
<1> DEFINE n == call.agifh
<1>1. /\ live /\ n \in DOMAIN conn /\ Taken(n) /\ Item = conn[n][1]
      /\ 1 \in DOMAIN conn[n] /\ conn[n] \in Seq(AgiResults) /\ n # 0
  BY ReadsDoes DEF Reads
<1>2. \A j \in DOMAIN conn[n] : conn[n][j].of # "CLOSED" =>
        /\ j = 1 /\ Awaits /\ conn[n][j].of = Expected
        /\ n = Len(conn) => toAgi = <<>>
        /\ call.vamd_state = 2 => monitor
  BY <1>1 DEF InOrder, Outstanding
<1>3. /\ Len(conn') = Len(conn) /\ conn'[n] = Tail(conn[n])
      /\ \A j \in DOMAIN conn'[n] :
           j + 1 \in DOMAIN conn[n] /\ conn'[n][j] = conn[n][j + 1]
  BY <1>1, TakenConn DEF Line, LineTypes
<1>4. \A j \in DOMAIN conn'[n] : j \in Nat \ {0}
  BY <1>1, <1>3, TailItems DEF Taken
<1>5. \A j \in DOMAIN conn'[n] : conn'[n][j].of = "CLOSED"
  BY <1>2, <1>3, <1>4
<1> QED
  BY <1>1, <1>2, <1>3, <1>5 DEF Quiet, Reads

\* Nothing is outstanding for a client that waits for no answer.
LEMMA IdleQuiet ==
  ASSUME Talk, Line, InOrder, doing = None, UNCHANGED conn
  PROVE  Quiet /\ call.vamd_state \in {0, 3}
<1>1. ~Awaits
  BY ClientCommandTypes DEF Awaits, Answered, None, Line, LineTypes, CallState
<1>2. call.vamd_state \in {0, 3}
  <2>1. call.agi_doing # None => doing # ClientCommand(call.agi_doing)
    BY ClientCommandTypes DEF Answered, None, Line, LineTypes, CallState
  <2>2. call.vamd_state \notin {1, 2, -1}
    BY <2>1 DEF InOrder, Changing
  <2>3. call.vamd_state \in -1..3
    BY DEF Line, LineTypes, CallState
  <2> QED
    BY <2>2, <2>3
<1>3. call.agifh = Len(conn) /\ call.agifh # 0 => toAgi = <<>>
  BY <1>1 DEF InOrder, Outstanding
<1>4. call.agifh # 0 =>
        \A j \in DOMAIN conn[call.agifh] : conn[call.agifh][j].of = "CLOSED"
  BY <1>1 DEF InOrder, Outstanding
<1> QED
  BY <1>2, <1>3, <1>4 DEF Quiet

\* A command is sent when nothing is outstanding.
LEMMA SendKeeps ==
  ASSUME Talk, Line, InOrder, Quiet, Len(conn') = Len(conn),
         UNCHANGED <<vamd, monitor, fromVamd>>,
         NEW c \in CallState, c.agifh = call.agifh, c.vamd_state = call.vamd_state,
         c.vamd_state \in {0, 3}, NEW of \in AgiCommands, Sends(c, of)
  PROVE  InOrder'
<1>1. PICK d \in CallState : Like(d, c) /\ SendAgi(d, of)
  BY DEF Sends
<1>2. /\ call' \in CallState /\ call'.agifh = call.agifh
      /\ call'.stopkeys = d.stopkeys /\ d.agifh = call.agifh
      /\ d.vamd_state = call.vamd_state /\ d.vamd_state \in {0, 3}
      /\ doing' = ClientCommand(of)
      /\ call.agifh # 0 => call'.agi_doing = of
  <2>1. /\ call' \in CallState /\ call'.agifh = d.agifh
        /\ call'.stopkeys = d.stopkeys
        /\ call'.agi_doing = (IF d.agifh = 0 THEN d.agi_doing ELSE of)
    BY <1>1, SendAgiDoes DEF Line, LineTypes
  <2> QED
    BY <1>1, <2>1 DEF Like, Sends
<1>3. of # None /\ of \notin {"MONITOR", "STOPMONITOR"}
  BY DEF AgiCommands, None
<1>4. SignalsOf(call', of) = SignalsOf(d, of)
  BY <1>2 DEF SignalsOf
<1>5. /\ ~listen /\ (\A i \in DOMAIN fromVamd : fromVamd[i] # "listening")
      /\ call.vamd_state = 3 => monitor
  BY <1>2 DEF InOrder, Asking
<1>6. call.agifh # 0 => \A j \in DOMAIN conn'[call.agifh] :
                          conn'[call.agifh][j].of = "CLOSED"
  BY DEF Quiet
<1>7. call.agifh # 0 /\ call.agifh = Len(conn) => toAgi = <<>>
  BY DEF Quiet
<1>8. call.agifh # Len(conn) /\ toAgi # <<>> =>
        /\ Len(toAgi) = 1 /\ Head(toAgi) \in AgiCommands
        /\ Head(toAgi) \in Media /\ vamd => monitor
  BY DEF InOrder, LeftBehind
<1>9. \A line : Written(d, line) =
        IF call.agifh = Len(conn) THEN Append(toAgi, line) ELSE toAgi
  BY <1>2 DEF Written
<1>9a. \A line : call.agifh # 0 /\ call.agifh = Len(conn) =>
         Written(d, line) = <<line>>
  BY <1>7, <1>9
<1>10. CASE /\ d.agifh = 0 /\ call' = d /\ UNCHANGED <<toAgi, listen>>
  <2>1. Outstanding'
    BY <1>2, <1>10 DEF Outstanding
  <2>2. LeftBehind'
    BY <1>2, <1>8, <1>10 DEF LeftBehind
  <2>3. Changing'
    BY <1>2, <1>10 DEF Changing
  <2>4. Asking'
    BY <1>2, <1>5, <1>10 DEF Asking
  <2> QED
    BY <2>1, <2>2, <2>3, <2>4 DEF InOrder
<1>11. CASE /\ d.agifh # 0 /\ WantsMonitor(d, of)
            /\ call' = [[d EXCEPT !.agi_doing = of]
                          EXCEPT !.vamd_state = 1, !.queued = of]
            /\ listen' = TRUE /\ UNCHANGED toAgi
  <2>0. call'.vamd_state = 1 /\ call'.queued = of
    BY <1>11 DEF CallState
  <2>1. Outstanding'
    BY <1>2, <1>6, <1>7, <1>11 DEF Outstanding
  <2>2. LeftBehind'
    BY <1>2, <1>8, <1>11 DEF LeftBehind
  <2>3. Changing'
    BY <1>2, <1>3, <1>11, <2>0 DEF Changing
  <2>4. Asking'
    BY <1>5, <1>11, <2>0 DEF Asking
  <2> QED
    BY <2>1, <2>2, <2>3, <2>4 DEF InOrder
<1>12. CASE /\ d.agifh # 0 /\ EndsMonitor(d, of)
            /\ call' = [[d EXCEPT !.agi_doing = of]
                          EXCEPT !.vamd_state = -1, !.queued = of]
            /\ toAgi' = Written(d, "STOPMONITOR") /\ UNCHANGED listen
  <2>0. call'.vamd_state = -1 /\ call'.queued = of /\ SignalsOf(call', of) = {}
    BY <1>4, <1>12 DEF CallState, EndsMonitor
  <2>1. Outstanding'
    <3>1. Awaits' /\ Expected' = "STOPMONITOR"
      BY <1>2, <1>3, <1>12, <2>0 DEF Awaits, Expected
    <3>2. call.agifh = Len(conn) => toAgi' = <<"STOPMONITOR">>
      BY <1>2, <1>9a, <1>12
    <3> QED
      BY <1>2, <1>6, <1>12, <2>0, <3>1, <3>2 DEF Outstanding
  <2>2. LeftBehind'
    BY <1>2, <1>8, <1>9, <1>12 DEF LeftBehind
  <2>3. Changing'
    BY <1>2, <1>3, <1>12, <2>0 DEF Changing
  <2>4. Asking'
    BY <1>5, <1>12, <2>0 DEF Asking
  <2> QED
    BY <2>1, <2>2, <2>3, <2>4 DEF InOrder
<1>13. CASE /\ d.agifh # 0 /\ ~WantsMonitor(d, of) /\ ~EndsMonitor(d, of)
            /\ call' = [d EXCEPT !.agi_doing = of]
            /\ toAgi' = Written(d, of) /\ UNCHANGED listen
  <2>0. call'.vamd_state = call.vamd_state
    BY <1>2, <1>13 DEF CallState
  <2>1. Outstanding'
    <3>1. Awaits' /\ Expected' = of
      BY <1>2, <1>3, <1>13, <2>0 DEF Awaits, Expected
    <3>2. call.agifh = Len(conn) => toAgi' = <<of>>
      BY <1>2, <1>9a, <1>13
    <3>3. call'.vamd_state = 0 /\ vamd => SignalsOf(call', of) = {}
      BY <1>2, <1>4, <1>13, <2>0 DEF WantsMonitor
    <3> QED
      BY <1>2, <1>6, <1>13, <2>0, <3>1, <3>2, <3>3 DEF Outstanding
  <2>2. LeftBehind'
    BY <1>2, <1>8, <1>9, <1>13 DEF LeftBehind
  <2>3. Changing'
    BY <1>2, <2>0 DEF Changing
  <2>4. Asking'
    BY <1>2, <1>5, <1>13, <2>0 DEF Asking
  <2> QED
    BY <2>1, <2>2, <2>3, <2>4 DEF InOrder
<1> QED
  BY <1>1, <1>10, <1>11, <1>12, <1>13 DEF SendAgi

\* So it is when one is answered.
LEMMA ReplyKeeps ==
  ASSUME Line, InOrder, call' \in CallState, Len(conn') = Len(conn),
         call'.agifh # 0 =>
           /\ \A j \in DOMAIN conn'[call'.agifh] :
                conn'[call'.agifh][j].of = "CLOSED"
           /\ call'.agifh = Len(conn) => toAgi = <<>>,
         call'.agifh # Len(conn) /\ toAgi # <<>> => call.agifh # Len(conn),
         call'.vamd_state \in {0, 3}, call'.vamd_state = 3 => monitor,
         call.vamd_state # 1,
         UNCHANGED <<toAgi, listen, vamd, monitor, fromVamd>>
  PROVE  InOrder'
<1>1. Outstanding'
  BY DEF Outstanding
<1>2. LeftBehind'
  BY DEF InOrder, LeftBehind
<1>3. Changing'
  BY DEF Changing
<1>4. Asking'
  BY DEF InOrder, Asking
<1> QED
  BY <1>1, <1>2, <1>3, <1>4 DEF InOrder

\* A reply to what was read on the connection of the call, or said at once.
LEMMA RepliesKeep ==
  ASSUME Line, InOrder, Quiet, Len(conn') = Len(conn),
         call' \in CallState, call'.agifh = call.agifh,
         call'.vamd_state \in {0, 3}, call'.vamd_state = 3 => monitor,
         call.vamd_state # 1,
         UNCHANGED <<toAgi, listen, vamd, monitor, fromVamd>>
  PROVE  InOrder'
<1>1. call'.agifh # 0 =>
        /\ \A j \in DOMAIN conn'[call'.agifh] : conn'[call'.agifh][j].of = "CLOSED"
        /\ call'.agifh = Len(conn) => toAgi = <<>>
  BY DEF Quiet
<1>2. call'.agifh # Len(conn) /\ toAgi # <<>> => call.agifh # Len(conn)
  OBVIOUS
<1> QED
  BY <1>1, <1>2, ReplyKeeps

-----------------------------------------------------------------------------
\* A command is refused for a call that is gone only: a client is polite.
LEMMA RejectsDead ==
  ASSUME Talk, Rejects
  PROVE  ~live
BY DEF Talk, Polite, Rejects, Refuse

\* The monitor runs when a call says so.
LEMMA MonitorRuns ==
  ASSUME InOrder, call.vamd_state = 3
  PROVE  monitor
BY DEF InOrder, Asking

LEMMA CommandsInOrder ==
  ASSUME Talk, Line, InOrder, DoPlay \/ DoGetdig \/ DoRecord \/ DoOther
  PROVE  InOrder'
<1>1. ASSUME NEW type, Todo(type)
      PROVE  /\ UNCHANGED <<conn, vamd, monitor, fromVamd>>
             /\ doing = None /\ Quiet /\ call.vamd_state \in {0, 3}
             /\ call.vamd_state # 1
             /\ call.vamd_state = 3 => monitor
  BY <1>1, IdleQuiet, MonitorRuns DEF Todo
<1>2. ASSUME NEW c \in CallState, Like(c, call), NEW type, Todo(type),
             NEW of \in AgiCommands, Sends(c, of)
      PROVE  InOrder'
  BY <1>1, <1>2, SendKeeps DEF Like
<1>3. ASSUME NEW c \in CallState, Like(c, call), NEW type, Todo(type),
             NEW ms, Replies(c, ms)
      PROVE  InOrder'
  BY <1>1, <1>3, RepliesKeep DEF Like, Replies
<1>4. CASE DoPlay
  <2> DEFINE c == [Stopping EXCEPT !.files = Head(toServer).files]
  <2>1. PlayNextFile(c) /\ Todo("PLAY")
    BY <1>4 DEF DoPlay
  <2>2. c \in CallState /\ Like(c, call)
    BY <2>1, TodoDoes DEF CallState, Like
  <2> HIDE DEF c
  <2> QED
    BY <1>2, <1>3, <2>1, <2>2, PlayNextFileDoes DEF AgiCommands
<1>5. CASE DoGetdig
  <2>1. GetNextDigit(Stopping, FALSE) /\ Todo("GETDIG")
    BY <1>5 DEF DoGetdig
  <2>2. Stopping \in CallState /\ Like(Stopping, call)
    BY <2>1, TodoDoes
  <2>3. Replies(Stopping, Results("GETDIG")) \/ Sends(Stopping, "GETDIGIT")
    BY <2>1, <2>2, GetNextDigitDoes
  <2> QED
    BY <1>2, <1>3, <2>1, <2>2, <2>3 DEF AgiCommands
<1>6. CASE DoRecord
  <2>1. Todo("RECORD")
        /\ (Sends(Stopping, "RECORDFILE") \/ Replies(call, Results("RECORD")))
    BY <1>6, RecordDoes
  <2>2. /\ Stopping \in CallState /\ Like(Stopping, call)
        /\ call \in CallState /\ Like(call, call)
    BY <2>1, TodoDoes DEF Like
  <2> QED
    BY <1>2, <1>3, <2>1, <2>2 DEF AgiCommands
<1>7. CASE DoOther
  <2>1. PICK of \in {"SENDDTMF", "SETCALLERID", "DIAL", "SETVARIABLE", "HANGUP"} :
          /\ Todo(ClientCommand(of)) /\ SendAgi(call, of)
          /\ doing' = ClientCommand(of) /\ UNCHANGED fromServer
    BY <1>7 DEF DoOther
  <2>2. call \in CallState /\ Like(call, call) /\ of \in AgiCommands
    BY <2>1, TodoDoes DEF AgiCommands, Like
  <2>3. Sends(call, of)
    BY <2>1, <2>2 DEF Sends
  <2> QED
    BY <1>2, <2>1, <2>2, <2>3
<1> QED
  BY <1>4, <1>5, <1>6, <1>7

LEMMA ResultsInOrder ==
  ASSUME Talk, Line, InOrder,
         PlayResult \/ GetdigResult \/ RecordResult \/ OtherResult
           \/ CallerIdResult \/ Fails,
         live'
  PROVE  InOrder'
<1>1. ASSUME NEW of \in AgiCommands, ResultOf(of)
      PROVE  /\ Quiet /\ Len(conn') = Len(conn)
             /\ call \in CallState
             /\ call.vamd_state \in {0, 3} /\ call.vamd_state # 1
             /\ call.vamd_state = 3 => monitor
             /\ UNCHANGED <<vamd, monitor, fromVamd>>
  BY <1>1, ReadsQuiet, MonitorRuns DEF ResultOf, Line, LineTypes
<1>1a. ASSUME NEW of \in AgiCommands, Succeeds(of)
       PROVE  ResultOf(of)
  BY <1>1a DEF Succeeds
<1>2. ASSUME NEW c \in CallState, c.agifh = call.agifh, c.vamd_state = call.vamd_state,
             NEW was \in AgiCommands, ResultOf(was),
             NEW of \in AgiCommands, Sends(c, of)
      PROVE  InOrder'
  BY <1>1, <1>2, SendKeeps
<1>3. ASSUME NEW c \in CallState, c.agifh = call.agifh, c.vamd_state = call.vamd_state,
             NEW was \in AgiCommands, ResultOf(was), NEW ms, Replies(c, ms)
      PROVE  InOrder'
  BY <1>1, <1>3, RepliesKeep DEF Replies
<1>4. ASSUME NEW was \in AgiCommands, ResultOf(was),
             call' \in {call, [call EXCEPT !.agi_doing = None]},
             UNCHANGED <<toAgi, listen>>
      PROVE  InOrder'
  <2>1. /\ call' \in CallState /\ call'.agifh = call.agifh
        /\ call'.vamd_state = call.vamd_state
    BY <1>1, <1>4 DEF CallState
  <2> QED
    BY <1>1, <1>4, <2>1, RepliesKeep
<1>5. {"PLAYFILE", "GETDIGIT", "RECORDFILE", "SENDDTMF", "SETVARIABLE",
       "SETCALLERID", "DIAL"} \subseteq AgiCommands
  BY DEF AgiCommands
<1>6. CASE PlayResult
  <2>1. Succeeds("PLAYFILE") /\ Item.key \notin MinusOne
    BY <1>6 DEF PlayResult
  <2>2. /\ Collecting \in CallState /\ Collecting.agifh = call.agifh
        /\ Collecting.vamd_state = call.vamd_state
    BY <1>5, <2>1, SucceedsDoes
  <2>3. \/ PlayNextFile(Collecting)
        \/ call' = [call EXCEPT !.agi_doing = None] /\ UNCHANGED <<toAgi, listen>>
    BY <1>6 DEF PlayResult
  <2> QED
    BY <1>1a, <1>2, <1>3, <1>4, <1>5, <2>1, <2>2, <2>3, PlayNextFileDoes
<1>7. CASE GetdigResult
  <2>1. Succeeds("GETDIGIT") /\ Item.key \notin MinusOne
        /\ GetNextDigit(Collecting, Item.key = None)
    BY <1>7 DEF GetdigResult
  <2>2. /\ Collecting \in CallState /\ Collecting.agifh = call.agifh
        /\ Collecting.vamd_state = call.vamd_state /\ (Item.key = None) \in BOOLEAN
    BY <1>5, <2>1, SucceedsDoes
  <2>3. Replies(Collecting, Results("GETDIG")) \/ Sends(Collecting, "GETDIGIT")
    BY <2>1, <2>2, GetNextDigitDoes
  <2> QED
    BY <1>1a, <1>2, <1>3, <1>5, <2>1, <2>2, <2>3
<1>8. CASE RecordResult \/ OtherResult \/ Fails
  <2>1. \E of \in AgiCommands : ResultOf(of)
    BY <1>5, <1>8 DEF RecordResult, OtherResult, Fails, Succeeds
  <2>2. /\ call' \in {call, [call EXCEPT !.agi_doing = None]}
        /\ UNCHANGED <<toAgi, listen>>
    BY <1>8 DEF RecordResult, OtherResult, Fails, AgiClientFinished
  <2> QED
    BY <1>4, <2>1, <2>2
<1>9. CASE CallerIdResult
  <2>1. /\ Succeeds("SETCALLERID") /\ SendAgi(call, "DIAL")
        /\ UNCHANGED <<doing, fromServer>>
    BY <1>9 DEF CallerIdResult
  <2>2. call \in CallState /\ Sends(call, "DIAL")
    BY <1>5, <2>1, SucceedsDoes, ClientCommandIs DEF Sends, Like
  <2> QED
    BY <1>1a, <1>2, <1>5, <2>1, <2>2
<1> QED
  BY <1>6, <1>7, <1>8, <1>9

\* An interrupted command leaves nothing in agi_doing.
LEMMA InterruptedLeaves ==
  ASSUME NEW c \in CallState, HandleInterruptedCommand(c)
  PROVE  /\ call' \in CallState /\ call'.agifh = c.agifh
         /\ call'.vamd_state = c.vamd_state /\ UNCHANGED <<toAgi, listen>>
BY InterruptedDoes DEF Replies, Silent

LEMMA ChangesInOrder ==
  ASSUME Talk, Line, InOrder, MonitorChanges
  PROVE  InOrder'
<1>1. /\ Reads /\ Item.of # "CLOSED" /\ call.agi_doing # None
      /\ call.vamd_state \in {2, -1}
      /\ \/ /\ Changed.queued # None
            /\ toAgi' = Written(Changed, Changed.queued)
            /\ call' = Changed /\ UNCHANGED <<doing, fromServer, listen>>
         \/ Changed.queued = None /\ HandleInterruptedCommand(Changed)
  BY MonitorChangesDoes
<1>2. /\ Quiet /\ Len(conn') = Len(conn) /\ call.agifh # 0 /\ Awaits
      /\ call.vamd_state = 2 => monitor
      /\ UNCHANGED <<vamd, monitor, fromVamd>>
  BY <1>1, ReadsQuiet
<1>3. /\ Changed \in CallState /\ Changed.agifh = call.agifh
      /\ Changed.agi_doing = call.agi_doing /\ Changed.queued = call.queued
      /\ Changed.stopkeys = call.stopkeys
      /\ Changed.vamd_state \in {0, 3}
      /\ Changed.vamd_state = 3 => monitor
      /\ Changed.vamd_state = 0 => call.vamd_state = -1
  BY <1>1, <1>2, ChangedIs
<1>4. /\ call.queued \in {None, call.agi_doing}
      /\ call.vamd_state = -1 => SignalsOf(call, call.agi_doing) = {}
  BY <1>1 DEF InOrder, Changing
<1>5. CASE HandleInterruptedCommand(Changed)
  BY <1>1, <1>2, <1>3, <1>5, InterruptedLeaves, RepliesKeep
<1>6. CASE /\ Changed.queued # None
           /\ toAgi' = Written(Changed, Changed.queued)
           /\ call' = Changed /\ UNCHANGED <<doing, fromServer, listen>>
  <2>1. Changed.queued = call.agi_doing
    BY <1>3, <1>4, <1>6
  <2>2. Outstanding'
    <3>1. Awaits' /\ Expected' = call.agi_doing
      BY <1>1, <1>2, <1>3, <1>6 DEF Awaits, Expected
    <3>2. call.agifh = Len(conn) => toAgi' = <<call.agi_doing>>
      BY <1>2, <1>3, <1>6, <2>1 DEF Written, Quiet
    <3>3. call'.vamd_state = 0 => SignalsOf(call', call.agi_doing) = {}
      BY <1>3, <1>4, <1>6 DEF SignalsOf
    <3>4. \A j \in DOMAIN conn'[call.agifh] : conn'[call.agifh][j].of = "CLOSED"
      BY <1>2 DEF Quiet
    <3> QED
      BY <1>2, <1>3, <1>6, <3>1, <3>2, <3>3, <3>4 DEF Outstanding
  <2>3. LeftBehind'
    BY <1>2, <1>3, <1>6 DEF LeftBehind, InOrder, Written
  <2>4. Changing'
    BY <1>3, <1>6 DEF Changing
  <2>5. Asking'
    BY <1>1, <1>2, <1>3, <1>6 DEF InOrder, Asking
  <2> QED
    BY <2>2, <2>3, <2>4, <2>5 DEF InOrder
<1> QED
  BY <1>1, <1>5, <1>6

LEMMA OpensInOrder ==
  ASSUME Talk, Line, InOrder, live, Reattaches \/ Parks \/ ReceivedTimesOut
  PROVE  InOrder'
<1>0. CASE ReceivedTimesOut
  BY <1>0, TimeoutLeaves DEF InOrder, Outstanding, LeftBehind, Changing, Asking,
     Awaits, Expected
<1> SUFFICES ASSUME Reattaches \/ Parks PROVE InOrder'
  BY <1>0
<1>1. PICK i \in DOMAIN conn : /\ Opens(i)
        /\ \/ redirecting /\ HandleInterruptedCommand([call EXCEPT !.agifh = i])
           \/ UNCHANGED <<call, doing, fromServer, toAgi, listen>>
  BY DEF Reattaches, Parks
<1>2. /\ Taken(i) /\ Head(conn[i]) = INIT /\ conn[i] \in Seq(AgiResults)
      /\ UNCHANGED <<vamd, monitor, fromVamd>> /\ conn[i] # <<>>
  BY <1>1, OpensDoes DEF Taken
<1>3. /\ Len(conn') = Len(conn) /\ conn'[i] = Tail(conn[i])
      /\ \A k \in DOMAIN conn : k # i => conn'[k] = conn[k]
      /\ \A j \in DOMAIN conn'[i] :
           j + 1 \in DOMAIN conn[i] /\ conn'[i][j] = conn[i][j + 1]
  BY <1>2, TakenConn DEF Line, LineTypes
<1>4. /\ 1 \in DOMAIN conn[i] /\ Head(conn[i]) = conn[i][1]
      /\ \A j \in DOMAIN conn'[i] : j \in Nat \ {0}
  BY <1>2, <1>3, TailItems
<1>5. Head(conn[i]).of = "INIT"
  BY <1>2 DEF INIT, Result
<1>6. /\ i # call.agifh
      /\ \A j \in DOMAIN conn[i] : j # 1 => conn[i][j].of = "CLOSED"
      /\ i = Len(conn) => toAgi = <<>>
  BY <1>2, <1>4, <1>5 DEF Line, Openings
<1>7. \A j \in DOMAIN conn'[i] : conn'[i][j].of = "CLOSED"
  BY <1>3, <1>4, <1>6
<1>8. CASE UNCHANGED <<call, doing, fromServer, toAgi, listen>>
  <2>1. call.agifh # 0 => call.agifh \in DOMAIN conn
    BY DEF Line, LineTypes, CallState
  <2>2. call.agifh # 0 => conn'[call.agifh] = conn[call.agifh]
    BY <1>3, <1>6, <2>1
  <2>3. Awaits' = Awaits /\ Expected' = Expected
    BY <1>8 DEF Awaits, Expected
  <2>4. Outstanding'
    BY <1>2, <1>3, <1>8, <2>2, <2>3 DEF InOrder, Outstanding
  <2> QED
    BY <1>2, <1>3, <1>8, <2>4 DEF InOrder, LeftBehind, Changing, Asking
<1>9. CASE redirecting /\ HandleInterruptedCommand([call EXCEPT !.agifh = i])
  <2> DEFINE c == [call EXCEPT !.agifh = i]
  <2>1. call \in CallState /\ i \in Nat \ {0}
    BY DEF Line, LineTypes
  <2>2. c \in CallState /\ c.agifh = i /\ c.vamd_state = call.vamd_state
    BY <2>1 DEF CallState
  <2>3. HandleInterruptedCommand(c)
    BY <1>9
  <2> HIDE DEF c
  <2>4. /\ call' \in CallState /\ call'.agifh = i
        /\ call'.vamd_state = call.vamd_state /\ UNCHANGED <<toAgi, listen>>
    BY <2>2, <2>3, InterruptedLeaves
  <2>5. call.agifh = 0
    BY <1>9 DEF Line, Hangups
  <2>6. call.vamd_state \in {0, 3}
    <3>1. call.vamd_state \notin {1, 2, -1}
      BY <2>5 DEF InOrder, Changing
    <3>2. call.vamd_state \in -1..3
      BY <2>1 DEF CallState
    <3> QED
      BY <3>1, <3>2
  <2>7. call.vamd_state = 3 => monitor
    BY MonitorRuns
  <2>8. Len(conn) # 0
    BY DEF Line, LineTypes
  <2> QED
    BY SMTT(60), <1>2, <1>3, <1>6, <1>7, <2>4, <2>5, <2>6, <2>7, <2>8, ReplyKeeps
<1> QED
  BY <1>1, <1>8, <1>9

\* What the analyser says next.
LEMMA VamdSays ==
  ASSUME Line, InOrder, FromVamd
  PROVE  /\ \A i \in DOMAIN fromVamd' :
              /\ i + 1 \in DOMAIN fromVamd /\ fromVamd'[i] = fromVamd[i + 1]
              /\ i + 1 # 1
         /\ 1 \in DOMAIN fromVamd /\ Head(fromVamd) = fromVamd[1]
         /\ Head(fromVamd) \in Signals \cup {"listening"}
         /\ UNCHANGED <<conn, doing, caller, statuses, monitor, vamd, listen>>
<1>1. fromVamd \in Seq(Signals \cup {"listening"}) /\ fromVamd # <<>>
  BY DEF FromVamd, Line, LineTypes
<1>2. /\ \A i \in DOMAIN Tail(fromVamd) :
           i + 1 \in DOMAIN fromVamd /\ Tail(fromVamd)[i] = fromVamd[i + 1]
      /\ 1 \in DOMAIN fromVamd /\ Head(fromVamd) = fromVamd[1]
      /\ Head(fromVamd) \in Signals \cup {"listening"}
      /\ Tail(fromVamd) \in Seq(Signals \cup {"listening"})
  BY <1>1, TailItems
<1>3. \A i \in DOMAIN Tail(fromVamd) : i \in Nat \ {0}
  BY <1>2
<1>4. \A i \in DOMAIN Tail(fromVamd) : i + 1 # 1
  BY <1>3
<1> QED
  BY <1>2, <1>4 DEF FromVamd, serverVars

LEMMA ListensInOrder ==
  ASSUME Talk, Line, InOrder, live, VamdListens
  PROVE  InOrder'
<1>1. /\ FromVamd /\ Head(fromVamd) = "listening"
      /\ call' = [call EXCEPT !.vamd_state = 2]
      /\ toAgi' = Written(call, "MONITOR")
  BY DEF VamdListens
<1>2. /\ \A i \in DOMAIN fromVamd' : i + 1 \in DOMAIN fromVamd
           /\ fromVamd'[i] = fromVamd[i + 1] /\ i + 1 # 1
      /\ 1 \in DOMAIN fromVamd /\ fromVamd[1] = "listening"
      /\ UNCHANGED <<conn, doing, caller, statuses, monitor, vamd, listen>>
  BY <1>1, VamdSays
<1>3. /\ call.vamd_state = 1 /\ ~listen
      /\ \A i \in DOMAIN fromVamd : i # 1 => fromVamd[i] # "listening"
  BY <1>2 DEF InOrder, Asking
<1>4. /\ call.agi_doing # None /\ doing = ClientCommand(call.agi_doing)
      /\ call.agifh # 0 /\ call.queued \in {None, call.agi_doing}
      /\ call.queued = None => call.collected # <<>>
  BY <1>3 DEF InOrder, Changing
<1>5. ~Awaits
  BY <1>3 DEF Awaits
<1>6. /\ \A j \in DOMAIN conn[call.agifh] : conn[call.agifh][j].of = "CLOSED"
      /\ call.agifh = Len(conn) => toAgi = <<>>
  BY <1>4, <1>5 DEF InOrder, Outstanding
<1>7. /\ call'.vamd_state = 2 /\ call'.agifh = call.agifh
      /\ call'.agi_doing = call.agi_doing /\ call'.queued = call.queued
      /\ call'.collected = call.collected
  BY <1>1 DEF Line, LineTypes, CallState
<1>8. Outstanding'
  <2>1. Awaits' /\ Expected' = "MONITOR"
    BY <1>2, <1>4, <1>7 DEF Awaits, Expected
  <2>2. call.agifh = Len(conn) => toAgi' = <<"MONITOR">>
    BY <1>1, <1>6 DEF Written
  <2> QED
    BY <1>2, <1>6, <1>7, <2>1, <2>2 DEF Outstanding
<1>9. LeftBehind'
  BY <1>1, <1>2, <1>7 DEF InOrder, LeftBehind, Written
<1>10. Changing'
  BY <1>2, <1>4, <1>7 DEF Changing
<1>11. Asking'
  <2>1. \A i \in DOMAIN fromVamd' : fromVamd'[i] # "listening"
    BY <1>2, <1>3
  <2> QED
    BY <1>2, <1>3, <1>7, <2>1 DEF Asking
<1> QED
  BY <1>8, <1>9, <1>10, <1>11 DEF InOrder

LEMMA SignalsInOrder ==
  ASSUME Talk, Line, InOrder, VamdSignals
  PROVE  InOrder'
<1> DEFINE signal == Head(fromVamd)
           c == [call EXCEPT !.collected = Append(@, signal)]
<1>1. /\ FromVamd /\ signal # "listening" /\ UNCHANGED toAgi
      /\ \/ Interrupts(signal) /\ StopMedia(c)
         \/ UNCHANGED call
  BY DEF VamdSignals
<1>2. /\ \A i \in DOMAIN fromVamd' : i + 1 \in DOMAIN fromVamd
           /\ fromVamd'[i] = fromVamd[i + 1]
      /\ UNCHANGED <<conn, doing, caller, statuses, monitor, vamd, listen>>
      /\ signal \in Signals
  BY <1>1, VamdSays
<1>3. fromVamd \in Seq(Signals \cup {"listening"})
      /\ fromVamd' \in Seq(Signals \cup {"listening"})
      /\ \A i \in DOMAIN fromVamd' : i \in Nat
  <2>1. fromVamd \in Seq(Signals \cup {"listening"}) /\ fromVamd # <<>>
        /\ fromVamd' = Tail(fromVamd)
    BY <1>1 DEF FromVamd, Line, LineTypes
  <2>2. fromVamd' \in Seq(Signals \cup {"listening"})
    BY <2>1, TailItems
  <2> QED
    BY <2>1, <2>2
<1>4. /\ (\E i \in DOMAIN fromVamd' : fromVamd'[i] = "listening") =>
           \E i \in DOMAIN fromVamd : fromVamd[i] = "listening"
      /\ \A i, j \in DOMAIN fromVamd' :
           fromVamd'[i] = "listening" /\ fromVamd'[j] = "listening" => i = j
  <2>1. \A i, j \in DOMAIN fromVamd' :
          fromVamd'[i] = "listening" /\ fromVamd'[j] = "listening" => i + 1 = j + 1
    BY <1>2 DEF InOrder, Asking
  <2> QED
    BY <1>2, <1>3, <2>1
<1>5. CASE UNCHANGED call
  <2>1. Outstanding'
    BY <1>1, <1>2, <1>5 DEF InOrder, Outstanding, Awaits, Expected, SignalsOf
  <2>2. LeftBehind' /\ Changing'
    BY <1>1, <1>2, <1>5 DEF InOrder, LeftBehind, Changing, SignalsOf
  <2>3. Asking'
    BY <1>2, <1>4, <1>5 DEF InOrder, Asking
  <2> QED
    BY <2>1, <2>2, <2>3 DEF InOrder
<1>6. CASE Interrupts(signal) /\ StopMedia(c)
  <2>1. call \in CallState /\ signal \in Keys /\ call.collected \in Seq(Keys)
    BY <1>2, PhoneglueAssumption DEF Line, LineTypes, CallState
  <2> HIDE DEF signal
  <2>2. c = [call EXCEPT !.collected = Append(call.collected, signal)]
    BY <2>1 DEF CallState
  <2>3. Append(call.collected, signal) \in Seq(Keys)
        /\ Append(call.collected, signal) # <<>>
    BY <2>1
  <2> HIDE DEF c
  <2>4. /\ c \in CallState /\ c.agifh = call.agifh /\ c.agi_doing = call.agi_doing
        /\ c.vamd_state = call.vamd_state /\ c.stopkeys = call.stopkeys
        /\ c.collected # <<>> /\ c.queued = call.queued
    BY <2>1, <2>2, <2>3 DEF CallState
  <2>5. CASE call.vamd_state \notin {0, 3}
    <3>1. call' = [c EXCEPT !.queued = None]
      BY <1>6, <2>4, <2>5 DEF StopMedia
    <3>2. /\ call'.agifh = call.agifh /\ call'.agi_doing = call.agi_doing
          /\ call'.vamd_state = call.vamd_state /\ call'.stopkeys = call.stopkeys
          /\ call'.collected # <<>> /\ call'.queued = None
      BY <2>4, <3>1 DEF CallState
    <3>3. Outstanding'
      BY <1>1, <1>2, <3>2 DEF InOrder, Outstanding, Awaits, Expected, SignalsOf
    <3>4. LeftBehind'
      BY <1>1, <1>2, <3>2 DEF InOrder, LeftBehind
    <3>5. Changing'
      BY <1>1, <1>2, <3>2 DEF InOrder, Changing, SignalsOf
    <3>6. Asking'
      BY <1>2, <1>4, <3>2 DEF InOrder, Asking
    <3> QED
      BY <3>3, <3>4, <3>5, <3>6 DEF InOrder
  <2>6. CASE call.vamd_state \in {0, 3}
    <3>1. call' = [c EXCEPT !.agifh = 0]
      BY <1>6, <2>4, <2>6 DEF StopMedia
    <3>2. call'.agifh = 0 /\ call'.vamd_state = call.vamd_state
      BY <2>4, <3>1 DEF CallState
    <3>3. Outstanding' /\ Changing'
      BY <2>6, <3>2 DEF Outstanding, Changing
    <3>4. LeftBehind'
      <4>1. CASE call.agifh # Len(conn)
        BY <1>1, <1>2, <4>1 DEF InOrder, LeftBehind
      <4>2. CASE call.agifh = Len(conn)
        <5>1. Len(conn) # 0
          BY DEF Line, LineTypes
        <5>2. SUFFICES ASSUME toAgi # <<>>
                       PROVE  /\ Len(toAgi) = 1 /\ Head(toAgi) \in AgiCommands
                              /\ Head(toAgi) \in Media /\ vamd => monitor
          BY <1>1, <1>2 DEF LeftBehind
        <5>3. /\ Awaits /\ toAgi = <<Expected>>
              /\ call.vamd_state = 0 /\ Expected \in Media /\ vamd =>
                   SignalsOf(call, Expected) = {}
          BY <4>2, <5>1, <5>2 DEF InOrder, Outstanding
        <5>4. Expected = call.agi_doing /\ call.agi_doing \in AgiCommands
          BY <2>1, <2>6, <5>3 DEF Expected, Awaits, CallState
        <5>5. Len(toAgi) = 1 /\ Head(toAgi) = call.agi_doing
          BY <5>3, <5>4
        <5>6. call.agi_doing \in Media =>
                SignalsOf(call, call.agi_doing) # {}
          BY <1>2, <1>6 DEF Media, SignalsOf, Interrupts
        <5> QED
          BY <2>6, <5>3, <5>4, <5>5, <5>6, MonitorRuns
      <4> QED
        BY <4>1, <4>2
    <3>5. Asking'
      BY <1>2, <1>4, <3>2 DEF InOrder, Asking
    <3> QED
      BY <3>3, <3>4, <3>5 DEF InOrder
  <2> QED
    BY <2>5, <2>6
<1> QED
  BY <1>1, <1>5, <1>6

\* One command at a time is with Asterisk.
LEMMA OneRuns ==
  ASSUME Talk, Line, InOrder, toAgi # <<>>
  PROVE  /\ toAgi = <<Running>> /\ Tail(toAgi) = <<>> /\ Len(toAgi) = 1
         /\ \/ /\ call.agifh = Len(conn) /\ call.agifh # 0 /\ Awaits /\ Running = Expected
               /\ \A j \in DOMAIN conn[Len(conn)] : conn[Len(conn)][j].of = "CLOSED"
               /\ caller => conn[Len(conn)] = <<>>
            \/ call.agifh # Len(conn) /\ Running \in AgiCommands
<1>1. Len(conn) # 0 /\ Len(conn) \in DOMAIN conn
      /\ conn[Len(conn)] \in Seq(AgiResults)
  BY DEF Line, LineTypes
<1>2. CASE call.agifh # Len(conn)
  <2>1. Len(toAgi) = 1 /\ Head(toAgi) \in AgiCommands /\ toAgi \in Seq(AgiLines)
    BY <1>2 DEF InOrder, LeftBehind, Line, LineTypes
  <2>2. toAgi = <<Head(toAgi)>> /\ Tail(toAgi) = <<>> /\ Running = Head(toAgi)
    <3>1. /\ Tail(toAgi) \in Seq(AgiLines) /\ Len(Tail(toAgi)) = 0
          /\ toAgi = <<Running>> \o Tail(toAgi) /\ Running = Head(toAgi)
      BY <2>1, TailItems, RunningDoes DEF Running
    <3>2. \A t \in Seq(AgiLines) : Len(t) = 0 => t = <<>>
      OBVIOUS
    <3>3. Tail(toAgi) = <<>>
      BY <3>1, <3>2
    <3>4. \A x : <<x>> \o <<>> = <<x>>
      OBVIOUS
    <3> QED
      BY <3>1, <3>3, <3>4
  <2> QED
    BY <1>2, <2>1, <2>2
<1>3. CASE call.agifh = Len(conn)
  <2>1. Awaits /\ toAgi = <<Expected>>
    BY <1>1, <1>3 DEF InOrder, Outstanding
  <2>2. Running = Expected /\ Tail(toAgi) = <<>> /\ Len(toAgi) = 1
    <3>1. \A x : Head(<<x>>) = x /\ Tail(<<x>>) = <<>> /\ Len(<<x>>) = 1
      OBVIOUS
    <3>2. Head(toAgi) = Expected /\ Tail(toAgi) = <<>> /\ Len(toAgi) = 1
      BY <2>1, <3>1, Zenon
    <3>3. Running = Head(toAgi)
      BY DEF Running
    <3> QED
      BY <3>2, <3>3
  <2>3. \A j \in DOMAIN conn[Len(conn)] : conn[Len(conn)][j].of = "CLOSED"
    BY <1>1, <1>3 DEF InOrder, Outstanding
  <2>4. caller => \A j \in DOMAIN conn[Len(conn)] : conn[Len(conn)][j].of # "CLOSED"
    BY <1>1 DEF Line, Hangups
  <2>5. caller => conn[Len(conn)] = <<>>
    BY <1>1, <2>3, <2>4
  <2> QED
    BY <1>1, <1>3, <2>1, <2>2, <2>3, <2>5
<1> QED
  BY <1>2, <1>3

\* Results that Asterisk tells are in order.
LEMMA ToldInOrder ==
  ASSUME Talk, Line, InOrder, caller, NEW items \in Seq(AgiResults), Tells(items),
         toAgi' = <<>>,
         \A j \in DOMAIN items : items[j].of # "CLOSED" =>
           j = 1 /\ toAgi # <<>> /\ items[j].of = Running,
         (\E j \in DOMAIN items : items[j].of # "CLOSED") /\ Running = "MONITOR" =>
           monitor',
         monitor /\ call.vamd_state \in {2, 3} => monitor',
         UNCHANGED <<call, doing, vamd, listen, fromVamd>>
  PROVE  InOrder'
<1> DEFINE last == Len(conn)
<1>1. /\ Len(conn') = last /\ last \in DOMAIN conn
      /\ conn'[last] = conn[last] \o items
      /\ \A k \in DOMAIN conn : k # last => conn'[k] = conn[k]
  BY ToldConn DEF Line, LineTypes
<1>2. conn[last] \in Seq(AgiResults) /\ last # 0
  BY <1>1 DEF Line, LineTypes
<1>2a. call.agifh # 0 => call.agifh \in DOMAIN conn
  BY DEF Line, LineTypes, CallState
<1>3. Awaits' = Awaits /\ Expected' = Expected
  BY DEF Awaits, Expected
<1>4. Outstanding'
  <2>1. CASE call.agifh # last
    BY <1>1, <1>2a, <1>3, <2>1 DEF InOrder, Outstanding
  <2>2. CASE call.agifh = last
    <3> SUFFICES ASSUME NEW j \in DOMAIN conn'[last], conn'[last][j].of # "CLOSED"
                 PROVE  /\ j = 1 /\ Awaits /\ conn'[last][j].of = Expected
                        /\ call.vamd_state = 2 => monitor'
      BY <1>1, <1>3, <2>2 DEF Outstanding
    <3>1. CASE j \in DOMAIN conn[last] /\ conn'[last][j] = conn[last][j]
      BY <1>2, <2>2, <3>1 DEF InOrder, Outstanding
    <3>2. CASE /\ j - Len(conn[last]) \in DOMAIN items
               /\ conn'[last][j] = items[j - Len(conn[last])]
      <4>1. toAgi # <<>> /\ j - Len(conn[last]) = 1 /\ conn'[last][j].of = Running
        BY <3>2
      <4>2. conn[last] = <<>> /\ Awaits /\ Running = Expected
        BY <2>2, <4>1, OneRuns
      <4>3. j = 1
        BY <1>1, <4>1, <4>2
      <4>4. call.vamd_state = 2 => Running = "MONITOR"
        BY <4>2 DEF Expected
      <4>5. \E k \in DOMAIN items : items[k].of # "CLOSED"
        BY <3>2
      <4> QED
        BY <4>1, <4>2, <4>3, <4>4, <4>5
    <3> QED
      BY <1>1, <1>2, <3>1, <3>2, JoinedItems
  <2> QED
    BY <2>1, <2>2
<1>5. LeftBehind'
  BY DEF LeftBehind
<1>6. Changing'
  BY DEF InOrder, Changing, SignalsOf
<1>7. Asking'
  BY DEF InOrder, Asking
<1> QED
  BY <1>4, <1>5, <1>6, <1>7 DEF InOrder

\* The monitor has none.
LEMMA QuietWords ==
  ASSUME Line, NEW words \in LastWords(Running), NEW j \in DOMAIN words,
         words[j].of # "CLOSED"
  PROVE  Running # "MONITOR"
<1>1. CASE Running = "MONITOR"
  <2>1. words = <<CLOSED>>
    BY <1>1 DEF LastWords
  <2>2. words[j] = CLOSED
    BY <2>1
  <2> QED
    BY <2>2 DEF CLOSED, Result
<1> QED
  BY <1>1

LEMMA AsteriskInOrder ==
  ASSUME Talk, Line, InOrder,
         RunsJoined \/ AgiRuns \/ CallerHangsUp \/ AgiHangsUp \/ Redirects
  PROVE  InOrder'
<1>0. CLOSED \in AgiResults /\ CLOSED.of = "CLOSED" /\ <<CLOSED>> \in Seq(AgiResults)
  BY RunningDoes DEF CLOSED, Result
<1>1. CASE RunsJoined
  <2>1. toAgi # <<>> /\ Len(toAgi) > 1
    BY <1>1 DEF RunsJoined, Line, LineTypes
  <2>2. Len(toAgi) = 1
    BY <2>1, OneRuns
  <2> QED
    BY <2>1, <2>2
<1>2. CASE AgiRuns
  <2>1. /\ caller /\ toAgi # <<>> /\ toAgi' = Tail(toAgi)
        /\ UNCHANGED <<call, doing, vamd, listen, fromVamd>>
    BY <1>2, RunningDoes DEF AgiRuns, serverVars, vamdVars
  <2>2. toAgi' = <<>>
    BY <2>1, OneRuns
  <2>3. PICK ok \in BOOLEAN, key \in Keys \cup {None} \cup MinusOne :
          Tells(<<Result(Running, ok, key)>>)
    BY <1>2, KeysAreKeys DEF AgiRuns
  <2> DEFINE item == Result(Running, ok, key)
  <2>4. item \in AgiResults /\ item.of = Running
    BY <2>1, <2>3, RunningDoes DEF Result
  <2> HIDE DEF item
  <2>5. /\ <<item>> \in Seq(AgiResults) /\ Tells(<<item>>)
        /\ \A j \in DOMAIN <<item>> : j = 1 /\ <<item>>[j] = item
    BY <2>3, <2>4 DEF item
  <2>6. Running = "MONITOR" => monitor'
    BY <1>2 DEF AgiRuns
  <2>7. monitor /\ call.vamd_state \in {2, 3} => monitor'
    <3>1. CASE Running = "STOPMONITOR"
      <4>1. Running = Expected
        BY <2>1, <3>1, OneRuns DEF AgiCommands
      <4>2. call.agi_doing # "STOPMONITOR"
        BY DEF Line, LineTypes, CallState, AgiCommands, None
      <4> QED
        BY <3>1, <4>1, <4>2 DEF Expected
    <3>2. CASE Running # "STOPMONITOR"
      BY <1>2, <3>2 DEF AgiRuns
    <3> QED
      BY <3>1, <3>2
  <2> QED
    BY <2>1, <2>2, <2>4, <2>5, <2>6, <2>7, ToldInOrder
<1>3. CASE CallerHangsUp
  <2>1. /\ caller /\ toAgi' = <<>>
        /\ UNCHANGED <<call, doing, vamd, listen, fromVamd, monitor>>
    BY <1>3 DEF CallerHangsUp, Leaves, serverVars, vamdVars
  <2>2. PICK words \in LastWords(Running) : Tells(words)
    BY <1>3 DEF CallerHangsUp, Leaves
  <2>3. /\ words \in Seq(AgiResults)
        /\ \A j \in DOMAIN words : words[j].of # "CLOSED" =>
             j = 1 /\ toAgi # <<>> /\ words[j].of = Running
        /\ (\E j \in DOMAIN words : words[j].of # "CLOSED") => Running # "MONITOR"
    BY <2>2, LastWordsAre, QuietWords
  <2> QED
    BY <2>1, <2>2, <2>3, ToldInOrder
<1>4. CASE AgiHangsUp
  <2>1. /\ caller /\ toAgi' = <<>> /\ toAgi # <<>> /\ Running = "HANGUP"
        /\ UNCHANGED <<call, doing, vamd, listen, fromVamd, monitor>>
        /\ Tells(<<Result("HANGUP", TRUE, None), CLOSED>>)
    BY <1>4 DEF AgiHangsUp, serverVars, vamdVars, Running, None
  <2> DEFINE item == Result("HANGUP", TRUE, None)
  <2>2. item \in AgiResults /\ item.of = "HANGUP"
    BY DEF Result, AgiResults, ResultOfs, AgiLines, AgiCommands
  <2> HIDE DEF item
  <2>3. <<item, CLOSED>> \in Seq(AgiResults)
    BY <1>0, <2>2
  <2>4. \A j \in DOMAIN <<item, CLOSED>> :
          \/ j = 1 /\ <<item, CLOSED>>[j] = item
          \/ <<item, CLOSED>>[j] = CLOSED
    OBVIOUS
  <2>5. Tells(<<item, CLOSED>>)
    BY <2>1 DEF item
  <2> QED
    BY <1>0, <2>1, <2>2, <2>3, <2>4, <2>5, ToldInOrder
<1>5. CASE Redirects
  <2>1. /\ redirects > 0
        /\ UNCHANGED <<call, doing, vamd, listen, fromVamd, monitor>>
    BY <1>5 DEF Redirects, Leaves, serverVars, vamdVars
  <2>2. CASE caller /\ UNCHANGED caller /\ Leaves(TRUE)
    <3>1. PICK words \in LastWords(Running) : Moved(words, INIT) /\ toAgi' = <<>>
      BY <2>2 DEF Leaves, Moved
    <3>2. /\ INIT \in AgiResults /\ words \in Seq(AgiResults)
          /\ \A j \in DOMAIN words : words[j].of # "CLOSED" =>
               j = 1 /\ toAgi # <<>> /\ words[j].of = Running /\ Running # "MONITOR"
      BY <3>1, LastWordsAre, QuietWords DEF INIT, Result, AgiResults, ResultOfs, None
    <3>3. /\ Len(conn') = Len(conn) + 1 /\ Len(conn) \in DOMAIN conn
          /\ conn'[Len(conn)] = conn[Len(conn)] \o words
          /\ \A k \in DOMAIN conn : k # Len(conn) => conn'[k] = conn[k]
      BY <3>1, <3>2, MovedConn DEF Line, LineTypes
    <3>4. conn[Len(conn)] \in Seq(AgiResults)
      BY <3>3 DEF Line, LineTypes
    <3>5. \A j \in DOMAIN conn'[Len(conn)] :
            \/ j \in DOMAIN conn[Len(conn)] /\ conn'[Len(conn)][j] = conn[Len(conn)][j]
            \/ /\ j - Len(conn[Len(conn)]) \in DOMAIN words
               /\ conn'[Len(conn)][j] = words[j - Len(conn[Len(conn)])]
               /\ j \in Nat
      BY SMTT(60), <3>2, <3>3, <3>4, JoinedItems
    <3>6. /\ call.agifh # 0 => call.agifh \in DOMAIN conn
          /\ call.agifh # Len(conn')
      BY <3>3 DEF Line, LineTypes, CallState
    <3>7. Awaits' = Awaits /\ Expected' = Expected
      BY <2>1 DEF Awaits, Expected
    <3>8. Outstanding'
      <4>1. CASE call.agifh # Len(conn)
        BY <2>1, <3>1, <3>3, <3>6, <3>7, <4>1 DEF InOrder, Outstanding
      <4>2. CASE call.agifh = Len(conn)
        <5> SUFFICES ASSUME NEW j \in DOMAIN conn'[Len(conn)],
                            conn'[Len(conn)][j].of # "CLOSED"
                     PROVE  /\ j = 1 /\ Awaits /\ conn'[Len(conn)][j].of = Expected
                            /\ call.vamd_state = 2 => monitor
          BY <2>1, <3>1, <3>6, <3>7, <4>2 DEF Outstanding
        <5>1. CASE j \in DOMAIN conn[Len(conn)]
                   /\ conn'[Len(conn)][j] = conn[Len(conn)][j]
          BY <3>6, <4>2, <5>1 DEF InOrder, Outstanding, Line, LineTypes
        <5>2. CASE /\ j - Len(conn[Len(conn)]) \in DOMAIN words /\ j \in Nat
                   /\ conn'[Len(conn)][j] = words[j - Len(conn[Len(conn)])]
          <6>1. /\ toAgi # <<>> /\ j - Len(conn[Len(conn)]) = 1
                /\ conn'[Len(conn)][j].of = Running /\ Running # "MONITOR"
            BY <3>2, <5>2
          <6>2. conn[Len(conn)] = <<>> /\ Awaits /\ Running = Expected
            BY <2>2, <4>2, <6>1, OneRuns
          <6>3. j = 1
            BY <5>2, <6>1, <6>2
          <6>4. call.vamd_state # 2
            BY <6>1, <6>2 DEF Expected
          <6> QED
            BY <6>1, <6>2, <6>3, <6>4
        <5> QED
          BY <3>5, <5>1, <5>2
      <4> QED
        BY <4>1, <4>2
    <3>9. LeftBehind' /\ Changing' /\ Asking'
      BY <2>1, <3>1 DEF LeftBehind, InOrder, Changing, Asking, SignalsOf
    <3> QED
      BY <3>8, <3>9 DEF InOrder
  <2>3. CASE UNCHANGED <<conn, toAgi>>
    BY <2>1, <2>3 DEF InOrder, Outstanding, LeftBehind, Changing, Asking, Awaits,
                      Expected, SignalsOf
  <2> QED
    BY <1>5, <2>2, <2>3 DEF Redirects
<1> QED
  BY <1>1, <1>2, <1>3, <1>4, <1>5

LEMMA OthersInOrder ==
  ASSUME Talk, Line, InOrder, ~dialing,
         DialStatus \/ ClientWrites \/ ClientReads \/ VamdReady \/ VamdHears
           \/ VamdStops \/ UNCHANGED vars
  PROVE  InOrder'
<1>1. UNCHANGED <<doing, call, conn, toAgi, monitor>>
  BY DEF DialStatus, ClientWrites, ClientReads, VamdReady, VamdHears, VamdStops, vars,
         serverVars, astVars
<1>2. vamd' => vamd
  BY DEF DialStatus, ClientWrites, ClientReads, VamdReady, VamdHears, VamdStops, vars,
         vamdVars
<1>3. Outstanding' /\ LeftBehind' /\ Changing'
  BY <1>1, <1>2 DEF InOrder, Outstanding, LeftBehind, Changing, Awaits, Expected,
                    SignalsOf
<1>4. fromVamd \in Seq(Signals \cup {"listening"})
  BY DEF Line, LineTypes
<1>5. CASE UNCHANGED <<listen, fromVamd>>
  BY <1>1, <1>3, <1>5 DEF InOrder, Asking
<1>6. CASE VamdReady
  <2>1. listen /\ listen' = FALSE /\ fromVamd' = Append(fromVamd, "listening")
    BY <1>6 DEF VamdReady
  <2>2. /\ call.vamd_state = 1 /\ \A i \in DOMAIN fromVamd : fromVamd[i] # "listening"
    BY <2>1 DEF InOrder, Asking
  <2>3. \A i \in DOMAIN fromVamd' :
          \/ i \in DOMAIN fromVamd /\ fromVamd'[i] = fromVamd[i]
          \/ i = Len(fromVamd) + 1
    BY <1>4, <2>1
  <2>4. Asking'
    BY <1>1, <2>1, <2>2, <2>3 DEF Asking
  <2> QED
    BY <1>3, <2>4 DEF InOrder
<1>7. CASE VamdHears
  <2>1. PICK s \in Signals : fromVamd' = Append(fromVamd, s)
    BY <1>7 DEF VamdHears
  <2>2. s # "listening" /\ UNCHANGED listen
    BY <1>7, PhoneglueAssumption DEF VamdHears
  <2>3. \A i \in DOMAIN fromVamd' : fromVamd'[i] = "listening" =>
          i \in DOMAIN fromVamd /\ fromVamd'[i] = fromVamd[i]
    BY <1>4, <2>1, <2>2
  <2>4. Asking'
    BY <1>1, <2>2, <2>3 DEF InOrder, Asking
  <2> QED
    BY <1>3, <2>4 DEF InOrder
<1>8. CASE VamdStops
  <2>1. listen' = FALSE /\ UNCHANGED fromVamd
    BY <1>8 DEF VamdStops
  <2> QED
    BY <1>1, <1>3, <2>1 DEF InOrder, Asking
<1> QED
  BY <1>5, <1>6, <1>7, <1>8 DEF DialStatus, ClientWrites, ClientReads, vars, vamdVars

\* A call that is gone does not come back, and one that dialed stays so.
LEMMA OneWay ==
  ASSUME [Next]_vars
  PROVE  (live' => live) /\ (dialing => dialing')
<1>1. live' \in {live, FALSE}
  <2>1. CASE AgiMessages
    BY <2>1 DEF AgiMessages, Reattaches, Parks, Opens, ReceivedTimesOut, Finishes, Unexpected,
       MonitorChanges, Fails, PlayResult, GetdigResult, RecordResult, OtherResult,
       DialResult, CallerIdResult, HangupResult, AgiClientFinished, serverVars
  <2>2. CASE ClientCommands
    BY <2>2 DEF ClientCommands, Rejects, Refuse, Releases, Release, DoPlay, DoGetdig,
       DoRecord, DoOther, Todo
  <2>3. CASE RunsJoined \/ AgiRuns \/ AgiHangsUp \/ Redirects \/ CallerHangsUp
    BY <2>3 DEF RunsJoined, AgiRuns, AgiHangsUp, Redirects, CallerHangsUp, Leaves,
       serverVars
  <2>4. CASE DialStatus \/ VamdListens \/ VamdSignals \/ VamdReady \/ VamdHears
               \/ VamdStops \/ ClientReads \/ ClientWrites \/ UNCHANGED vars
    BY <2>4 DEF DialStatus, VamdListens, VamdSignals, FromVamd, VamdReady, VamdHears,
       VamdStops, ClientReads, ClientWrites, vars, serverVars
  <2> QED
    BY <2>1, <2>2, <2>3, <2>4 DEF Next, Moves
<1>2. dialing' \in {dialing, TRUE}
  <2>1. CASE AgiMessages
    BY <2>1 DEF AgiMessages, Reattaches, Parks, Opens, ReceivedTimesOut, Finishes, Unexpected,
       MonitorChanges, Fails, PlayResult, GetdigResult, RecordResult, OtherResult,
       DialResult, CallerIdResult, HangupResult
  <2>2. CASE ClientCommands
    BY <2>2 DEF ClientCommands, Rejects, Releases, DoPlay, DoGetdig, DoRecord, DoOther,
       Todo, mgrVars
  <2>3. CASE RunsJoined \/ AgiRuns \/ AgiHangsUp \/ Redirects \/ CallerHangsUp
    BY <2>3 DEF RunsJoined, AgiRuns, AgiHangsUp, Redirects, CallerHangsUp, Leaves,
       mgrVars
  <2>4. CASE DialStatus \/ VamdListens \/ VamdSignals \/ VamdReady \/ VamdHears
               \/ VamdStops \/ ClientReads \/ ClientWrites \/ UNCHANGED vars
    BY <2>4 DEF DialStatus, VamdListens, VamdSignals, FromVamd, VamdReady, VamdHears,
       VamdStops, ClientReads, ClientWrites, vars, mgrVars
  <2> QED
    BY <2>1, <2>2, <2>3, <2>4 DEF Next, Moves
<1>4. live' => live
  <2>1. live' = live \/ live' = FALSE
    BY <1>1
  <2> QED
    BY <2>1, Zenon
<1>5. dialing => dialing'
  <2>1. dialing' = dialing \/ dialing' = TRUE
    BY <1>2
  <2> QED
    BY <2>1, Zenon
<1> QED
  BY <1>4, <1>5

LEMMA NextInOrder ==
  ASSUME Talk, Line, live /\ ~dialing => InOrder, [Next]_vars
  PROVE  live' /\ ~dialing' => InOrder'
<1> SUFFICES ASSUME live', ~dialing'
             PROVE  InOrder'
  OBVIOUS
<1>1. live /\ ~dialing /\ InOrder
  BY OneWay
<1>2. CASE ClientCommands
  <2>1. ~Releases
    BY DEF Releases, Release
  <2> QED
    BY <1>1, <1>2, <2>1, CommandsInOrder, RejectsDead DEF ClientCommands
<1>3. CASE AgiMessages
  <2>1. ~Finishes /\ ~HangupResult
    BY DEF Finishes, HangupResult, AgiClientFinished
  <2>2. ~DialResult
    BY DEF DialResult
  <2>3. ~Unexpected
    <3>1. CASE Unexpected
      <4>1. Reads /\ Item.of # "CLOSED"
            /\ (call.agi_doing = None \/ call.vamd_state = 1)
        BY <3>1 DEF Unexpected
      <4>2. Awaits
        BY <1>1, <4>1, ReadsQuiet
      <4> QED
        BY <4>1, <4>2 DEF Awaits
    <3> QED
      BY <3>1
  <2> QED
    BY <1>1, <1>3, <2>1, <2>2, <2>3, OpensInOrder, ChangesInOrder, ResultsInOrder
       DEF AgiMessages
<1> QED
  BY <1>1, <1>2, <1>3, ListensInOrder, SignalsInOrder, AsteriskInOrder, OthersInOrder
     DEF Next, Moves

-----------------------------------------------------------------------------
(* The theorems.                                                            *)

\* The inductive invariant: phoneglue and Asterisk keep, for a call that has
\* not dialed, commands and results in step, over all its connections.
THEOREM InStep == Spec => []IInv
<1>1. Init => IInv
  <2> SUFFICES ASSUME Init PROVE IInv
    OBVIOUS
  <2>1. /\ conn = <<<<>>>> /\ toAgi = <<>> /\ fromVamd = <<>> /\ listen = FALSE
        /\ call = [NoCall EXCEPT !.agifh = 1]
    BY DEF Init
  <2>2. call.agifh = 1 /\ call.vamd_state = 0
    BY <2>1 DEF NoCall
  <2>3. \A i \in DOMAIN conn : conn[i] = <<>>
    BY <2>1
  <2>4. Len(conn) = 1 /\ 1 \in DOMAIN conn
    BY <2>1
  <2>5. InOrder
    BY <2>1, <2>2, <2>3, <2>4 DEF InOrder, Outstanding, LeftBehind, Changing, Asking
  <2> QED
    BY <2>5, InitialTalk DEF IInv
<1>2. IInv /\ [Next]_vars => IInv'
  <2> SUFFICES ASSUME IInv, [Next]_vars PROVE IInv'
    OBVIOUS
  <2>1. Talk /\ Line /\ (live /\ ~dialing => InOrder)
    BY DEF IInv
  <2>2. Talk' /\ Line'
    BY <2>1, TalkAndLine
  <2>3. live' /\ ~dialing' => InOrder'
    BY <2>1, NextInOrder
  <2> QED
    BY <2>2, <2>3 DEF IInv
<1> QED
  BY <1>1, <1>2, PTL DEF Spec

\* Types, for any commands and signals (src/phoneglue/phoneglue, the callobj):
\* no file is taken from an empty list, and only keys are collected.
THEOREM TypeCorrect == Spec => []TypeOK
<1>1. IInv => TypeOK
  <2> SUFFICES ASSUME IInv PROVE TypeOK
    OBVIOUS
  <2>1. /\ live \in BOOLEAN /\ doing \in Answered \cup {None}
        /\ \A i \in DOMAIN fromServer : fromServer[i] \in SaidToClient
    BY DEF IInv, Talk, TalkTypes
  <2>2. /\ call \in CallState /\ call.agifh <= Len(conn) /\ Len(conn) \in Nat
        /\ \A i \in DOMAIN toAgi : toAgi[i] \in AgiLines
    BY DEF IInv, Line, LineTypes
  <2>3. /\ call.agifh \in Nat /\ call.vamd_state \in -1..3 /\ call.files \in Nat
        /\ call.agi_doing \in AgiCommands \cup {None}
        /\ call.queued \in AgiCommands \cup {None}
        /\ \A i \in DOMAIN call.collected : call.collected[i] \in Keys
    BY <2>2 DEF CallState
  <2>4. call.agifh \in 0..Len(conn)
    BY <2>2, <2>3
  <2> QED
    BY <2>1, <2>2, <2>3, <2>4 DEF TypeOK, SaidToClient, AgiLines
<1> QED
  BY <1>1, InStep, PTL

LEMMA ItemsInStep ==
  ASSUME IInv
  PROVE  AgiInStep
<1> SUFFICES ASSUME call.agifh # 0, conn[call.agifh] # <<>>, ~dialing,
                    Item.of \notin {"CLOSED", "INIT"}, call.agi_doing # None
             PROVE  Item.of = Expected
  BY DEF AgiInStep, Expected
<1>1. live
  BY DEF IInv, Talk, TalkTypes, Dead, NoCall
<1>2. call.agifh \in DOMAIN conn
  BY DEF IInv, Line, LineTypes, CallState
<1>3. conn[call.agifh] \in Seq(AgiResults)
  BY <1>2 DEF IInv, Line, LineTypes
<1>4. 1 \in DOMAIN conn[call.agifh] /\ Item = conn[call.agifh][1]
  BY <1>3, TailItems DEF Item
<1> QED
  BY <1>1, <1>4 DEF IInv, InOrder, Outstanding

\* A result is taken for the one of the command it is of, whatever monitors,
\* signals and redirects came between (handle_msg_from_agi_client).
THEOREM ResultsInStep == Spec => []AgiInStep
<1>1. IInv => AgiInStep
  BY ItemsInStep
<1> QED
  BY <1>1, InStep, PTL

\* A command that signals may end runs with the line copied to the analyser
\* (send_agi_client_msg and the vamd_state it moves through).
THEOREM SignalsAreHeard == Spec => []SignalsHeard
<1>1. IInv => SignalsHeard
  <2> SUFFICES ASSUME IInv, Running \in Media, caller, vamd, ~dialing,
                      SignalsOf(call, Running) # {}
               PROVE  monitor
    BY DEF SignalsHeard, Media
  <2>1. Talk /\ Line /\ toAgi # <<>>
    BY DEF IInv, Running, Media, None
  <2>2. live /\ InOrder
    BY <2>1 DEF IInv, Talk, TalkTypes, Dead
  <2>3. CASE call.agifh = Len(conn)
    <3>1. /\ call.agifh # 0 /\ Awaits /\ Running = Expected
      BY <2>1, <2>2, <2>3, OneRuns
    <3>2. call.vamd_state \in -1..3
      BY <2>1 DEF Line, LineTypes, CallState
    <3>3. call.vamd_state \notin {2, -1, 1}
      BY <3>1 DEF Expected, Media, Awaits
    <3>4. call.vamd_state # 0
      BY <2>1, <2>2, <2>3, <3>1 DEF InOrder, Outstanding
    <3>5. call.vamd_state = 3
      BY <3>2, <3>3, <3>4
    <3> QED
      BY <2>2, <3>5, MonitorRuns
  <2>4. CASE call.agifh # Len(conn)
    BY <2>1, <2>2, <2>4 DEF InOrder, LeftBehind, Running
  <2> QED
    BY <2>3, <2>4
<1> QED
  BY <1>1, InStep, PTL

-----------------------------------------------------------------------------
(* Hangups.                                                                 *)

\* Which steps end a call.
LEMMA EndingSteps ==
  ASSUME Talk, Line, [Next]_vars, live, ~live'
  PROVE  Releases \/ Finishes \/ HangupResult
           \/ (Succeeds("RECORDFILE") /\ Item.key = "hangup")
<1>1. live' # live
  OBVIOUS
<1>2. CASE AgiMessages
  BY <1>1, <1>2 DEF AgiMessages, Reattaches, Parks, Opens, ReceivedTimesOut, Unexpected,
     MonitorChanges, Fails, PlayResult, GetdigResult, RecordResult, OtherResult,
     DialResult, CallerIdResult, serverVars
<1>3. CASE ClientCommands
  BY <1>1, <1>3 DEF ClientCommands, Rejects, Refuse, DoPlay, DoGetdig,
     DoRecord, DoOther, Todo
<1>4. CASE RunsJoined \/ AgiRuns \/ AgiHangsUp \/ Redirects \/ CallerHangsUp
  BY <1>1, <1>4 DEF RunsJoined, AgiRuns, AgiHangsUp, Redirects, CallerHangsUp, Leaves,
     serverVars
<1>5. CASE DialStatus \/ VamdListens \/ VamdSignals \/ VamdReady \/ VamdHears
             \/ VamdStops \/ ClientReads \/ ClientWrites \/ UNCHANGED vars
  BY <1>1, <1>5 DEF DialStatus, VamdListens, VamdSignals, FromVamd, VamdReady, VamdHears,
     VamdStops, ClientReads, ClientWrites, vars, serverVars
<1> QED
  BY <1>2, <1>3, <1>4, <1>5 DEF Next, Moves

\* The INIT of a connection was not read.
Unread(items) == \E j \in DOMAIN items : items[j].of = "INIT"

\* A call that is moved once at a time is on its last connection, or on its way
\* there: no redirect of it is forgotten.
MovedOnce ==
  ~again =>
    /\ redirects # 0 => redirects = 1 /\ redirecting
    /\ \A i \in DOMAIN conn : Unread(conn[i]) =>
         i = Len(conn) /\ redirects = 0 /\ redirecting
    /\ call.agifh # 0 => call.agifh = Len(conn) /\ ~redirecting

\* What a step does that moves no call.
Stays ==
  /\ UNCHANGED <<redirects, redirecting, again>>
  /\ call'.agifh \in {0, call.agifh}
  /\ Len(conn') = Len(conn)
  /\ \A i \in DOMAIN conn' :
       i \in DOMAIN conn /\ (Unread(conn'[i]) => Unread(conn[i]))

LEMMA StaysMoved ==
  ASSUME MovedOnce, Stays
  PROVE  MovedOnce'
BY DEF MovedOnce, Stays

\* What was taken from a connection leaves no INIT that was not there.
LEMMA TakenUnread ==
  ASSUME Line, NEW i \in DOMAIN conn, Taken(i)
  PROVE  /\ Len(conn') = Len(conn)
         /\ \A k \in DOMAIN conn' :
              k \in DOMAIN conn /\ (Unread(conn'[k]) => Unread(conn[k]))
<1>1. /\ Len(conn') = Len(conn) /\ DOMAIN conn' = DOMAIN conn
      /\ \A k \in DOMAIN conn : k # i => conn'[k] = conn[k]
      /\ \A j \in DOMAIN conn'[i] :
           j + 1 \in DOMAIN conn[i] /\ conn'[i][j] = conn[i][j + 1]
  BY TakenConn DEF Line, LineTypes
<1>2. Unread(conn'[i]) => Unread(conn[i])
  BY <1>1 DEF Unread
<1> QED
  BY <1>1, <1>2

\* Nor do items that open nothing.
LEMMA ToldUnread ==
  ASSUME Line, NEW items \in Seq(AgiResults), Tells(items),
         \A j \in DOMAIN items : items[j].of # "INIT"
  PROVE  /\ Len(conn') = Len(conn)
         /\ \A k \in DOMAIN conn' :
              k \in DOMAIN conn /\ (Unread(conn'[k]) => Unread(conn[k]))
<1> DEFINE last == Len(conn)
<1>1. /\ Len(conn') = Len(conn) /\ DOMAIN conn' = DOMAIN conn /\ last \in DOMAIN conn
      /\ conn'[last] = conn[last] \o items
      /\ \A k \in DOMAIN conn : k # last => conn'[k] = conn[k]
  BY ToldConn DEF Line, LineTypes
<1> HIDE DEF last
<1>2. conn[last] \in Seq(AgiResults)
  BY <1>1 DEF Line, LineTypes
<1>3. \A j \in DOMAIN conn'[last] :
        \/ j \in DOMAIN conn[last] /\ conn'[last][j] = conn[last][j]
        \/ j - Len(conn[last]) \in DOMAIN items
           /\ conn'[last][j] = items[j - Len(conn[last])]
  BY <1>1, <1>2, JoinedItems
<1>4. Unread(conn'[last]) => Unread(conn[last])
  <2> SUFFICES ASSUME NEW j \in DOMAIN conn'[last], conn'[last][j].of = "INIT"
               PROVE  Unread(conn[last])
    BY DEF Unread
  <2>1. j \in DOMAIN conn[last] /\ conn'[last][j] = conn[last][j]
    BY <1>3
  <2> QED
    BY <2>1 DEF Unread
<1> QED
  BY <1>1, <1>4

\* The steps of phoneglue but those that move a call.
LEMMA HandlersStay ==
  ASSUME Talk, Line,
         \/ ClientCommands \/ DialStatus \/ VamdListens
         \/ AgiMessages /\ ~Reattaches /\ ~Parks
  PROVE  Stays
<1>0. /\ NoCall.agifh = 0 /\ call \in CallState
      /\ [call EXCEPT !.agi_doing = None].agifh = call.agifh
      /\ [call EXCEPT !.vamd_state = 2].agifh = call.agifh
  BY DEF NoCall, Line, LineTypes, CallState
<1>1. CASE ClientCommands
  <2>1. UNCHANGED <<conn, redirects, redirecting, again>>
    BY <1>1 DEF ClientCommands, Rejects, Releases, DoPlay, DoGetdig, DoRecord, DoOther,
       Todo, astVars, mgrVars
  <2>2. call'.agifh \in {0, call.agifh}
    <3>1. CASE Rejects \/ Releases
      BY <1>0, <3>1 DEF Rejects, Releases
    <3>2. CASE DoPlay \/ DoGetdig \/ DoRecord \/ DoOther
      BY <3>2, CommandsOutcome DEF Outcome
    <3> QED
      BY <1>1, <3>1, <3>2 DEF ClientCommands
  <2> QED
    BY <2>1, <2>2 DEF Stays
<1>2. CASE DialStatus
  BY <1>0, <1>2 DEF DialStatus, Stays, mgrVars
<1>3. CASE VamdListens
  BY <1>0, <1>3 DEF VamdListens, FromVamd, Stays
<1>4. CASE ReceivedTimesOut
  BY <1>4, TimeoutLeaves DEF Stays
<1>5. CASE /\ Reads /\ UNCHANGED <<redirects, redirecting, again>>
           /\ call'.agifh \in {0, call.agifh}
  BY <1>5, ReadsDoes, TakenUnread DEF Stays
<1>6. ASSUME Reads
      PROVE  UNCHANGED <<redirects, redirecting, again>>
  BY <1>6 DEF Reads
<1>7. CASE Finishes \/ HangupResult
  BY <1>0, <1>5, <1>6, <1>7 DEF Finishes, HangupResult, ResultOf, AgiClientFinished
<1>8. CASE Unexpected \/ Fails
  BY <1>0, <1>5, <1>6, <1>8 DEF Unexpected, Fails, ResultOf
<1>9. CASE MonitorChanges
  <2>1. /\ Reads
        /\ call' = Changed \/ HandleInterruptedCommand(Changed)
    BY <1>9, MonitorChangesDoes
  <2>2. call'.agifh = call.agifh
    BY <2>1, ChangedIs, InterruptedOutcome DEF Outcome
  <2> QED
    BY <1>5, <1>6, <2>1, <2>2
<1>10. CASE PlayResult \/ GetdigResult \/ RecordResult \/ OtherResult \/ DialResult
              \/ CallerIdResult
  <2>1. Reads /\ (Outcome \/ AgiClientFinished(<<Ok("RECORDED")>>))
    BY <1>10, ResultsOutcome
  <2>2. call'.agifh \in {0, call.agifh}
    BY <1>0, <2>1 DEF Outcome, AgiClientFinished
  <2> QED
    BY <1>5, <1>6, <2>1, <2>2
<1> QED
  BY <1>1, <1>2, <1>3, <1>4, <1>7, <1>8, <1>9, <1>10 DEF AgiMessages

\* So do the others', but for the redirect itself.
LEMMA OthersStay ==
  ASSUME Line,
         \/ RunsJoined \/ AgiRuns \/ CallerHangsUp \/ AgiHangsUp \/ VamdReady
         \/ ClientReads \/ ClientWrites \/ VamdHears \/ VamdStops \/ UNCHANGED vars
  PROVE  Stays
<1>1. UNCHANGED <<redirects, redirecting, again, call>>
  BY DEF RunsJoined, AgiRuns, CallerHangsUp, AgiHangsUp, Leaves, VamdReady, ClientReads,
     ClientWrites, VamdHears, VamdStops, vars, astVars, mgrVars
<1>2. ASSUME NEW items \in Seq(AgiResults), Tells(items),
             \A j \in DOMAIN items : items[j].of # "INIT"
      PROVE  Stays
  BY <1>1, <1>2, ToldUnread DEF Stays
<1>3. CASE RunsJoined \/ AgiRuns
  <2>1. PICK ok \in BOOLEAN, key \in Keys \cup {None} \cup MinusOne :
          Tells(<<Result(Running, ok, key)>>)
    BY <1>3, KeysAreKeys DEF RunsJoined, AgiRuns
  <2>2. toAgi # <<>>
    BY <1>3, RunningDoes DEF RunsJoined, AgiRuns, None
  <2> DEFINE item == Result(Running, ok, key)
  <2>3. item \in AgiResults /\ item.of # "INIT"
    BY <2>1, <2>2, RunningDoes DEF Result
  <2>4. Tells(<<item>>)
    BY <2>1
  <2> HIDE DEF item
  <2>5. <<item>> \in Seq(AgiResults) /\ \A j \in DOMAIN <<item>> : <<item>>[j] = item
    BY <2>3
  <2> QED
    BY <1>2, <2>3, <2>4, <2>5
<1>4. CASE CallerHangsUp
  <2>1. PICK words \in LastWords(Running) : Tells(words)
    BY <1>4 DEF CallerHangsUp, Leaves
  <2> QED
    BY <1>2, <2>1, LastWordsAre
<1>5. CASE AgiHangsUp
  <2> DEFINE item == Result("HANGUP", TRUE, None)
  <2>1. Tells(<<item, CLOSED>>)
    BY <1>5 DEF AgiHangsUp
  <2>2. item \in AgiResults /\ item.of # "INIT"
    BY DEF Result, AgiResults, ResultOfs, AgiLines, AgiCommands
  <2>3. CLOSED \in AgiResults /\ CLOSED.of # "INIT"
    BY RunningDoes DEF CLOSED, Result
  <2> HIDE DEF item
  <2>4. <<item, CLOSED>> \in Seq(AgiResults)
    BY <2>2, <2>3
  <2>5. \A j \in DOMAIN <<item, CLOSED>> :
          <<item, CLOSED>>[j] = item \/ <<item, CLOSED>>[j] = CLOSED
    OBVIOUS
  <2>6. \A j \in DOMAIN <<item, CLOSED>> : <<item, CLOSED>>[j].of # "INIT"
    BY <2>2, <2>3, <2>5
  <2> QED
    BY <1>2, <2>1, <2>4, <2>6
<1>6. CASE VamdReady \/ ClientReads \/ ClientWrites \/ VamdHears \/ VamdStops
             \/ UNCHANGED vars
  <2>1. UNCHANGED conn
    BY <1>6 DEF VamdReady, ClientReads, ClientWrites, VamdHears, VamdStops, vars, astVars
  <2> QED
    BY <1>1, <2>1 DEF Stays
<1> QED
  BY <1>3, <1>4, <1>5, <1>6

\* A connection that opened while the call was awaited is the last one.
LEMMA OpensMoved ==
  ASSUME Talk, Line, MovedOnce, Reattaches \/ Parks
  PROVE  MovedOnce'
<1> SUFFICES ASSUME ~again' PROVE MovedOnce'
  BY DEF MovedOnce
<1>1. PICK i \in DOMAIN conn : /\ Opens(i)
        /\ \/ redirecting /\ redirecting' = FALSE /\ live
              /\ HandleInterruptedCommand([call EXCEPT !.agifh = i])
           \/ redirecting /\ redirecting' = FALSE /\ UNCHANGED call
           \/ ~redirecting
  BY DEF Reattaches, Parks
<1>2. /\ Taken(i) /\ Head(conn[i]) = INIT /\ conn[i] \in Seq(AgiResults)
      /\ UNCHANGED <<redirects, again>> /\ conn[i] # <<>>
  BY <1>1, OpensDoes DEF Taken, Opens
<1>3. /\ Len(conn') = Len(conn) /\ DOMAIN conn' = DOMAIN conn
      /\ conn'[i] = Tail(conn[i])
      /\ \A k \in DOMAIN conn : k # i => conn'[k] = conn[k]
      /\ \A j \in DOMAIN conn'[i] :
           j + 1 \in DOMAIN conn[i] /\ conn'[i][j] = conn[i][j + 1]
  BY <1>2, TakenConn DEF Line, LineTypes
<1>4. /\ 1 \in DOMAIN conn[i] /\ Head(conn[i]) = conn[i][1]
      /\ \A j \in DOMAIN conn'[i] : j \in Nat \ {0}
  BY <1>2, <1>3, TailItems
<1>5. Unread(conn[i])
  BY <1>2, <1>4 DEF Unread, INIT, Result
<1>6. /\ ~again /\ i = Len(conn) /\ redirects = 0 /\ redirecting
      /\ \A k \in DOMAIN conn : Unread(conn[k]) => k = i
  BY <1>2, <1>5 DEF MovedOnce
<1>7. ~Unread(conn'[i])
  <2> SUFFICES ASSUME NEW j \in DOMAIN conn'[i], conn'[i][j].of = "INIT"
               PROVE  FALSE
    BY DEF Unread
  <2>1. j + 1 = 1
    BY <1>3 DEF Line, Openings
  <2> QED
    BY <1>4, <2>1
<1>8. \A k \in DOMAIN conn' : ~Unread(conn'[k])
  BY <1>3, <1>6, <1>7
<1>9. call'.agifh = 0 \/ call'.agifh = i
  <2>1. CASE UNCHANGED call
    BY <1>6, <2>1 DEF MovedOnce
  <2>2. CASE HandleInterruptedCommand([call EXCEPT !.agifh = i])
    <3> DEFINE c == [call EXCEPT !.agifh = i]
    <3>0. i \in Nat
      BY DEF Line, LineTypes
    <3>1. c \in CallState /\ c.agifh = i
      BY <3>0 DEF Line, LineTypes, CallState
    <3> HIDE DEF c
    <3>2. HandleInterruptedCommand(c)
      BY <2>2 DEF c
    <3> QED
      BY <3>1, <3>2, InterruptedLeaves
  <2> QED
    BY <1>1, <1>6, <2>1, <2>2
<1>10. redirecting' = FALSE
  BY <1>1, <1>6
<1> QED
  BY <1>2, <1>3, <1>6, <1>8, <1>9, <1>10 DEF MovedOnce

\* A redirect opens the only connection to be read.
LEMMA RedirectsMoved ==
  ASSUME Line, MovedOnce, Redirects
  PROVE  MovedOnce'
<1> SUFFICES ASSUME ~again' PROVE MovedOnce'
  BY DEF MovedOnce
<1>1. /\ redirects > 0 /\ redirects' = redirects - 1
      /\ UNCHANGED <<call, redirecting, again>>
  BY DEF Redirects, Leaves, mgrVars
<1>2. /\ ~again /\ redirects' = 0 /\ redirecting /\ call'.agifh = 0
      /\ \A k \in DOMAIN conn : ~Unread(conn[k])
  BY <1>1 DEF MovedOnce
<1>3. CASE UNCHANGED conn
  BY <1>1, <1>2, <1>3 DEF MovedOnce
<1>4. CASE Leaves(TRUE)
  <2>1. PICK words \in LastWords(Running) : Moved(words, INIT)
    BY <1>4 DEF Leaves, Moved
  <2>2. /\ words \in Seq(AgiResults)
        /\ \A j \in DOMAIN words : words[j].of # "INIT"
    BY <2>1, LastWordsAre
  <2>3. INIT \in AgiResults
    BY DEF INIT, Result, AgiResults, ResultOfs, None
  <2> DEFINE last == Len(conn)
  <2>4. /\ Len(conn') = last + 1
        /\ last \in DOMAIN conn
        /\ \A k \in DOMAIN conn' : k \in DOMAIN conn \/ k = last + 1
        /\ conn'[last] = conn[last] \o words
        /\ \A k \in DOMAIN conn : k # last => conn'[k] = conn[k]
    BY <2>1, <2>2, <2>3, MovedConn DEF Line, LineTypes
  <2> HIDE DEF last
  <2>5. conn[last] \in Seq(AgiResults)
    BY <2>4 DEF Line, LineTypes
  <2>6. \A j \in DOMAIN conn'[last] :
          \/ j \in DOMAIN conn[last] /\ conn'[last][j] = conn[last][j]
          \/ j - Len(conn[last]) \in DOMAIN words
             /\ conn'[last][j] = words[j - Len(conn[last])]
    BY <2>2, <2>4, <2>5, JoinedItems
  <2>7. ~Unread(conn'[last])
    <3> SUFFICES ASSUME NEW j \in DOMAIN conn'[last], conn'[last][j].of = "INIT"
                 PROVE  FALSE
      BY DEF Unread
    <3>1. j \in DOMAIN conn[last] /\ conn[last][j].of = "INIT"
      BY <2>2, <2>6
    <3> QED
      BY <1>2, <2>4, <3>1 DEF Unread
  <2>8. \A k \in DOMAIN conn' : Unread(conn'[k]) => k = Len(conn')
    <3> TAKE k \in DOMAIN conn'
    <3>1. CASE k = last
      BY <2>7, <3>1
    <3>2. CASE k \in DOMAIN conn /\ k # last
      BY <1>2, <2>4, <3>2
    <3> QED
      BY <2>4, <3>1, <3>2
  <2> QED
    BY <1>1, <1>2, <2>8 DEF MovedOnce
<1> QED
  BY <1>3, <1>4 DEF Redirects

\* A signal moves a call that is not being moved.
LEMMA SignalsMoved ==
  ASSUME Line, MovedOnce, VamdSignals
  PROVE  MovedOnce'
<1> SUFFICES ASSUME ~again' PROVE MovedOnce'
  BY DEF MovedOnce
<1> DEFINE signal == Head(fromVamd)
           c == [call EXCEPT !.collected = Append(@, signal)]
<1>1. /\ UNCHANGED conn
      /\ StopMedia(c) \/ UNCHANGED <<call, redirects, redirecting, again>>
  BY DEF VamdSignals, FromVamd
<1>2. c.agifh = call.agifh /\ [c EXCEPT !.queued = None].agifh = call.agifh
      /\ [c EXCEPT !.agifh = 0].agifh = 0
  BY DEF Line, LineTypes, CallState
<1> HIDE DEF c, signal
<1>3. CASE UNCHANGED <<redirects, redirecting, again>> /\ call'.agifh = call.agifh
  BY <1>1, <1>3 DEF MovedOnce
<1>4. CASE /\ call'.agifh = 0 /\ redirecting' = TRUE /\ redirects' = redirects + 1
           /\ again' = (again \/ redirecting)
  <2>1. ~again /\ ~redirecting
    BY <1>4
  <2>2. redirects = 0 /\ \A k \in DOMAIN conn : ~Unread(conn[k])
    BY <2>1 DEF MovedOnce
  <2> QED
    BY <1>1, <1>4, <2>2 DEF MovedOnce
<1> QED
  BY <1>1, <1>2, <1>3, <1>4 DEF StopMedia

\* Every call moved once at a time is on the connection it is really on.
LEMMA CallsMovedOnce == Spec => [](IInv /\ MovedOnce)
<1>1. Init => MovedOnce
  <2> SUFFICES ASSUME Init PROVE MovedOnce
    OBVIOUS
  <2>1. conn = <<<<>>>> /\ call = [NoCall EXCEPT !.agifh = 1]
    BY DEF Init
  <2>2. call.agifh = 1
    BY <2>1 DEF NoCall
  <2>3. Len(conn) = 1 /\ \A i \in DOMAIN conn : conn[i] = <<>>
    BY <2>1
  <2>4. \A i \in DOMAIN conn : ~Unread(conn[i])
    BY <2>3 DEF Unread
  <2> QED
    BY <2>2, <2>3, <2>4 DEF Init, MovedOnce
<1>2. IInv /\ MovedOnce /\ [Next]_vars => MovedOnce'
  <2> SUFFICES ASSUME IInv, MovedOnce, [Next]_vars PROVE MovedOnce'
    OBVIOUS
  <2>1. Talk /\ Line
    BY DEF IInv
  <2>2. CASE Reattaches \/ Parks
    BY <2>1, <2>2, OpensMoved
  <2>3. CASE ClientCommands \/ DialStatus \/ VamdListens
               \/ (AgiMessages /\ ~Reattaches /\ ~Parks)
    BY <2>1, <2>3, HandlersStay, StaysMoved
  <2>4. CASE Redirects \/ VamdSignals
    BY <2>1, <2>4, RedirectsMoved, SignalsMoved
  <2>5. CASE \/ RunsJoined \/ AgiRuns \/ CallerHangsUp \/ AgiHangsUp \/ VamdReady
             \/ ClientReads \/ ClientWrites \/ VamdHears \/ VamdStops \/ UNCHANGED vars
    BY <2>1, <2>5, OthersStay, StaysMoved
  <2> QED
    BY <2>2, <2>3, <2>4, <2>5 DEF Next, Moves
<1> QED
  BY <1>1, <1>2, InStep, PTL DEF Spec

\* A hangup is told of when the caller is gone, when the client asked for it, or
\* when the command in progress has the result -1 on the connection the call is
\* on (agi_client_finished, release_agi_client and the results they follow), but
\* for a call redirected again while it is awaited, and the late -1 of a dial.
THEOREM HangupsAreTrue == Spec => HungUpTruly
<1> DEFINE Truly ==
      live /\ ~live' /\ fromServer' # fromServer
        /\ fromServer'[Len(fromServer')].type = "HUNGUP"
      => \/ ~caller \/ doing = "HANGUP" \/ again
         \/ /\ call.agifh = Len(conn) /\ Item.key \in MinusOne
            /\ Item.of = call.agi_doing \/ dialing
<1>1. IInv /\ MovedOnce /\ [Next]_vars => Truly
  <2> SUFFICES ASSUME IInv, MovedOnce, [Next]_vars, live, ~live',
                      fromServer'[Len(fromServer')].type = "HUNGUP",
                      caller, doing # "HANGUP", ~again
               PROVE  /\ call.agifh = Len(conn) /\ Item.key \in MinusOne
                      /\ Item.of = call.agi_doing \/ dialing
    OBVIOUS
  <2>1. Talk /\ Line
    BY DEF IInv
  <2>2. ~Releases
    <3>1. CASE Releases
      <4>1. fromServer' = Append(fromServer, Message("RELEASED", TRUE, TRUE, None))
        BY <3>1 DEF Releases, Release
      <4>2. fromServer \in Seq(SaidToClient)
        BY <2>1 DEF Talk, TalkTypes
      <4>3. Message("RELEASED", TRUE, TRUE, None) \in SaidToClient
        BY SuccessSaid DEF MessageTypes, Ok
      <4> DEFINE m == Message("RELEASED", TRUE, TRUE, None)
      <4> HIDE DEF m
      <4>5. m \in SaidToClient /\ fromServer' = Append(fromServer, m)
        BY <4>1, <4>3 DEF m
      <4>6. /\ Len(Append(fromServer, m)) = Len(fromServer) + 1
            /\ Append(fromServer, m)[Len(fromServer) + 1] = m
        BY <4>2, <4>5, AppendedItem
      <4>4. fromServer'[Len(fromServer')] = m
        BY <4>5, <4>6
      <4> QED
        BY <4>4 DEF m, Message
    <3> QED
      BY <3>1
  <2>3. ASSUME Reads
        PROVE  /\ call.agifh \in DOMAIN conn /\ 1 \in DOMAIN conn[call.agifh]
               /\ Item = conn[call.agifh][1] /\ call.agifh = Len(conn)
    BY <2>1, <2>3, ReadsDoes DEF MovedOnce, Reads
  <2>4. ~Finishes
    BY <2>1, <2>3 DEF Finishes, Line, Hangups
  <2>5. ASSUME NEW of, ResultOf(of), Item.key \in MinusOne, of # None
        PROVE  Item.of = call.agi_doing \/ dialing
    BY <2>5, ItemsInStep DEF ResultOf, Reads, AgiInStep
  <2>6. CASE Succeeds("RECORDFILE") /\ Item.key = "hangup"
    BY <2>3, <2>5, <2>6 DEF Succeeds, ResultOf, MinusOne, None
  <2>7. CASE HangupResult
    <3>1. PICK of \in {"HANGUP", "PLAYFILE", "GETDIGIT", "SENDDTMF"} :
            ResultOf(of) /\ (of # "HANGUP" => Item.key \in MinusOne)
      BY <2>7 DEF HangupResult
    <3>2. of # "HANGUP"
      BY <2>1, <3>1 DEF ResultOf, Talk, HangupAsked
    <3> QED
      BY <2>3, <2>5, <3>1, <3>2 DEF ResultOf, None
  <2> QED
    BY <2>1, <2>2, <2>4, <2>6, <2>7, EndingSteps
<1> QED
  BY <1>1, CallsMovedOnce, PTL DEF Spec, HungUpTruly

-----------------------------------------------------------------------------
(* Seen from the client.                                                    *)

\* A step of what SatcCall says of the server.
SatcStep == ServerStep \/ ClientStep \/ AnswerAtOnce \/ AnswerAndHangUp
              \/ AnswerNoDigit \/ AnswerOutOfStep

\* Sending what the client asked for accepts it ...
LEMMA SendsAccepts ==
  ASSUME Talk, Line, NEW c, NEW of \in AgiCommands, Todo(ClientCommand(of)),
         Sends(c, of)
  PROVE  SatcStep
<1>1. /\ toServer # <<>> /\ Head(toServer).type = ClientCommand(of) /\ live
      /\ doing = None /\ toServer' = Tail(toServer) /\ UNCHANGED <<live, fromServer>>
      /\ doing' = ClientCommand(of)
  BY DEF Todo, Sends
<1>2. ClientCommand(of) \in Answered
  BY ClientCommandTypes
<1>3. Accept
  BY <1>1, <1>2 DEF Accept
<1> QED
  BY <1>3 DEF SatcStep, ServerStep

\* ... a reply to the command completes it ...
LEMMA RepliesComplete ==
  ASSUME live, doing \in Answered \ {"HANGUP"}, NEW m \in Results(doing), Answer(m),
         UNCHANGED <<toServer, live>>
  PROVE  SatcStep
<1>1. Complete
  BY DEF Complete, Answer
<1> QED
  BY <1>1 DEF SatcStep, ServerStep

\* ... and what is answered where it is read is accepted and completed.
LEMMA RepliesAtOnce ==
  ASSUME Talk, NEW type \in {"PLAY", "GETDIG", "RECORD"}, Todo(type),
         NEW m \in Results(type), Answer(m)
  PROVE  SatcStep
<1>1. AnswerAtOnce
  BY DEF AnswerAtOnce, Todo, Answer
<1> QED
  BY <1>1 DEF SatcStep

LEMMA CommandsKeepSatc ==
  ASSUME Talk, Line, ClientCommands
  PROVE  SatcStep
<1>1. Ok("PLAYED") \in Results("PLAY")
  BY DEF Ok, Results, AnswerType
<1>2. CASE Rejects \/ Releases
  BY <1>2 DEF SatcStep, ServerStep, Rejects, Releases
<1>3. CASE DoPlay
  <2> DEFINE c == [Stopping EXCEPT !.files = Head(toServer).files]
  <2>1. PlayNextFile(c) /\ Todo("PLAY")
    BY <1>3 DEF DoPlay
  <2>2. c \in CallState
    BY <2>1, TodoDoes DEF CallState
  <2> HIDE DEF c
  <2>3. Replies(c, {Ok("PLAYED")}) \/ Sends(c, "PLAYFILE")
    BY <2>1, <2>2, PlayNextFileDoes
  <2>4. CASE Replies(c, {Ok("PLAYED")})
    BY <1>1, <2>1, <2>4, RepliesAtOnce DEF Replies
  <2>5. CASE Sends(c, "PLAYFILE")
    BY <2>1, <2>5, SendsAccepts, ClientCommandIs DEF AgiCommands
  <2> QED
    BY <2>3, <2>4, <2>5
<1>4. CASE DoGetdig
  <2>1. GetNextDigit(Stopping, FALSE) /\ Todo("GETDIG")
    BY <1>4 DEF DoGetdig
  <2>2. Stopping \in CallState
    BY <2>1, TodoDoes
  <2>3. Replies(Stopping, Results("GETDIG")) \/ Sends(Stopping, "GETDIGIT")
    BY <2>1, <2>2, GetNextDigitDoes
  <2>4. CASE Replies(Stopping, Results("GETDIG"))
    BY <2>1, <2>4, RepliesAtOnce DEF Replies
  <2>5. CASE Sends(Stopping, "GETDIGIT")
    BY <2>1, <2>5, SendsAccepts, ClientCommandIs DEF AgiCommands
  <2> QED
    BY <2>3, <2>4, <2>5
<1>5. CASE DoRecord
  <2>1. Todo("RECORD")
        /\ (Sends(Stopping, "RECORDFILE") \/ Replies(call, Results("RECORD")))
    BY <1>5, RecordDoes
  <2>2. CASE Sends(Stopping, "RECORDFILE")
    BY <2>1, <2>2, SendsAccepts, ClientCommandIs DEF AgiCommands
  <2>3. CASE Replies(call, Results("RECORD"))
    BY <2>1, <2>3, RepliesAtOnce DEF Replies
  <2> QED
    BY <2>1, <2>2, <2>3
<1>6. CASE DoOther
  <2>1. PICK of \in {"SENDDTMF", "SETCALLERID", "DIAL", "SETVARIABLE", "HANGUP"} :
          /\ Todo(ClientCommand(of)) /\ SendAgi(call, of)
          /\ doing' = ClientCommand(of) /\ UNCHANGED fromServer
    BY <1>6 DEF DoOther
  <2>2. Sends(call, of) /\ of \in AgiCommands
    BY <2>1, TodoDoes DEF Sends, Like, AgiCommands
  <2> QED
    BY <2>1, <2>2, SendsAccepts
<1> QED
  BY <1>2, <1>3, <1>4, <1>5, <1>6 DEF ClientCommands

\* A command that was interrupted is answered, by what it has if the call is
\* not being moved.
LEMMA InterruptedKeepsSatc ==
  ASSUME live, NEW c \in CallState, HandleInterruptedCommand(c),
         UNCHANGED <<toServer, live>>,
         c.collected # <<>> \/ redirecting \/ dialing
  PROVE  SatcStep \/ UNCHANGED serverVars
<1>1. CASE doing \in {"PLAY", "GETDIG", "RECORD"} /\ Replies(c, Results(doing))
  BY <1>1, RepliesComplete DEF Replies, Answered
<1>2. CASE c.collected = <<>> /\ Replies(c, NoDigit)
  <2>1. doing = "GETDIG" /\ Answer(Ok("GOTDIG"))
    BY <1>2 DEF Replies, NoDigit
  <2>2. AnswerNoDigit
    BY <1>2, <2>1 DEF AnswerNoDigit, Answer
  <2> QED
    BY <2>2 DEF SatcStep
<1>3. CASE Silent(c)
  BY <1>3 DEF Silent, serverVars
<1> QED
  BY <1>1, <1>2, <1>3, InterruptedDoes

LEMMA ResultsKeepSatc ==
  ASSUME Talk, Line, PlayResult \/ GetdigResult \/ RecordResult \/ OtherResult
  PROVE  SatcStep \/ UNCHANGED serverVars
<1>1. /\ "PLAYFILE" \in AgiCommands /\ "GETDIGIT" \in AgiCommands
      /\ "RECORDFILE" \in AgiCommands /\ "SENDDTMF" \in AgiCommands
      /\ "SETVARIABLE" \in AgiCommands
  BY DEF AgiCommands
<1>2. {"PLAY", "GETDIG", "RECORD", "PLAYDIG", "RETURNVAR"} \subseteq
        Answered \ {"HANGUP"}
  BY DEF Answered
<1>3. CASE PlayResult
  <2>1. /\ Succeeds("PLAYFILE") /\ Item.key \notin MinusOne /\ UNCHANGED live
        /\ \/ PlayNextFile(Collecting)
           \/ Answer(Message("PLAYED", TRUE, FALSE, None))
    BY <1>3 DEF PlayResult
  <2>2. live /\ doing = "PLAY" /\ Collecting \in CallState /\ toServer' = toServer
    BY <1>1, <2>1, SucceedsDoes, ReadsDoes, ClientCommandIs
  <2>3. {Ok("PLAYED"), Message("PLAYED", TRUE, FALSE, None)} \subseteq Results("PLAY")
    BY DEF Ok, Results, AnswerType
  <2>4. CASE Sends(Collecting, "PLAYFILE")
    BY <2>1, <2>2, <2>4, ClientCommandIs DEF Sends, serverVars
  <2>5. CASE Replies(Collecting, {Ok("PLAYED")})
    BY <1>2, <2>1, <2>2, <2>3, <2>5, RepliesComplete DEF Replies
  <2>6. CASE Answer(Message("PLAYED", TRUE, FALSE, None))
    BY <1>2, <2>1, <2>2, <2>3, <2>6, RepliesComplete
  <2> QED
    BY <2>1, <2>2, <2>4, <2>5, <2>6, PlayNextFileDoes
<1>4. CASE GetdigResult
  <2>1. /\ Succeeds("GETDIGIT") /\ Item.key \notin MinusOne /\ UNCHANGED live
        /\ GetNextDigit(Collecting, Item.key = None)
    BY <1>4 DEF GetdigResult
  <2>2. live /\ doing = "GETDIG" /\ Collecting \in CallState /\ toServer' = toServer
        /\ (Item.key = None) \in BOOLEAN
    BY <1>1, <2>1, SucceedsDoes, ReadsDoes, ClientCommandIs
  <2>3. CASE Sends(Collecting, "GETDIGIT")
    BY <2>1, <2>2, <2>3, ClientCommandIs DEF Sends, serverVars
  <2>4. CASE Replies(Collecting, Results("GETDIG"))
    BY <1>2, <2>1, <2>2, <2>4, RepliesComplete DEF Replies
  <2> QED
    BY <2>1, <2>2, <2>3, <2>4, GetNextDigitDoes
<1>5. CASE RecordResult
  <2>1. Succeeds("RECORDFILE") /\ live /\ doing = "RECORD" /\ toServer' = toServer
    BY <1>1, <1>5, SucceedsDoes, ReadsDoes, ClientCommandIs DEF RecordResult
  <2>2. CASE AgiClientFinished(<<Ok("RECORDED")>>)
    <3>1. fromServer' = fromServer \o <<Ok("RECORDED"), Ok("HUNGUP")>>
      <4>1. fromServer' = fromServer \o <<Ok("RECORDED")>> \o <<Ok("HUNGUP")>>
        BY <2>2 DEF AgiClientFinished
      <4>2. fromServer \in Seq(SaidToClient) /\ Ok("RECORDED") \in SaidToClient
            /\ Ok("HUNGUP") \in SaidToClient
        BY ResultsSaid DEF Talk, TalkTypes
      <4> DEFINE a == Ok("RECORDED")
                 b == Ok("HUNGUP")
      <4> HIDE DEF a, b
      <4>3. fromServer' = fromServer \o <<a>> \o <<b>> /\ a \in SaidToClient
            /\ b \in SaidToClient
        BY <4>1, <4>2 DEF a, b
      <4>4. fromServer' = fromServer \o <<a, b>>
        BY <4>2, <4>3, PairJoined
      <4> QED
        BY <4>4 DEF a, b
    <3>2. AnswerAndHangUp
      BY <2>1, <2>2, <3>1 DEF AnswerAndHangUp, AgiClientFinished
    <3> QED
      BY <3>2 DEF SatcStep
  <2>3. CASE /\ Answer(Message("RECORDED", TRUE, HasEndpos /\ Item.key # "-1", None))
             /\ UNCHANGED live
    <3>1. (HasEndpos /\ Item.key # "-1") \in BOOLEAN
      OBVIOUS
    <3>2. Message("RECORDED", TRUE, HasEndpos /\ Item.key # "-1", None) \in Results("RECORD")
      BY <3>1 DEF Results, AnswerType
    <3> QED
      BY <1>2, <2>1, <2>3, <3>2, RepliesComplete
  <2> QED
    BY <1>5, <2>2, <2>3 DEF RecordResult
<1>6. CASE OtherResult
  <2>1. PICK of \in {"SENDDTMF", "SETVARIABLE"} :
          Succeeds(of) /\ Answer(Ok(AnswerType(ClientCommand(of))))
    BY <1>6 DEF OtherResult
  <2>2. live /\ doing = ClientCommand(of) /\ toServer' = toServer /\ UNCHANGED live
    BY <1>1, <1>6, <2>1, SucceedsDoes, ReadsDoes DEF OtherResult
  <2>3. ClientCommand(of) \in {"PLAYDIG", "RETURNVAR"}
    BY <2>1, ClientCommandIs
  <2>4. \A type \in {"PLAYDIG", "RETURNVAR"} : Ok(AnswerType(type)) \in Results(type)
    BY DEF Ok, Results
  <2> QED
    BY <1>2, <2>1, <2>2, <2>3, <2>4, RepliesComplete
<1> QED
  BY <1>3, <1>4, <1>5, <1>6

LEMMA FailureInResults ==
  \A type \in Answered : Message(AnswerType(type), TRUE, FALSE, None) \in Results(type)
<1>1. AnswerType("GETDIG") = "GOTDIG"
  BY DEF AnswerType
<1> SUFFICES ASSUME NEW type \in Answered
             PROVE  Message(AnswerType(type), TRUE, FALSE, None) \in Results(type)
  OBVIOUS
<1>2. CASE type = "GETDIG"
  BY <1>1, <1>2 DEF Results
<1>3. CASE type # "GETDIG"
  BY <1>3 DEF Results
<1> QED
  BY <1>2, <1>3

LEMMA MessagesKeepSatc ==
  ASSUME IInv, AgiMessages
  PROVE  SatcStep \/ UNCHANGED serverVars
<1>0. Talk /\ Line /\ (live /\ ~dialing => InOrder)
  BY DEF IInv
<1>1. CASE Parks \/ ReceivedTimesOut \/ DialResult \/ CallerIdResult \/ Unexpected
  BY <1>1 DEF Parks, Opens, ReceivedTimesOut, DialResult, CallerIdResult, Unexpected, Reads, serverVars,
     Succeeds, ResultOf
<1>2. CASE Finishes \/ HangupResult
  <2>1. Reads /\ AgiClientFinished(<<>>)
    BY <1>2 DEF Finishes, HangupResult, ResultOf
  <2>2. live /\ toServer' = toServer
    BY <1>0, <2>1, ReadsDoes
  <2>3. fromServer' = Append(fromServer, Message("HUNGUP", TRUE, TRUE, None))
    <3>1. fromServer' = fromServer \o <<>> \o <<Ok("HUNGUP")>>
      BY <2>1 DEF AgiClientFinished
    <3>2. fromServer \in Seq(SaidToClient) /\ Ok("HUNGUP") \in SaidToClient
      BY <1>0, ResultsSaid DEF Talk, TalkTypes
    <3>3. \A t \in Seq(SaidToClient) : \A x \in SaidToClient :
            t \o <<>> \o <<x>> = Append(t, x)
      OBVIOUS
    <3>4. Ok("HUNGUP") = Message("HUNGUP", TRUE, TRUE, None)
      BY DEF Ok
    <3> QED
      BY <3>1, <3>2, <3>3, <3>4
  <2>4. HangUp
    BY <2>1, <2>2, <2>3 DEF HangUp, AgiClientFinished
  <2> QED
    BY <2>4 DEF SatcStep, ServerStep
<1>3. CASE Reattaches
  <2>1. PICK i \in DOMAIN conn :
          /\ Opens(i) /\ redirecting
          /\ \/ live /\ HandleInterruptedCommand([call EXCEPT !.agifh = i])
             \/ UNCHANGED <<call, doing, fromServer, toAgi, listen>>
    BY <1>3 DEF Reattaches
  <2>2. [call EXCEPT !.agifh = i] \in CallState
    <3>1. call \in CallState /\ i \in Nat
      BY <1>0 DEF Line, LineTypes
    <3> QED
      BY <3>1 DEF CallState
  <2>3. UNCHANGED <<toServer, live>>
    BY <2>1 DEF Opens
  <2> QED
    BY <2>1, <2>2, <2>3, InterruptedKeepsSatc DEF serverVars
<1>4. CASE MonitorChanges
  <2>1. /\ Reads /\ call.vamd_state \in {2, -1} /\ UNCHANGED live
        /\ \/ UNCHANGED <<doing, fromServer>>
           \/ Changed.queued = None /\ HandleInterruptedCommand(Changed)
    BY <1>4, MonitorChangesDoes
  <2>2. live /\ toServer' = toServer
    BY <1>0, <2>1, ReadsDoes
  <2>3. /\ Changed \in CallState /\ Changed.queued = call.queued
        /\ Changed.collected = call.collected
    BY <1>0, ChangedIs
  <2>4. call.queued = None => call.collected # <<>> \/ dialing
    BY <1>0, <2>1, <2>2 DEF InOrder, Changing
  <2> QED
    BY <2>1, <2>2, <2>3, <2>4, InterruptedKeepsSatc DEF serverVars
<1>5. CASE Fails
  <2>1. PICK of \in AgiCommands \ {"HANGUP"} :
          /\ ResultOf(of)
          /\ Answer(Message(AnswerType(ClientCommand(of)), TRUE, FALSE, None))
    BY <1>5 DEF Fails
  <2>2. Reads /\ Item.of # "CLOSED" /\ call.agi_doing = of
    BY <2>1 DEF ResultOf
  <2>3. live /\ toServer' = toServer /\ UNCHANGED live
    BY <1>0, <1>5, <2>2, ReadsDoes DEF Fails
  <2>4. ClientCommand(of) \in Answered \ {"HANGUP"}
    BY ClientCommandTypes
  <2>5. CASE dialing
    <3>1. AnswerOutOfStep
      BY <2>1, <2>3, <2>4, <2>5 DEF AnswerOutOfStep, Answer
    <3> QED
      BY <3>1 DEF SatcStep
  <2>6. CASE ~dialing
    <3>1. doing = ClientCommand(of)
      BY <1>0, <2>2, <2>3, <2>6, ReadsQuiet DEF Awaits
    <3>2. Message(AnswerType(ClientCommand(of)), TRUE, FALSE, None) \in
            Results(ClientCommand(of))
      BY <2>4, FailureInResults
    <3> QED
      BY <2>1, <2>3, <2>4, <3>1, <3>2, RepliesComplete
  <2> QED
    BY <2>5, <2>6
<1> QED
  BY <1>0, <1>1, <1>2, <1>3, <1>4, <1>5, ResultsKeepSatc DEF AgiMessages

\* Phoneglue is the server that SatcCall describes, for any commands, signals
\* and orders in which the four parties are heard: every command is answered
\* once and by its own kind, until a call has dialed.
THEOREM SatcCallKept == Spec => KeepsSatcCall
<1>1. IInv /\ [Next]_vars => SatcStep \/ UNCHANGED serverVars
  <2> SUFFICES ASSUME IInv, [Next]_vars PROVE SatcStep \/ UNCHANGED serverVars
    OBVIOUS
  <2>1. Talk /\ Line
    BY DEF IInv
  <2>2. CASE DialStatus
    <3>1. /\ UNCHANGED <<toServer, live>>
          /\ \/ dialing /\ live
                /\ Answer(Message("TRANSFERED", TRUE, doing = "TRANSFER", None))
             \/ UNCHANGED <<doing, fromServer>>
      BY <2>2 DEF DialStatus
    <3>2. CASE /\ dialing /\ live
               /\ Answer(Message("TRANSFERED", TRUE, doing = "TRANSFER", None))
      <4>1. CASE doing = "TRANSFER"
        <5>1. Message("TRANSFERED", TRUE, TRUE, None) \in Results("TRANSFER")
          BY DEF Results, AnswerType
        <5>2. Answer(Message("TRANSFERED", TRUE, TRUE, None))
          <6>1. (doing = "TRANSFER") = TRUE
            BY <4>1
          <6> QED
            BY <3>2, <6>1
        <5> QED
          BY <3>1, <3>2, <4>1, <5>1, <5>2, RepliesComplete DEF Answered
      <4>2. CASE doing # "TRANSFER"
        <5>1. Answer(Message("TRANSFERED", TRUE, FALSE, None))
          <6>1. (doing = "TRANSFER") = FALSE
            BY <4>2
          <6> QED
            BY <3>2, <6>1
        <5>2. "TRANSFER" \in Answered /\ AnswerType("TRANSFER") = "TRANSFERED"
          BY DEF Answered, AnswerType
        <5>3. AnswerOutOfStep
          BY <3>1, <3>2, <5>1, <5>2 DEF AnswerOutOfStep, Answer
        <5> QED
          BY <5>3 DEF SatcStep
      <4> QED
        BY <4>1, <4>2
    <3> QED
      BY <3>1, <3>2 DEF serverVars
  <2>3. CASE ClientWrites
    <3>1. PICK c \in Commands : toServer = <<>> /\ toServer' = <<c>>
      BY <2>3 DEF ClientWrites
    <3>2. toServer' = Append(toServer, c)
      BY <3>1
    <3>3. ClientStep
      BY <2>3, <3>2 DEF ClientWrites, ClientStep
    <3> QED
      BY <3>3 DEF SatcStep
  <2>4. CASE ClientReads
    BY <2>4 DEF ClientReads, ClientStep, SatcStep
  <2>5. CASE RunsJoined \/ AgiRuns \/ AgiHangsUp \/ Redirects \/ CallerHangsUp
    BY <2>5 DEF RunsJoined, AgiRuns, AgiHangsUp, Redirects, CallerHangsUp, Leaves
  <2>6. CASE VamdListens \/ VamdSignals \/ VamdReady \/ VamdHears \/ VamdStops
               \/ UNCHANGED vars
    BY <2>6 DEF VamdListens, VamdSignals, FromVamd, VamdReady, VamdHears, VamdStops,
       vars, serverVars
  <2> QED
    BY <2>1, <2>2, <2>3, <2>4, <2>5, <2>6, CommandsKeepSatc, MessagesKeepSatc
       DEF Next, Moves
<1>2. (SatcStep \/ UNCHANGED serverVars) =>
        [\/ ServerStep \/ ClientStep \/ AnswerAtOnce \/ AnswerAndHangUp
         \/ AnswerNoDigit \/ AnswerOutOfStep]_serverVars
  BY DEF SatcStep
<1> QED
  BY <1>1, <1>2, InStep, PTL DEF Spec, KeepsSatcCall
=============================================================================
