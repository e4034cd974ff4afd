------------------------------ MODULE SatcCall ------------------------------
(***************************************************************************)
(* What one telephone call looks like to a client of the SATC server: the  *)
(* commands the client has sent and the server has not read, the messages  *)
(* the server has sent and the client has not read, and the two facts      *)
(* about the call that decide how a command is answered -- whether the     *)
(* call still has a callobj, and the command it is doing.                  *)
(*                                                                         *)
(* It is phoneglue seen from the socket: Asterisk, the AGI command that    *)
(* carries a SATC command out and the audio analyser are behind Complete,  *)
(* which answers a command in any way phoneglue's result handlers can.     *)
(***************************************************************************)
EXTENDS Integers, Sequences

CONSTANTS
  Keys            \* the DTMF keys and signal characters a caller can send

VARIABLES
  toServer,       \* commands written by the client, not yet read by the server
  fromServer,     \* messages written by the server, not yet read by the client
  live,           \* Callid_to_callobj still has the call
  doing           \* callobj.client_doing, None when undefined

serverVars == <<toServer, fromServer, live, doing>>

None == "none"

ASSUME KeysAssumption == Keys \cap {None, "timeout"} = {}

\* Commands that check_todo_telephony lets through one at a time, and the
\* type of the message that answers each, in success and in failure.
Answered == {"PLAY", "PLAYDIG", "GETDIG", "RECORD", "TRANSFER", "RETURNVAR",
             "HANGUP"}
CommandTypes == Answered \cup {"RELEASE"}

AnswerType(type) ==
  CASE type = "PLAY"      -> "PLAYED"
    [] type = "PLAYDIG"   -> "PLAYEDDIG"
    [] type = "GETDIG"    -> "GOTDIG"
    [] type = "RECORD"    -> "RECORDED"
    [] type = "TRANSFER"  -> "TRANSFERED"
    [] type = "RETURNVAR" -> "RETURNEDVAR"
    [] type = "HANGUP"    -> "HUNGUP"
    [] type = "RELEASE"   -> "RELEASED"

\* A TRANSFER that is refused is answered as a BRIDGE would be; a RELEASE that
\* is refused is answered with the number of the command itself.
RefusalType(type) ==
  CASE type = "TRANSFER" -> "BRIDGED"
    [] type = "RELEASE"  -> "RELEASE"
    [] OTHER             -> AnswerType(type)

\* The refusals whose message names the call; the others go out with callid 0.
NamesCall(type) ==
  type \in {"HUNGUP", "PLAYED", "RECORDED", "GOTDIG", "PLAYEDDIG", "BRIDGED",
            "TRANSFERED"}

MessageTypes == {"PLAYED", "PLAYEDDIG", "GOTDIG", "RECORDED", "TRANSFERED",
                 "RETURNEDVAR", "HUNGUP", "RELEASED", "BRIDGED", "RELEASE"}

\* A GOTDIG carries a timeout or at most one key (the client asks for max_dig
\* 1): key is None when there is none.
Message(type, known, ok, key) ==
  [type |-> type, known |-> known, ok |-> ok, key |-> key]

Messages ==
  {m \in [type : MessageTypes, known : BOOLEAN, ok : BOOLEAN,
          key : Keys \cup {None, "timeout"}] :
     m.type = "GOTDIG" /\ m.ok => m.key # None}

\* How the result handlers can answer a command that was started.
Results(type) ==
  IF type = "GETDIG"
  THEN {Message("GOTDIG", TRUE, TRUE, k) : k \in Keys \cup {"timeout"}}
         \cup {Message("GOTDIG", TRUE, FALSE, None)}
  ELSE {Message(AnswerType(type), TRUE, ok, None) : ok \in BOOLEAN}

ServerInit ==
  /\ toServer = <<>>
  /\ fromServer = <<>>
  /\ live = TRUE
  /\ doing = None

\* A command the call is free to carry out: client_doing is set and the AGI
\* client is told.
Accept ==
  /\ toServer # <<>>
  /\ Head(toServer).type \in Answered
  /\ live
  /\ doing = None
  /\ doing' = Head(toServer).type
  /\ toServer' = Tail(toServer)
  /\ UNCHANGED <<fromServer, live>>

\* A command for a call that is gone or busy is answered at once with an
\* error.  send_ct_server_msg forgets client_doing whenever the message it
\* sends names a call, also when it is refusing a second command.
Refuse ==
  LET type    == Head(toServer).type
      refusal == RefusalType(type)
  IN
  /\ toServer # <<>>
  /\ \/ ~live
     \/ type # "RELEASE" /\ doing # None
  /\ toServer' = Tail(toServer)
  /\ fromServer' = Append(fromServer,
                          Message(refusal, NamesCall(refusal), FALSE, None))
  /\ doing' = IF NamesCall(refusal) THEN None ELSE doing
  /\ UNCHANGED live

\* A RELEASE of a call that exists drops the AGI connection, and with it the
\* callobj, whatever the call is doing.
Release ==
  /\ toServer # <<>>
  /\ Head(toServer).type = "RELEASE"
  /\ live
  /\ toServer' = Tail(toServer)
  /\ fromServer' = Append(fromServer, Message("RELEASED", TRUE, TRUE, None))
  /\ live' = FALSE
  /\ doing' = None

\* The AGI result of the command in progress arrives.  A HANGUP has no answer
\* of its own: the AGI client finishes and HangUp reports it.
Complete ==
  /\ live
  /\ doing \in Answered \ {"HANGUP"}
  /\ \E m \in Results(doing) : fromServer' = Append(fromServer, m)
  /\ doing' = None
  /\ UNCHANGED <<toServer, live>>

\* The AGI client of the call finishes: the caller hung up, a result of -1 was
\* read, or a HANGUP was carried out.  HUNGUP is sent and the callobj deleted.
HangUp ==
  /\ live
  /\ fromServer' = Append(fromServer, Message("HUNGUP", TRUE, TRUE, None))
  /\ live' = FALSE
  /\ doing' = None
  /\ UNCHANGED toServer

ServerStep == Accept \/ Refuse \/ Release \/ Complete \/ HangUp
=============================================================================
