-------------------------- MODULE MCPhoneglueCall --------------------------
(* One call, one key "1" and one signal "m", a command of every kind.       *)
EXTENDS PhoneglueCall

Cmd(type, stopkeys, files, from) ==
  [type |-> type, stopkeys |-> stopkeys, files |-> files, from |-> from]

Play     == Cmd("PLAY", {"1", "m"}, 2, FALSE)
Getdig   == Cmd("GETDIG", {"1", "m"}, 0, FALSE)
Record   == Cmd("RECORD", {"1"}, 0, FALSE)
Playdig  == Cmd("PLAYDIG", {}, 0, FALSE)
Transfer == Cmd("TRANSFER", {}, 0, FALSE)
TransferFrom == Cmd("TRANSFER", {}, 0, TRUE)
Returnvar == Cmd("RETURNVAR", {}, 0, FALSE)
Hangup   == Cmd("HANGUP", {}, 0, FALSE)
ReleaseIt == Cmd("RELEASE", {}, 0, FALSE)

TestCommands == {Play, Getdig, Record, Playdig, Transfer, TransferFrom,
                 Returnvar, Hangup, ReleaseIt}
=============================================================================
