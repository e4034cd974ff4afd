CONSTANTS
  Keys = {"1", "m"}
  Signals = {"m"}
  Commands <- TestCommands
  MaxCommands = 3
  MaxSignals = 2
SPECIFICATION Spec
CHECK_DEADLOCK FALSE
INVARIANTS TypeOK AgiInStep SignalsHeard
PROPERTIES KeepsSatcCall HungUpTruly CommandsAnswered
