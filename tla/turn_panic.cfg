SPECIFICATION FairTurnsSpec
CONSTANTS
 Last = 2
 Prompting = {1}
 MayBeUnused = FALSE
 MayGiveUp = FALSE
 LineRoom = 1
 QueueRoom = 2
 EventRoom = 1
 Unnamed = Unnamed
INVARIANT PumpNeverPanics
CHECK_DEADLOCK FALSE
