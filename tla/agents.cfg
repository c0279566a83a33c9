SPECIFICATION AgentsSpec
CONSTANTS
 a1 = a1 t1 = t1 h0 = h0 q1 = q1
 Turn = Turn
 Entries = {"query", "client", "unused"}
 UserTurns = 1
 MaxSpoken = 1
 Requests = {h0, q1}
 Handshake = h0
 Asks = {a1}
 Patient = {a1}
 Tasks = {t1}
 TurnsMeet = FALSE
 Room = 1
 Buffer = 1
 Last = 2
 Prompting = {1}
 MayGiveUp = FALSE
 MayBeUnused = TRUE
 LineRoom = 1
 QueueRoom = 2
 EventRoom = 1
 Unnamed = Unnamed
INVARIANTS
  NoRequestForgotten  
  OwnTurn
PROPERTIES QueryEnds CloseEnds WithdrawnEnds StreamEnds CloseIsDone
CHECK_DEADLOCK FALSE
