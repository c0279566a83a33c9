------------------------------ MODULE MCAgents -----------------------------
(***************************************************************************)
(* mohae's clients of the two agents share no state: one of them is used   *)
(* in a behaviour, and the other is not.                                   *)
(***************************************************************************)
EXTENDS ClaudeEngine, CodexTurns

CONSTANTS a1, t1, h0, q1

AgentsInit == EngineInit /\ TurnsInit /\ (Used <=> closing = "unused")

AgentsNext ==
    \/ EngineNext /\ UNCHANGED turnsVars
    \/ TurnsNext /\ UNCHANGED engineVars

AgentsSpec ==
    /\ AgentsInit /\ [][AgentsNext]_<<engineVars, turnsVars>>
    /\ EngineFairness /\ TurnsFairness
============================================================================
