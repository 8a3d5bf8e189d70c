----------------------------- MODULE MCSessions -----------------------------
(***************************************************************************)
(* A small instance of SessionStore: the house is the game's PDA.          *)
(***************************************************************************)
EXTENDS SessionStore

CONSTANTS House, Game

MCProgramOf == [p \in Pdas |-> Game]

=============================================================================
