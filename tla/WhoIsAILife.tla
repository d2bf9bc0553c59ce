---------------------------- MODULE WhoIsAILife ----------------------------
(***************************************************************************)
(* The rules of "Who is AI" keep to the life of a game that the server's   *)
(* other parts rely on: WhoIsAI implements GameLife, the people being      *)
(* ordered by their seats.                                                 *)
(***************************************************************************)
EXTENDS WhoIsAI

\* humanPlayers: the people in the order of the table.
Ahead == {pair \in people \X people : position[pair[1]] < position[pair[2]]}

Life == INSTANCE GameLife WITH ahead <- Ahead

\* Whatever is called in whatever order, a room opens, fills, plays and ends as
\* GameLife says: only the first of the people online or, in a mode with a debug
\* panel, somebody seated starts a game, nobody gains or loses a seat in a game
\* that is on but by the host's reset or rematch, and only a vote ends it.
KeepsLife == Life!Spec
=============================================================================
