-------------------------------- MODULE Simon --------------------------------
(***************************************************************************)
(* The game the server ships (server_daemon, class EXAMPLE_Simon) played   *)
(* in a chat room: the controller's state, its handlers, and the commands  *)
(* through which members drive the room and the game.  One step is one     *)
(* packet, processed to the end by the server's game loop.                 *)
(*                                                                         *)
(* Room gives the room's own operations with an arbitrary controller;      *)
(* RoomRefinement says that this one is such a controller.                 *)
(*                                                                         *)
(* Simon's message is abstracted to whether an answer repeats it.          *)
(***************************************************************************)
EXTENDS RoomState

VARIABLES
    room, kicks, call,  \* as in Room
    listed,     \* the room is in the server's _roomid_to_room
    simon,      \* _simon
    incomplete, \* _incomplete: who has not repeated this round's message yet
    crashed,    \* a null pointer was dereferenced or an exception left the loop
    repeated    \* history: who has repeated this round's message correctly

game_vars == <<simon, incomplete, repeated>>

vars == <<room, kicks, call, listed, simon, incomplete, crashed, repeated>>

\* The room, born without a game; nothing in the server calls the two setters
\* of limits.
R == INSTANCE Room WITH GameStartedAtBirth <- {FALSE}, Limits <- {}

Nobody == NoOwner

Init ==
    /\ R!Init
    /\ listed = TRUE
    /\ simon = Nobody
    /\ incomplete = {}
    /\ crashed = FALSE
    /\ repeated = {}

\* The loop is alive and between two packets.
Running == ~crashed /\ R!Idle

active_game == room.game /\ room.game_started

-----------------------------------------------------------------------------
(* Parts of the controller's handlers.  An outcome is the room that is left *)
(* behind, and whether the handler got that far without a null pointer.     *)

Outcome(r, ok) == [room |-> r, ok |-> ok]

\* simon_name() dereferences what find_player gives for _simon.
simon_name_ok(r) == simon \in players(r)

\* With two players left a win is counted (statistics are not modelled) and the
\* game goes on.
check_win(r) ==
    CASE active_player_count(r) # 1 -> Outcome(r, TRUE)
      [] active_player_count(r) = 1 /\ simon_name_ok(r) -> Outcome(end_game(r), TRUE)
      [] active_player_count(r) = 1 /\ ~simon_name_ok(r) -> Outcome(r, FALSE)

\* The loop visits `_incomplete` in the order of the ids and stops dead at the
\* first one that is not an active player of the room any more.
end_round(r) ==
    IF incomplete \subseteq players(r)
    THEN {check_win(disqualify_player(r, incomplete))}
    ELSE { Outcome(disqualify_player(r, S), FALSE) :
             S \in SUBSET (incomplete \cap players(r)) }

\* Mutant: the list of the previous round is not cleared.
next_round_uncleared(r) ==
    /\ incomplete' = incomplete \cup (players(r) \ {simon})
    /\ repeated' = {}
    /\ crashed' = ~simon_name_ok(r)

next_round(r) ==
    /\ incomplete' = players(r) \ {simon}
    /\ repeated' = {}
    /\ crashed' = ~simon_name_ok(r)

-----------------------------------------------------------------------------
(* Messages, while a game is active.  Everything else a member may say has  *)
(* no effect on the state.                                                  *)

\* Simon said.
SimonSays ==
    /\ Running /\ active_game
    /\ simon \in players(room)
    /\ \E out \in end_round(room) :
          /\ room' = out.room
          /\ \/ /\ out.ok /\ out.room.game_started
                /\ next_round(out.room)
             \/ /\ ~(out.ok /\ out.room.game_started)
                /\ crashed' = ~out.ok
                /\ UNCHANGED <<incomplete, repeated>>
    /\ UNCHANGED <<kicks, listed, simon>>
    /\ R!Called("game", Nobody, "nothing")

\* A player repeated the message.
RightAnswer(u) ==
    /\ Running /\ active_game
    /\ u \in players(room) /\ u # simon /\ u \in incomplete
    /\ incomplete' = incomplete \ {u}
    /\ repeated' = repeated \cup {u}
    /\ UNCHANGED <<room, kicks, listed, simon, crashed>>
    /\ R!Called("game", Nobody, "nothing")

\* A player made a typo.
WrongAnswer(u) ==
    /\ Running /\ active_game
    /\ u \in players(room) /\ u # simon /\ u \in incomplete
    /\ LET out == check_win(disqualify_player(room, {u}))
       IN  /\ room' = out.room
           /\ crashed' = ~out.ok
           /\ incomplete' = IF out.ok THEN incomplete \ {u} ELSE incomplete
    /\ UNCHANGED <<kicks, listed, simon, repeated>>
    /\ R!Called("game", Nobody, "nothing")

-----------------------------------------------------------------------------
(* The owner's commands. *)

\* Mutant: the game that is being played is not ended.
load_unended ==
    /\ Running
    /\ room.owner # Nobody
    /\ room' = [room EXCEPT !.game = TRUE]
    /\ simon' = room.owner
    /\ incomplete' = {}
    /\ repeated' = {}
    /\ UNCHANGED <<kicks, listed, crashed>>
    /\ R!Called("load_game", Nobody, "nothing")

\* /load: a new controller replaces the old one; its Simon is the owner.
load ==
    /\ Running
    /\ room.owner # Nobody
    /\ LET ended == IF active_game THEN end_game(room) ELSE room
       IN  room' = [ended EXCEPT !.game = TRUE]
    /\ simon' = room.owner
    /\ incomplete' = {}
    /\ repeated' = {}
    /\ UNCHANGED <<kicks, listed, crashed>>
    /\ R!Called("load_game", Nobody, "nothing")

\* /start: when the controller's start() throws, the exception is reported to
\* the owner and the room stays in the state it had reached.
start ==
    LET begun == begin_game(room)
        too_few == player_count(begun) < 3
        no_simon == ~too_few /\ simon \notin players(begun)
    IN  /\ Running
        /\ room.owner # Nobody /\ room.game
        /\ room' = begun
        /\ simon' = IF no_simon THEN room.owner ELSE simon
        /\ incomplete' = IF too_few \/ no_simon THEN incomplete ELSE {}
        /\ repeated' = IF too_few \/ no_simon THEN repeated ELSE {}
        /\ UNCHANGED <<kicks, listed, crashed>>
        /\ R!Called("start_game", Nobody, "nothing")

\* /end
end ==
    /\ Running
    /\ room.owner # Nobody /\ room.game
    /\ room' = end_game(room)
    /\ UNCHANGED <<kicks, listed, crashed, game_vars>>
    /\ R!Called("end_game", Nobody, "nothing")

\* /option simon u
on_option_change(u) ==
    /\ Running
    /\ room.owner # Nobody /\ room.game
    /\ u \in players(room)
    /\ simon' = u
    /\ UNCHANGED <<room, kicks, listed, crashed, incomplete, repeated>>
    /\ R!Called("game", Nobody, "nothing")

-----------------------------------------------------------------------------
(* Members come and go. *)

on_player_quit(r, u) == IF u = simon THEN end_game(r) ELSE r

\* Room::remove_user for a member u, with this controller.
remove_user(u) ==
    \E was_player \in seen_as_player(room, u) :
        LET detached == detach(room, u)
            notified == IF active_game /\ was_player
                        THEN on_player_quit(detached, u) ELSE detached
        IN  room' \in settle(notified, u)

\* /create, and /join by users who are in no room.
Join(u) ==
    /\ Running
    /\ listed
    /\ members(room) # {} \/ call.op = "Room"
    /\ u \notin members(room)
    /\ R!add_user(u, "AS_PLAYER_WAITING")
    /\ UNCHANGED <<listed, crashed, game_vars>>

\* /leave or a disconnection of an active player: without players the room is
\* destroyed, and an exception nobody catches is thrown if it already was.
Leave(u) ==
    /\ Running
    /\ u \in players(room)
    /\ remove_user(u)
    /\ listed' = (listed /\ players(room') # {})
    /\ crashed' = (~listed /\ players(room') = {})
    /\ UNCHANGED <<kicks, game_vars>>
    /\ R!Called("remove_user", u, "nothing")

\* /kick u, by the owner.
Kick(u) ==
    /\ Running
    /\ u \in members(room) /\ u # room.owner
    /\ remove_user(u)
    /\ UNCHANGED <<kicks, listed, crashed, game_vars>>
    /\ R!Called("remove_user", u, "nothing")

\* After a crash there is no server; an empty room is not used again.
Over ==
    /\ crashed \/ (members(room) = {} /\ call.op # "Room")
    /\ UNCHANGED vars

Next ==
    \/ SimonSays
    \/ \E u \in User :
          \/ RightAnswer(u) \/ WrongAnswer(u) \/ on_option_change(u)
          \/ Join(u) \/ Leave(u) \/ Kick(u)
    \/ load \/ start \/ end
    \/ Over

Spec == Init /\ [][Next]_vars

-----------------------------------------------------------------------------
(* Properties. *)

\* EXAMPLE_Simon only uses the room the way Room lets any controller use it, so
\* that everything shown of Room holds of a room in which Simon is played.
RoomRefinement == R!Spec

\* Whoever has repeated Simon's message is safe until Simon speaks again, however
\* the others answer, leave, come back or are kicked; and nobody whom end_round
\* will look up among the active players, because it has not answered yet, is a
\* disqualified one.
RoundIsFair ==
    ~crashed => \A u \in repeated \cup incomplete : ~room.disqualified[u]

\* A disqualification does not outlive its game: the members it hides are
\* players again once the game is over, whichever way it ended.
DisqualifiedOnlyInGame ==
    \A u \in User : room.disqualified[u] => active_game

\* The inductive strengthening of the two invariants above: nobody is both still
\* to answer and already safe, and the room is one that Room's handlers accept.
SimonInvariant ==
    /\ Sound(room) /\ Owned(room)
    /\ kicks = {} /\ ~room.fault
    /\ room.game_started => room.game
    /\ incomplete \subseteq User /\ repeated \subseteq User
    /\ incomplete \cap repeated = {}
    /\ RoundIsFair
    /\ DisqualifiedOnlyInGame
=============================================================================
