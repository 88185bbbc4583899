-------------------------------- MODULE Room --------------------------------
(***************************************************************************)
(* One chat room driven through the public interface of class Room by the  *)
(* server's single game loop, with an arbitrary game controller loaded in  *)
(* it.  A step is one call of a public method, the controller's handlers   *)
(* it triggers included; the exception is set_spectator_limit, whose loop  *)
(* removes one member per step (kicks holds the members still to remove).  *)
(***************************************************************************)
EXTENDS RoomState

CONSTANTS
    GameStartedAtBirth, \* the values the uninitialised _game_started may have
    Limits              \* the limits passed to set_player_limit and set_spectator_limit

ASSUME CallConstants ==
    /\ GameStartedAtBirth \subseteq BOOLEAN
    /\ Limits \subseteq Nat

VARIABLES
    room,   \* the Room object
    kicks,  \* set_spectator_limit's local `remove`, while its loop runs
    call    \* the last call: method, its user or limit, what it threw

vars == <<room, kicks, call>>

NoUser == NoOwner

Call == [op     : {"Room", "remove_user", "flush_waitlist", "set_player_limit",
                   "set_spectator_limit", "set_owner", "load_game", "start_game",
                   "end_game", "game"} \cup Method,
         user   : User \cup {NoUser},
         limit  : Limits \cup {0},
         thrown : {"nothing", "ROOM_FULL", "NOT_ALLOWED_DURING_GAME",
                   "NOT_ALLOWED_OPTION", "REQUIRES_GAME"}]

Called(op, u, thrown) ==
    call' = [op |-> op, user |-> u, limit |-> 0, thrown |-> thrown]

CalledWith(op, limit, thrown) ==
    call' = [op |-> op, user |-> NoUser, limit |-> limit, thrown |-> thrown]

Init ==
    /\ \E started \in GameStartedAtBirth : room = new_room(started)
    /\ kicks = {}
    /\ call = [op |-> "Room", user |-> NoUser, limit |-> 0, thrown |-> "nothing"]

\* The server's loop is between two calls, and nothing undefined has happened.
Idle == kicks = {} /\ ~room.fault

\* A handler of the controller runs: through a null _game, or with at most one
\* call back into the room.
handler_outcomes(r) ==
    IF r.game THEN environment_calls(r, Limits) ELSE {undefined(r)}

-----------------------------------------------------------------------------

add_user(u, method) ==
    LET status == join_status(room, u, method)
    IN  /\ Idle
        /\ UNCHANGED kicks
        /\ \/ /\ status \in Status
              /\ room' = admit(room, u, status)
              /\ Called(method, u, "nothing")
           \/ /\ status \notin Status
              /\ UNCHANGED room
              /\ Called(method, u, status)

\* _remove_user for a member u: the controller hears of it when the freed
\* Member still looks like a player during a game.
RemoveMember(u) ==
    \E was_player \in seen_as_player(room, u) :
        \E notified \in (IF detach(room, u).game_started /\ was_player
                         THEN handler_outcomes(detach(room, u))
                         ELSE {detach(room, u)}) :
            room' \in settle(notified, u)

remove_user(u) ==
    /\ Idle
    /\ u \in members(room)
    /\ RemoveMember(u)
    /\ UNCHANGED kicks
    /\ Called("remove_user", u, "nothing")

FlushWaitlist ==
    /\ Idle
    /\ room' \in flush_waitlist(room)
    /\ UNCHANGED kicks
    /\ Called("flush_waitlist", NoUser, "nothing")

SetPlayerLimit(limit) ==
    /\ Idle
    /\ room' \in set_player_limit(room, limit)
    /\ UNCHANGED kicks
    /\ CalledWith("set_player_limit", limit,
                  IF limit < 1 THEN "NOT_ALLOWED_OPTION" ELSE "nothing")

\* The members picked for removal are the ones with is_player().
SetSpectatorLimit(limit) ==
    LET overflow == spectator_count(room) - limit
        remove == {u \in members(room) : is_player(room, u)}
    IN  /\ Idle
        /\ CalledWith("set_spectator_limit", limit, "nothing")
        /\ \/ /\ overflow <= 0
              /\ UNCHANGED <<room, kicks>>
           \/ /\ overflow > Cardinality(remove)
              /\ room' = undefined(room)
              /\ UNCHANGED kicks
           \/ /\ overflow > 0 /\ overflow <= Cardinality(remove)
              /\ kicks' \in first(room, remove, overflow)
              /\ UNCHANGED room

\* One iteration of set_spectator_limit's removal loop.
KickNext ==
    /\ ~room.fault
    /\ \E u \in begin(room, kicks) :
          /\ RemoveMember(u)
          /\ kicks' = kicks \ {u}
          /\ Called("set_spectator_limit", u, "nothing")

set_owner(u) ==
    /\ Idle
    /\ u \in members(room)
    /\ room' = [room EXCEPT !.owner = u]
    /\ UNCHANGED kicks
    /\ Called("set_owner", u, "nothing")

\* initialize() of the new controller runs at the end.
load_game ==
    /\ Idle
    /\ LET ended == IF room.game /\ room.game_started THEN end_game(room) ELSE room
       IN  room' \in handler_outcomes([ended EXCEPT !.game = TRUE])
    /\ UNCHANGED kicks
    /\ Called("load_game", NoUser, "nothing")

\* A start() that throws leaves the same rooms behind as one that returns:
\* nothing is undone.
start_game ==
    /\ Idle
    /\ UNCHANGED kicks
    /\ \/ /\ ~room.game
          /\ UNCHANGED room
          /\ Called("start_game", NoUser, "REQUIRES_GAME")
       \/ /\ room.game
          /\ room' \in handler_outcomes(begin_game(room))
          /\ Called("start_game", NoUser, "nothing")

EndGame ==
    /\ Idle
    /\ room' = end_game(room)
    /\ UNCHANGED kicks
    /\ Called("end_game", NoUser, "nothing")

\* update_game, process_message and process_command hand over to the controller
\* while a game is active; game_option does so whenever a game is loaded.
game ==
    /\ Idle
    /\ room.game_started \/ room.game
    /\ room' \in handler_outcomes(room)
    /\ UNCHANGED kicks
    /\ Called("game", NoUser, "nothing")

\* After undefined behaviour the model says nothing more.
Halted == room.fault /\ UNCHANGED vars

Next ==
    \/ \E u \in User, method \in Method : add_user(u, method)
    \/ \E u \in User : remove_user(u) \/ set_owner(u)
    \/ \E limit \in Limits : SetPlayerLimit(limit) \/ SetSpectatorLimit(limit)
    \/ KickNext
    \/ FlushWaitlist
    \/ load_game
    \/ start_game
    \/ EndGame
    \/ game
    \/ Halted

Spec == Init /\ [][Next]_vars

-----------------------------------------------------------------------------
(* Properties. *)

\* Types of the room, of the local list of set_spectator_limit and of the log
\* of the last call; the count of disqualified players never goes negative.
TypeOK ==
    /\ room \in RoomRecord
    /\ room.players_disqualified \in Nat
    /\ kicks \in SUBSET User
    /\ call \in Call

\* What `_cached_add` and `_cached_remove` are for: whatever sequence of calls
\* was made, the four cached sets and the counter are exactly the views of
\* `_members` they stand for (Room.hpp: "without leaving an inconsistent
\* state").
CachesMatchMembers == Consistent(room)

\* Room.hpp, owner(): "This will be nullptr when the room is empty"; and a
\* room with members has one of them as its owner, so that `_owner` never
\* dangles.
OwnerIsMember == Owned(room)

\* However joins, leaves, waitlist flushes, disqualifications and resets are
\* interleaved, player_count() stays within player_limit().
PlayersWithinLimit == WithinLimit(room)

\* spectator_count() is a size_t subtraction that never wraps around.
SpectatorCountNeverWraps == spectator_count(room) >= 0

\* `_game` is dereferenced without a check wherever is_game_active() holds:
\* an active game is a loaded one.
ActiveGameIsLoaded == room.game_started => room.game

\* The inductive strengthening of the invariants above: the members that
\* set_spectator_limit has still to remove are in the room.
RoomInvariant ==
    /\ Sound(room)
    /\ Owned(room)
    /\ kicks \subseteq members(room)
    /\ call \in Call

\* When a step promotes waitlisted members, nobody it leaves on the waitlist
\* joined before somebody it promotes (flush_waitlist queues them in the order
\* of the set).
WaitlistIsFair ==
    [][ \A u, v \in User :
          /\ call'.op \notin Method
          /\ is_waitlisted(room, u) /\ room'.status[u] = PLAYER
          /\ is_waitlisted(room, v) /\ room'.status[v] = PLAYER_WAITLIST
          => precedes(room, u, v) ]_vars

\* Room.hpp, flush_waitlist(): "This will do nothing during a game."  Nobody
\* moves from the waitlist into a running game except by joining again.
NoPromotionDuringGame ==
    [][ \A u \in User :
          /\ room.game_started /\ room'.game_started
          /\ is_waitlisted(room, u)
          => room'.status[u] # PLAYER \/ (call'.op \in Method /\ call'.user = u) ]_vars

\* The owner only changes because somebody asked for it (set_owner), because
\* the room was empty, or because the owner left; in that last case the member
\* who has been in the room the longest takes over.
OwnerSuccession ==
    [][ room'.owner # room.owner =>
          \/ room.owner = NoOwner
          \/ call'.op = "set_owner"
          \/ /\ room'.status[room.owner] = ABSENT
             /\ \A v \in members(room') \ {room'.owner} :
                  precedes(room, room'.owner, v) ]_vars
=============================================================================
