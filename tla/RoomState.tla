------------------------------ MODULE RoomState ------------------------------
(***************************************************************************)
(* The state of one chat room (module/chat, class Room) and the effect of  *)
(* each of its methods, as operators on a room record.  The operators have *)
(* no variables, so the state machine of one room (Room) and the machines  *)
(* that hold several rooms share them.                                     *)
(*                                                                         *)
(* `_members` is a map from user ids to Member objects.  It is represented *)
(* by status (ABSENT when the map has no entry), disqualified and          *)
(* joined_before: joined_before[u] is the set of members whose `_since`    *)
(* timestamp is smaller than u's.  Only the order of the timestamps is     *)
(* observable, because MemberPtr compares `_since` and nothing else.       *)
(***************************************************************************)
EXTENDS Integers, FiniteSets

CONSTANTS
    User,               \* the users that may ever be members of the room
    NoOwner,            \* the null _owner pointer
    PlayerLimit,        \* _player_limit (8 in the code; no method assigns it)
    SpectatorLimit,     \* _spectator_limit (12 in the code; never assigned)
    SizeT,              \* 2^w, the number of values of size_t
    FreedMemoryIntact   \* TRUE: a freed Member still holds its old bytes

ASSUME RoomConstants ==
    /\ IsFiniteSet(User)
    /\ NoOwner \notin User
    /\ PlayerLimit \in Nat \ {0}
    /\ SpectatorLimit \in Nat
    /\ SizeT \in Nat /\ SizeT > SpectatorLimit
    /\ FreedMemoryIntact \in BOOLEAN

ABSENT == "ABSENT"
PLAYER == "PLAYER"
PLAYER_WAITLIST == "PLAYER_WAITLIST"
SPECTATOR == "SPECTATOR"

Status == {PLAYER, PLAYER_WAITLIST, SPECTATOR}

\* How a user asks to join.
Method == {"AS_PLAYER", "AS_SPECTATOR", "AS_PLAYER_WAITING"}

RoomRecord ==
    [ status        : [User -> Status \cup {ABSENT}],
      disqualified  : [User -> BOOLEAN],
      joined_before : [User -> SUBSET User],
      owner         : User \cup {NoOwner},
      cached_users                : SUBSET User,
      cached_players              : SUBSET User,
      cached_spectators           : SUBSET User,
      cached_users_as_spectators  : SUBSET User,
      players_disqualified        : Int,
      game          : BOOLEAN,     \* _game # nullptr
      game_started  : BOOLEAN,
      fault         : BOOLEAN ]    \* undefined behaviour was executed

\* A room as the constructor leaves it.  The constructor does not assign
\* _game_started, whose value is therefore a parameter.
new_room(started) ==
    [ status        |-> [u \in User |-> ABSENT],
      disqualified  |-> [u \in User |-> FALSE],
      joined_before |-> [u \in User |-> {}],
      owner         |-> NoOwner,
      cached_users                |-> {},
      cached_players              |-> {},
      cached_spectators           |-> {},
      cached_users_as_spectators  |-> {},
      players_disqualified        |-> 0,
      game          |-> FALSE,
      game_started  |-> started,
      fault         |-> FALSE ]

-----------------------------------------------------------------------------
(* Queries. *)

members(r) == {u \in User : r.status[u] # ABSENT}

is_player(r, u) == r.status[u] = PLAYER
is_spectator(r, u) == r.status[u] \in {SPECTATOR, PLAYER_WAITLIST}
is_waitlisted(r, u) == r.status[u] = PLAYER_WAITLIST

player_count(r) == Cardinality(r.cached_players) + r.players_disqualified
active_player_count(r) == Cardinality(r.cached_players)
spectator_count(r) == Cardinality(r.cached_spectators) - r.players_disqualified

\* find_player, find_spectator and find_user search these sets.
players(r) == r.cached_players
spectators(r) ==
    IF r.game_started THEN r.cached_spectators ELSE r.cached_users_as_spectators

\* size_t subtraction wraps around.
size_t(n) == n % SizeT

\* u precedes v in a std::set<MemberPtr>.
precedes(r, u, v) == u \in r.joined_before[v]

\* *S.begin(): as a set, empty when S is.
begin(r, S) == {u \in S : \A v \in S \ {u} : precedes(r, u, v)}

\* The first n elements of S in iteration order (all of S when it is smaller).
first(r, S, n) ==
    { P \in SUBSET S :
        /\ Cardinality(P) = IF n <= 0 THEN 0
                            ELSE IF n < Cardinality(S) THEN n ELSE Cardinality(S)
        /\ \A u \in P, v \in S \ P : precedes(r, u, v) }

-----------------------------------------------------------------------------
(* The caches and MemberGuard.  A loop that guards one member per iteration *)
(* is the same operation on the set of the members it visits: an iteration  *)
(* only touches the entries of its own member.                              *)

\* Mutant: the view that spectators() gives outside of games is forgotten.
cached_remove_one_view_kept(r, S) ==
    [r EXCEPT
      !.cached_users = @ \ S,
      !.players_disqualified = @ - Cardinality({u \in S : r.disqualified[u]}),
      !.cached_spectators = @ \ {u \in S : is_spectator(r, u) \/ r.disqualified[u]},
      !.cached_players = @ \ {u \in S : is_player(r, u) /\ ~r.disqualified[u]}]

cached_remove(r, S) ==
    LET disq == {u \in S : r.disqualified[u]}
        spec == {u \in S : is_spectator(r, u)}
        play == {u \in S : is_player(r, u)}
    IN  [r EXCEPT
          !.cached_users = @ \ S,
          !.cached_users_as_spectators = @ \ S,
          !.players_disqualified = @ - Cardinality(disq),
          !.cached_spectators = @ \ (spec \cup disq),
          !.cached_players = @ \ (play \ disq)]

\* Mutant: a disqualified member is not counted when it is put back.
cached_add_uncounted(r, S) ==
    [r EXCEPT
      !.cached_users = @ \cup S,
      !.cached_users_as_spectators = @ \cup S,
      !.cached_spectators = @ \cup {u \in S : is_spectator(r, u) \/ r.disqualified[u]},
      !.cached_players = @ \cup {u \in S : is_player(r, u) /\ ~r.disqualified[u]}]

\* Mutant: a disqualified member is counted but not listed as a spectator.
cached_add_disqualified_hidden(r, S) ==
    [r EXCEPT
      !.cached_users = @ \cup S,
      !.cached_users_as_spectators = @ \cup S,
      !.players_disqualified = @ + Cardinality({u \in S : r.disqualified[u]}),
      !.cached_spectators = @ \cup {u \in S : is_spectator(r, u) /\ ~r.disqualified[u]},
      !.cached_players = @ \cup {u \in S : is_player(r, u) /\ ~r.disqualified[u]}]

cached_add(r, S) ==
    LET disq == {u \in S : r.disqualified[u]}
        spec == {u \in S : is_spectator(r, u)}
        play == {u \in S : is_player(r, u)}
    IN  [r EXCEPT
          !.cached_users = @ \cup S,
          !.cached_users_as_spectators = @ \cup S,
          !.players_disqualified = @ + Cardinality(disq),
          !.cached_spectators = @ \cup (spec \cup disq),
          !.cached_players = @ \cup (play \ disq)]

assign_status(r, S, status) ==
    [r EXCEPT !.status = [u \in User |-> IF u \in S THEN status ELSE @[u]]]

assign_disqualified(r, S, flag) ==
    [r EXCEPT !.disqualified = [u \in User |-> IF u \in S THEN flag ELSE @[u]]]

\* { MemberGuard guard(this, *m); m->status = status; }
guarded_status(r, S, status) ==
    cached_add(assign_status(cached_remove(r, S), S, status), S)

\* { MemberGuard guard(this, *m); m->disqualified = flag; }
guarded_disqualified(r, S, flag) ==
    cached_add(assign_disqualified(cached_remove(r, S), S, flag), S)

undefined(r) == [r EXCEPT !.fault = TRUE]

-----------------------------------------------------------------------------
(* Methods a game controller may call back (interface Environment).  Every  *)
(* operator below that can end in more than one way yields the set of the   *)
(* rooms it can leave behind.                                               *)

\* disqualify_player, called for each of the members S.
disqualify_player(r, S) ==
    guarded_disqualified(r, {u \in S : is_player(r, u)}, TRUE)

reset_players(r) ==
    guarded_disqualified(r, {u \in members(r) : r.disqualified[u]}, FALSE)

\* Mutant: the disqualified stay so.
end_game_unreset(r) == [r EXCEPT !.game_started = FALSE]

end_game(r) == [reset_players(r) EXCEPT !.game_started = FALSE]

\* start_game up to the call of the controller's start().
begin_game(r) == [reset_players(r) EXCEPT !.game_started = TRUE]

\* std::next runs past the end when disqualified players make the overflow
\* larger than the set it indexes.
set_player_limit(r, limit) ==
    LET overflow == player_count(r) - limit
    IN  CASE limit < 1 \/ overflow <= 0 -> {r}
          [] limit >= 1 /\ overflow > Cardinality(r.cached_players) -> {undefined(r)}
          [] OTHER -> { guarded_status(r, P, PLAYER_WAITLIST) :
                          P \in first(r, r.cached_players, overflow) }

\* What a controller may have done to the room when one of its handlers
\* returns: it has disqualified some members, or made at most one of the other
\* state-changing calls of Environment.  (Disqualifications before reset_players,
\* end_game or start_game are undone by these.)  A restart's own start() is taken
\* to make no further call.
environment_calls(r, limits) ==
    {r, reset_players(r), begin_game(r), end_game(r)}
        \cup { disqualify_player(r, S) : S \in SUBSET members(r) }
        \cup UNION { set_player_limit(r, l) : l \in limits }

-----------------------------------------------------------------------------
(* Membership. *)

\* _spectator_limit and _player_limit decide; AS_PLAYER_WAITING is the
\* default.  The result is the status to give, or the exception to throw.
join_status(r, u, method) ==
    LET current_players == player_count(r) - (IF u \in players(r) THEN 1 ELSE 0)
        current_spectators ==
            size_t(spectator_count(r) - (IF u \in spectators(r) THEN 1 ELSE 0))
        room_for_player == current_players < PlayerLimit
        room_for_spectator == current_spectators < SpectatorLimit
    IN  CASE method = "AS_PLAYER" ->
               (CASE ~room_for_player -> "ROOM_FULL"
                  [] room_for_player /\ r.game_started -> "NOT_ALLOWED_DURING_GAME"
                  [] OTHER -> PLAYER)
          [] method = "AS_SPECTATOR" ->
               (IF room_for_spectator THEN SPECTATOR ELSE "ROOM_FULL")
          [] method = "AS_PLAYER_WAITING" ->
               (CASE room_for_player -> PLAYER
                  [] ~room_for_player /\ room_for_spectator -> SPECTATOR
                  [] OTHER -> "ROOM_FULL")

\* _members.insert(user): the newest timestamp, not disqualified.
insert_member(r, u, status) ==
    [r EXCEPT !.status[u] = status,
              !.disqualified[u] = FALSE,
              !.joined_before[u] = members(r)]

\* _members.erase(user)
erase_member(r, u) ==
    [r EXCEPT !.status[u] = ABSENT,
              !.disqualified[u] = FALSE,
              !.joined_before = [v \in User |-> IF v = u THEN {} ELSE @[v] \ {u}]]

\* add_user once join_status has given a status.
admit(r, u, status) ==
    IF u \in members(r)
    THEN guarded_status(r, {u}, status)
    ELSE LET added == cached_add(insert_member(r, u, status), {u})
         IN  [added EXCEPT !.owner = IF @ = NoOwner THEN u ELSE @]

\* Mutant: the player limit is not looked at.
flush_waitlist_unbounded(r) ==
    IF r.game_started \/ spectator_count(r) = 0
    THEN {r}
    ELSE {guarded_status(r, {u \in spectators(r) : is_waitlisted(r, u)}, PLAYER)}

\* Mutant: the waitlist is collected by user id instead of by time.
flush_waitlist_any_order(r) ==
    LET waitlisted == {u \in spectators(r) : is_waitlisted(r, u)}
    IN  IF r.game_started \/ player_count(r) >= PlayerLimit
        THEN {r}
        ELSE {r} \cup { guarded_status(r, {u}, PLAYER) : u \in waitlisted }

\* Mutant: the test for an active game is dropped.
flush_waitlist_any_time(r) ==
    { guarded_status(r, P, PLAYER) :
        P \in first(r, {u \in spectators(r) : is_waitlisted(r, u)},
                    PlayerLimit - player_count(r)) }

flush_waitlist(r) ==
    IF r.game_started \/ spectator_count(r) = 0
    THEN {r}
    ELSE { guarded_status(r, P, PLAYER) :
             P \in first(r, {u \in spectators(r) : is_waitlisted(r, u)},
                         PlayerLimit - player_count(r)) }

\* _remove_user reads the Member after _members.erase has destroyed it.
freed_read(value) == IF FreedMemoryIntact THEN {value} ELSE BOOLEAN

\* Mutant: a leaving owner keeps the room.
shift_owner_kept(r, u) == {r}

\* Mutant: the first member by user id, instead of by time, takes over.
shift_owner_any(r, u) ==
    IF r.owner # u THEN {r}
    ELSE IF members(r) = {} THEN {[r EXCEPT !.owner = NoOwner]}
    ELSE { [r EXCEPT !.owner = v] : v \in members(r) }

\* The owner comparison reads freed memory too, but when the owner leaves
\* both sides of it are the same bytes.
shift_owner(r, u) ==
    IF r.owner # u THEN {r}
    ELSE IF members(r) = {} THEN {[r EXCEPT !.owner = NoOwner]}
    ELSE { [r EXCEPT !.owner = v] : v \in begin(r, r.cached_users) }

\* _remove_user up to the notification of the game: off the caches and the map.
detach(r, u) == erase_member(cached_remove(r, {u}), u)

\* What the code after the erase reads as "was a player".
seen_as_player(r, u) == freed_read(is_player(r, u) \/ r.disqualified[u])

\* _remove_user after the notification of the game.
settle(r, u) == UNION { shift_owner(f, u) : f \in flush_waitlist(r) }
-----------------------------------------------------------------------------
(* What a room has to look like; the state machines state these of their    *)
(* rooms.                                                                   *)

Consistent(r) ==
    /\ r.cached_users = members(r)
    /\ r.cached_users_as_spectators = members(r)
    /\ r.cached_players = {u \in User : is_player(r, u) /\ ~r.disqualified[u]}
    /\ r.cached_spectators = {u \in User : is_spectator(r, u) \/ r.disqualified[u]}
    /\ r.players_disqualified = Cardinality({u \in User : r.disqualified[u]})

DisqualifiedAreMembers(r) == \A u \in User : r.disqualified[u] => u \in members(r)

Owned(r) == IF members(r) = {} THEN r.owner = NoOwner ELSE r.owner \in members(r)

WithinLimit(r) == player_count(r) <= PlayerLimit

\* The part of a room's invariant that holds inside a method too.
Sound(r) ==
    /\ r \in RoomRecord
    /\ Consistent(r)
    /\ DisqualifiedAreMembers(r)
    /\ WithinLimit(r)
=============================================================================
