----------------------------- MODULE SimonProofs -----------------------------
(***************************************************************************)
(* Proofs about Simon, for every set of users and every limit.             *)
(***************************************************************************)
EXTENDS Simon, RoomStateProofs

-----------------------------------------------------------------------------
(* The instance R defines the operators of RoomState once more; they are    *)
(* the same.                                                                *)

\* Queries.
LEMMA SameQueries ==
    ASSUME NEW r, NEW u, NEW method
    PROVE  /\ R!members(r) = members(r)
           /\ R!new_room(FALSE) = new_room(FALSE)
           /\ R!seen_as_player(r, u) = seen_as_player(r, u)
           /\ R!join_status(r, u, method) = join_status(r, u, method)
           /\ R!Status = Status
<1> USE DEF Cardinality, R!Cardinality, ABSENT, R!ABSENT, PLAYER, R!PLAYER,
            PLAYER_WAITLIST, R!PLAYER_WAITLIST, SPECTATOR, R!SPECTATOR,
            is_player, R!is_player, players, R!players, spectators, R!spectators
<1>1. R!members(r) = members(r)
  BY Zenon DEF members, R!members
<1>2. R!new_room(FALSE) = new_room(FALSE)
  BY Zenon DEF new_room, R!new_room
<1>3. R!seen_as_player(r, u) = seen_as_player(r, u)
  BY Zenon DEF seen_as_player, R!seen_as_player, freed_read, R!freed_read
<1>4. R!join_status(r, u, method) = join_status(r, u, method)
  BY Zenon DEF join_status, R!join_status, player_count, R!player_count,
     spectator_count, R!spectator_count, size_t, R!size_t
<1>5. R!Status = Status
  BY Zenon DEF Status, R!Status
<1>. QED  BY <1>1, <1>2, <1>3, <1>4, <1>5

\* Operations.
LEMMA SameOperations ==
    ASSUME NEW r, NEW u, NEW status, NEW S
    PROVE  /\ R!end_game(r) = end_game(r)
           /\ R!begin_game(r) = begin_game(r)
           /\ R!disqualify_player(r, S) = disqualify_player(r, S)
           /\ R!detach(r, u) = detach(r, u)
           /\ R!settle(r, u) = settle(r, u)
           /\ R!admit(r, u, status) = admit(r, u, status)
<1> USE DEF Cardinality, R!Cardinality, ABSENT, R!ABSENT, PLAYER, R!PLAYER,
            PLAYER_WAITLIST, R!PLAYER_WAITLIST, SPECTATOR, R!SPECTATOR,
            is_player, R!is_player, is_spectator, R!is_spectator, members, R!members,
            cached_add, R!cached_add, cached_remove, R!cached_remove,
            assign_status, R!assign_status, assign_disqualified, R!assign_disqualified,
            guarded_status, R!guarded_status,
            guarded_disqualified, R!guarded_disqualified, reset_players, R!reset_players
<1>1. R!end_game(r) = end_game(r)
  BY Zenon DEF end_game, R!end_game
<1>2. R!begin_game(r) = begin_game(r)
  BY Zenon DEF begin_game, R!begin_game
<1>3. R!disqualify_player(r, S) = disqualify_player(r, S)
  BY Zenon DEF disqualify_player, R!disqualify_player
<1>4. R!detach(r, u) = detach(r, u)
  BY Zenon DEF detach, R!detach, erase_member, R!erase_member
<1>5. R!settle(r, u) = settle(r, u)
  BY Zenon DEF settle, R!settle, flush_waitlist, R!flush_waitlist, shift_owner, R!shift_owner,
     is_waitlisted, R!is_waitlisted, spectators, R!spectators, spectator_count,
     R!spectator_count, player_count, R!player_count, first, R!first, begin, R!begin,
     precedes, R!precedes
<1>6. R!admit(r, u, status) = admit(r, u, status)
  BY Zenon DEF admit, R!admit, insert_member, R!insert_member
<1>. QED  BY <1>1, <1>2, <1>3, <1>4, <1>5, <1>6

\* What any controller of a loaded game may do includes what Simon does.
LEMMA HandlerMay ==
    ASSUME NEW r, r.game
    PROVE  /\ r \in R!handler_outcomes(r)
           /\ end_game(r) \in R!handler_outcomes(r)
           /\ \A S \in SUBSET members(r) : disqualify_player(r, S) \in R!handler_outcomes(r)
<1>1. R!handler_outcomes(r) = R!environment_calls(r, {})
  BY DEF R!handler_outcomes
<1>2. /\ r \in R!environment_calls(r, {})
      /\ R!end_game(r) \in R!environment_calls(r, {})
      /\ \A S \in SUBSET R!members(r) : R!disqualify_player(r, S) \in R!environment_calls(r, {})
  BY DEF R!environment_calls
<1>. QED  BY <1>1, <1>2, SameQueries, SameOperations

-----------------------------------------------------------------------------
(* Rooms in which Simon is played. *)

\* The part of the invariant that is about the room, inside of handlers too.
Playable(r) ==
    /\ Sound(r)
    /\ r.fault = FALSE
    /\ r.game_started => r.game
    /\ \A u \in User : r.disqualified[u] => r.game /\ r.game_started

\* Nobody is disqualified whom r does not disqualify, but for members of S.
Spares(r, s, S) == \A u \in User \ S : s.disqualified[u] => r.disqualified[u]

\* Ending the game lifts every disqualification.
LEMMA EndGamePlayable ==
    ASSUME NEW r, Playable(r)
    PROVE  /\ Playable(end_game(r)) /\ SameMembers(r, end_game(r))
           /\ Spares(r, end_game(r), {}) /\ end_game(r).game_started = FALSE
<1>1. /\ Sound(end_game(r)) /\ SameMembers(r, end_game(r))
      /\ end_game(r).game_started = FALSE
  BY EndGameSound DEF Playable
<1>2. end_game(r).disqualified = [u \in User |-> FALSE] /\ end_game(r).fault = r.fault
  BY ResetEffect DEF Playable
<1>. QED  BY <1>1, <1>2 DEF Playable, Spares

\* Active players are members, and not disqualified.
LEMMA PlayersOf ==
    ASSUME NEW r, Sound(r)
    PROVE  players(r) \in SUBSET members(r) /\ \A u \in players(r) : u \in User /\ ~r.disqualified[u]
BY DEF players, Sound, Consistent, members, is_player, PLAYER, ABSENT

\* A message of Simon or of a player disqualifies some players and may end the
\* game, which is something a controller may do: ending the game undoes the
\* disqualifications.
LEMMA JudgementPlayable ==
    ASSUME Playable(room), Owned(room), active_game,
           NEW S \in SUBSET players(room), NEW s,
           s \in {disqualify_player(room, S), end_game(disqualify_player(room, S))}
    PROVE  /\ Playable(s) /\ Owned(s) /\ Spares(room, s, S)
           /\ s \in R!handler_outcomes(room)
<1> DEFINE d == disqualify_player(room, S)
<1>1. S \in SUBSET members(room) /\ room.game /\ Sound(room)
  BY PlayersOf DEF Playable, active_game
<1>2. Sound(d) /\ SameMembers(room, d) /\ d.game_started = room.game_started
  BY <1>1, DisqualifySound
<1>3. /\ d.status = room.status
      /\ d.disqualified =
           [u \in User |-> room.disqualified[u] \/ (u \in S /\ is_player(room, u))]
      /\ d.joined_before = room.joined_before
      /\ d.fault = room.fault
  BY <1>1, DisqualifyEffect
<1>4. d \in R!handler_outcomes(room) /\ end_game(room) \in R!handler_outcomes(room)
  BY <1>1, HandlerMay
<1> HIDE DEF d
<1>5. Playable(d) /\ Owned(d) /\ Spares(room, d, S)
  BY <1>2, <1>3 DEF Playable, SameMembers, Owned, active_game, Spares
<1>6. /\ Playable(end_game(d)) /\ SameMembers(d, end_game(d))
      /\ Spares(d, end_game(d), {})
  BY <1>5, EndGamePlayable
<1>7. end_game(d) = end_game(room)
  <2> DEFINE e == end_game(d)
             q == end_game(room)
  <2>1. /\ Sound(e) /\ SameMembers(d, e) /\ e.game_started = FALSE
        /\ Sound(q) /\ SameMembers(room, q) /\ q.game_started = FALSE
    BY <1>1, <1>2, EndGameSound
  <2>2. /\ e.status = d.status /\ e.disqualified = [u \in User |-> FALSE]
        /\ e.joined_before = d.joined_before /\ e.fault = d.fault
        /\ q.status = room.status /\ q.disqualified = [u \in User |-> FALSE]
        /\ q.joined_before = room.joined_before /\ q.fault = room.fault
    BY <1>1, <1>2, ResetEffect
  <2> HIDE DEF e, q
  <2>3. /\ e.status = q.status /\ e.disqualified = q.disqualified
        /\ e.joined_before = q.joined_before /\ e.owner = q.owner
        /\ e.game = q.game /\ e.game_started = q.game_started /\ e.fault = q.fault
    BY <1>2, <1>3, <2>1, <2>2 DEF SameMembers
  <2>. QED  BY <2>1, <2>3, RoomIsItsMembers DEF e, q
<1>8. CASE s = d
  BY <1>4, <1>5, <1>8
<1>9. CASE s = end_game(d)
  <2>1. Owned(s) /\ Spares(room, s, S)
    BY <1>5, <1>6, <1>9 DEF SameMembers, Owned, Spares
  <2>. QED  BY <1>4, <1>6, <1>7, <1>9, <2>1
<1>. QED  BY <1>8, <1>9 DEF d

\* Room::remove_user with Simon in the room is one with a controller in the room.
LEMMA RemovalPlayable ==
    ASSUME Playable(room), Owned(room), NEW u \in members(room), remove_user(u)
    PROVE  /\ Playable(room') /\ Owned(room') /\ Spares(room, room', {})
           /\ R!RemoveMember(u)
<1> DEFINE d == detach(room, u)
           quit(b) == IF active_game /\ b THEN on_player_quit(d, u) ELSE d
<1>1. PICK b \in seen_as_player(room, u) : room' \in settle(quit(b), u)
  BY DEF remove_user
<1> DEFINE n == quit(b)
<1>0. u \in User /\ Sound(room)
  BY DEF members, Playable
<1>2. /\ Sound(d) /\ members(d) = members(room) \ {u} /\ d.owner = room.owner
      /\ d.game = room.game /\ d.game_started = room.game_started
  BY <1>0, DetachSound
<1>3. d.disqualified = [room.disqualified EXCEPT ![u] = FALSE] /\ d.fault = room.fault
  BY <1>0, DetachEffect
<1>4. n = d \/ (n = end_game(d) /\ active_game /\ b)
  BY DEF on_player_quit
<1>5. R!detach(room, u) = d /\ R!settle(n, u) = settle(n, u)
      /\ b \in R!seen_as_player(room, u)
  BY <1>1, SameQueries, SameOperations
<1>6. d.game => d \in R!handler_outcomes(d) /\ end_game(d) \in R!handler_outcomes(d)
  BY HandlerMay
<1>7. room' \in settle(n, u)
  BY <1>1
<1> HIDE DEF d, n
<1>8. Playable(d) /\ Spares(room, d, {})
  BY <1>0, <1>2, <1>3 DEF Playable, Spares, Sound, RoomRecord
<1>9. Playable(n) /\ members(n) = members(d) /\ n.owner = d.owner /\ Spares(room, n, {})
  BY <1>4, <1>8, EndGamePlayable DEF SameMembers, Spares
<1>10. u \notin members(n) /\ (n.owner = u \/ Owned(n))
  BY <1>2, <1>9 DEF Owned
<1>11. Sound(room') /\ Owned(room')
  BY <1>0, <1>7, <1>9, <1>10, SettleSound DEF Playable
<1>12. /\ room'.disqualified = n.disqualified /\ room'.fault = n.fault
       /\ room'.game = n.game /\ room'.game_started = n.game_started
  BY <1>0, <1>7, <1>9, SettleEffect DEF Playable
<1>13. Playable(room') /\ Spares(room, room', {})
  BY <1>9, <1>11, <1>12 DEF Playable, Spares
<1>14. n \in (IF d.game_started /\ b THEN R!handler_outcomes(d) ELSE {d})
  BY <1>2, <1>4, <1>6 DEF Playable, active_game
<1>15. R!RemoveMember(u)
  BY <1>5, <1>7, <1>14 DEF R!RemoveMember
<1>. QED  BY <1>11, <1>13, <1>15

-----------------------------------------------------------------------------
(* Steps.  Each keeps the invariant and is a step of Room. *)

\* The invariant, in terms of the room and of the round.
LEMMA InvariantParts ==
    SimonInvariant <=>
        /\ Playable(room) /\ Owned(room) /\ kicks = {}
        /\ incomplete \subseteq User /\ repeated \subseteq User
        /\ incomplete \cap repeated = {}
        /\ RoundIsFair
<1>1. Sound(room) => room.fault \in BOOLEAN
  BY DEF Sound, RoomRecord
<1>. QED  BY <1>1 DEF SimonInvariant, Playable, DisqualifiedOnlyInGame, active_game

\* The same of the state after a step.
LEMMA InvariantNext ==
    ASSUME Playable(room'), Owned(room'), kicks' = {},
           incomplete' \subseteq User, repeated' \subseteq User,
           incomplete' \cap repeated' = {}, RoundIsFair'
    PROVE  SimonInvariant'
<1>1. /\ Playable(room)' /\ Owned(room)' /\ (kicks = {})'
      /\ (incomplete \subseteq User)' /\ (repeated \subseteq User)'
      /\ (incomplete \cap repeated = {})'
  OBVIOUS
<1>. QED  BY <1>1, InvariantParts, PTL

\* A room in which nobody else is disqualified and a round in which nobody is
\* added keep the round fair.
LEMMA QuietStep ==
    ASSUME SimonInvariant, ~crashed, Playable(room'), Owned(room'), UNCHANGED kicks,
           Spares(room, room', {}),
           incomplete' \subseteq incomplete, repeated' \subseteq repeated
    PROVE  SimonInvariant'
<1>1. RoundIsFair'
  BY DEF RoundIsFair, SimonInvariant, Spares
<1>2. /\ kicks' = {} /\ incomplete' \subseteq User /\ repeated' \subseteq User
      /\ incomplete' \cap repeated' = {}
  BY DEF SimonInvariant
<1>. QED  BY <1>1, <1>2, InvariantNext

\* Simon speaks: end_round, and perhaps the next round.
LEMMA SimonSaysStep ==
    ASSUME SimonInvariant, SimonSays
    PROVE  SimonInvariant' /\ R!game
<1>0. Playable(room) /\ Owned(room) /\ kicks = {}
  BY InvariantParts
<1>1. PICK out \in end_round(room) :
          /\ room' = out.room
          /\ \/ /\ out.ok /\ out.room.game_started
                /\ next_round(out.room)
             \/ /\ ~(out.ok /\ out.room.game_started)
                /\ crashed' = ~out.ok
                /\ UNCHANGED <<incomplete, repeated>>
  BY DEF SimonSays
<1>2. PICK S \in SUBSET players(room) :
          out.room \in {disqualify_player(room, S), end_game(disqualify_player(room, S))}
  <2>1. CASE incomplete \subseteq players(room)
    <3> DEFINE d == disqualify_player(room, incomplete)
    <3>1. out = check_win(d)
      BY <2>1 DEF end_round
    <3> HIDE DEF d
    <3>2. out.room \in {d, end_game(d)}
      BY <3>1 DEF check_win, Outcome
    <3>. QED  BY <2>1, <3>2 DEF d
  <2>2. CASE ~(incomplete \subseteq players(room))
    <3>1. PICK S \in SUBSET (incomplete \cap players(room)) :
               out = Outcome(disqualify_player(room, S), FALSE)
      BY <2>2 DEF end_round
    <3>. QED  BY <3>1 DEF Outcome
  <2>. QED  BY <2>1, <2>2
<1>3. /\ Playable(room') /\ Owned(room')
      /\ room' \in R!handler_outcomes(room)
  BY <1>0, <1>1, <1>2, JudgementPlayable DEF SimonSays
<1>4. /\ incomplete' \subseteq User /\ repeated' \subseteq User
      /\ incomplete' \cap repeated' = {} /\ kicks' = {}
      /\ RoundIsFair'
  <2>1. kicks' = {} /\ \A u \in players(room') : u \in User /\ ~room'.disqualified[u]
    BY <1>0, <1>3, PlayersOf DEF SimonSays, Playable
  <2>2. CASE next_round(out.room)
    BY <1>1, <2>1, <2>2 DEF next_round, RoundIsFair
  <2>3. CASE /\ ~(out.ok /\ out.room.game_started)
             /\ crashed' = ~out.ok
             /\ UNCHANGED <<incomplete, repeated>>
    <3>1. ~crashed' => \A u \in User : ~room'.disqualified[u]
      BY <1>1, <1>3, <2>3 DEF Playable
    <3>. QED  BY <2>1, <2>3, <3>1 DEF RoundIsFair, SimonInvariant
  <2>. QED  BY <1>1, <2>2, <2>3
<1>5. R!game
  BY <1>3 DEF SimonSays, R!game, Running, active_game, Nobody, R!NoUser
<1>. QED  BY <1>3, <1>4, <1>5, InvariantNext

\* A player's answer is wrong.
LEMMA WrongAnswerStep ==
    ASSUME SimonInvariant, NEW u \in User, WrongAnswer(u)
    PROVE  SimonInvariant' /\ R!game
<1> DEFINE d == disqualify_player(room, {u})
           out == check_win(d)
<1>0. Playable(room) /\ Owned(room) /\ kicks = {}
  BY InvariantParts
<1>1. /\ room' = out.room
      /\ crashed' = ~out.ok
      /\ incomplete' = IF out.ok THEN incomplete \ {u} ELSE incomplete
  BY DEF WrongAnswer
<1>2. out.room \in {d, end_game(d)}
  <2> HIDE DEF d
  <2>. QED  BY DEF check_win, Outcome
<1>3. /\ Playable(room') /\ Owned(room') /\ Spares(room, room', {u})
      /\ room' \in R!handler_outcomes(room)
  BY <1>0, <1>1, <1>2, JudgementPlayable DEF WrongAnswer
<1> HIDE DEF out
<1>4. /\ incomplete' \subseteq User /\ repeated' \subseteq User
      /\ incomplete' \cap repeated' = {} /\ kicks' = {}
  BY <1>0, <1>1 DEF WrongAnswer, SimonInvariant
<1>5. RoundIsFair'
  <2> SUFFICES ASSUME ~crashed', NEW v \in repeated' \cup incomplete'
               PROVE  ~room'.disqualified[v]
    BY DEF RoundIsFair
  <2>1. v \in User /\ v # u /\ v \in repeated \cup incomplete
    BY <1>1, <1>4 DEF WrongAnswer, SimonInvariant
  <2>2. ~room.disqualified[v]
    BY <2>1 DEF SimonInvariant, RoundIsFair, WrongAnswer, Running
  <2>. QED  BY <1>3, <2>1, <2>2 DEF Spares
<1>6. R!game
  BY <1>3 DEF WrongAnswer, R!game, Running, active_game, Nobody, R!NoUser
<1>. QED  BY <1>3, <1>4, <1>5, <1>6, InvariantNext

\* A right answer, and the option that makes somebody else Simon.
LEMMA QuietMessageStep ==
    ASSUME SimonInvariant, NEW u \in User, RightAnswer(u) \/ on_option_change(u)
    PROVE  SimonInvariant' /\ R!game
<1>0. Playable(room) /\ Owned(room) /\ kicks = {}
  BY InvariantParts
<1>1. UNCHANGED <<room, kicks, crashed>> /\ ~crashed /\ room.game
  BY DEF RightAnswer, on_option_change, Running, active_game
<1>2. /\ incomplete' \subseteq User /\ repeated' \subseteq User
      /\ incomplete' \cap repeated' = {}
      /\ repeated' \cup incomplete' = repeated \cup incomplete
  BY DEF RightAnswer, on_option_change, SimonInvariant
<1>3. SimonInvariant'
  <2>1. Playable(room') /\ Owned(room') /\ kicks' = {} /\ RoundIsFair'
    BY <1>0, <1>1, <1>2 DEF SimonInvariant, RoundIsFair
  <2>. QED  BY <1>2, <2>1, InvariantNext
<1>4. room' \in R!handler_outcomes(room)
  BY <1>1, HandlerMay
<1>5. R!game
  BY <1>1, <1>4
  DEF RightAnswer, on_option_change, R!game, Running, Nobody, R!NoUser
<1>. QED  BY <1>3, <1>5

\* /load ends a running game before it replaces the controller.
LEMMA LoadStep ==
    ASSUME SimonInvariant, load
    PROVE  SimonInvariant' /\ R!load_game
<1> DEFINE ended == IF active_game THEN end_game(room) ELSE room
           loaded == [ended EXCEPT !.game = TRUE]
<1>0. Playable(room) /\ Owned(room)
  BY InvariantParts
<1>1. room' = loaded
  BY DEF load
<1>2. /\ Playable(ended) /\ SameMembers(room, ended) /\ Spares(room, ended, {})
      /\ ended.game_started = FALSE
  <2>1. CASE active_game
    BY <1>0, <2>1, EndGamePlayable
  <2>2. CASE ~active_game
    <3>1. room.game_started = FALSE
      BY <1>0, <2>2 DEF active_game, Playable, Sound, RoomRecord
    <3>. QED  BY <1>0, <2>2, <3>1 DEF SameMembers, Spares
  <2>. QED  BY <2>1, <2>2
<1>3. ended = IF room.game /\ room.game_started THEN R!end_game(room) ELSE room
  BY SameOperations DEF active_game
<1> HIDE DEF ended
<1>4. /\ Sound(loaded) /\ members(loaded) = members(ended) /\ loaded.owner = ended.owner
      /\ loaded.game = TRUE
  BY <1>2, FlagsSound DEF Playable
<1>5. /\ loaded.disqualified = ended.disqualified /\ loaded.fault = ended.fault
      /\ loaded.game_started = ended.game_started
  BY <1>2 DEF Playable, Sound, RoomRecord
<1>6. loaded \in R!handler_outcomes(loaded)
  <2> HIDE DEF loaded
  <2>. QED  BY <1>4, HandlerMay
<1>7. R!load_game
  BY <1>1, <1>3, <1>6 DEF load, R!load_game, Running, Nobody, R!NoUser
<1> HIDE DEF loaded
<1>8. Playable(room') /\ Owned(room') /\ Spares(room, room', {})
  BY <1>0, <1>1, <1>2, <1>4, <1>5 DEF Playable, Spares, SameMembers, Owned
<1>9. SimonInvariant'
  BY <1>8, QuietStep DEF load, Running
<1>. QED  BY <1>7, <1>9

\* /start lifts all disqualifications, also when the controller refuses to start.
LEMMA StartStep ==
    ASSUME SimonInvariant, start
    PROVE  SimonInvariant' /\ R!start_game
<1> DEFINE begun == begin_game(room)
<1>0. Playable(room) /\ Owned(room) /\ Sound(room)
  BY InvariantParts DEF Playable
<1>1. room' = begun /\ room.game
  BY DEF start
<1>2. Sound(begun) /\ SameMembers(room, begun) /\ begun.game_started = TRUE
  BY <1>0, EndGameSound, BeginGameStarts
<1>3. begun.disqualified = [u \in User |-> FALSE] /\ begun.fault = room.fault
  BY <1>0, ResetEffect
<1>4. R!begin_game(room) = begun
  BY SameOperations
<1> HIDE DEF begun
<1>5. Playable(room') /\ Owned(room') /\ Spares(room, room', {}) /\ room'.game
  BY <1>0, <1>1, <1>2, <1>3 DEF Playable, Spares, SameMembers, Owned
<1>6. /\ incomplete' \subseteq incomplete /\ repeated' \subseteq repeated
      /\ UNCHANGED kicks /\ ~crashed
  BY DEF start, Running
<1>7. SimonInvariant'
  BY <1>5, <1>6, QuietStep
<1>8. room' \in R!handler_outcomes(R!begin_game(room))
  BY <1>1, <1>4, <1>5, HandlerMay
<1>9. R!start_game
  BY <1>8 DEF start, R!start_game, Running, Nobody, R!NoUser
<1>. QED  BY <1>7, <1>9

\* /end
LEMMA EndStep ==
    ASSUME SimonInvariant, end
    PROVE  SimonInvariant' /\ R!EndGame
<1>0. Playable(room) /\ Owned(room)
  BY InvariantParts
<1>1. Playable(room') /\ Owned(room') /\ Spares(room, room', {})
  BY <1>0, EndGamePlayable DEF end, SameMembers, Owned
<1>2. SimonInvariant'
  BY <1>1, QuietStep DEF end, Running, game_vars
<1>3. R!EndGame
  BY SameOperations DEF end, R!EndGame, Running, Nobody, R!NoUser
<1>. QED  BY <1>2, <1>3

\* A user joins, or finds the room full.
LEMMA JoinStep ==
    ASSUME SimonInvariant, NEW u \in User, Join(u)
    PROVE  SimonInvariant' /\ R!add_user(u, "AS_PLAYER_WAITING")
<1> DEFINE status == join_status(room, u, "AS_PLAYER_WAITING")
<1>0. Playable(room) /\ Owned(room) /\ Sound(room)
  BY InvariantParts DEF Playable
<1>1. R!add_user(u, "AS_PLAYER_WAITING")
  BY DEF Join
<1>2. room' = room \/ (status \in Status /\ room' = admit(room, u, status))
  <2>1. /\ R!join_status(room, u, "AS_PLAYER_WAITING") = status
        /\ R!Status = Status
        /\ R!admit(room, u, status) = admit(room, u, status)
    BY SameQueries, SameOperations
  <2> HIDE DEF status
  <2>. QED  BY <1>1, <2>1 DEF R!add_user
<1>3. Playable(room') /\ Owned(room') /\ Spares(room, room', {})
  <2>1. CASE room' = room
    BY <1>0, <2>1 DEF Spares
  <2>2. CASE status \in Status /\ room' = admit(room, u, status)
    <3>1. /\ Sound(room') /\ Owned(room')
          /\ room'.game = room.game /\ room'.game_started = room.game_started
      BY <1>0, <2>2, AdmitSound DEF Method
    <3>2. room'.disqualified = room.disqualified /\ room'.fault = room.fault
      BY <1>0, <2>2, AdmitEffect
    <3>. QED  BY <1>0, <3>1, <3>2 DEF Playable, Spares
  <2>. QED  BY <1>2, <2>1, <2>2
<1>4. UNCHANGED <<kicks, game_vars>> /\ ~crashed
  BY <1>1 DEF Join, Running, R!add_user
<1>5. SimonInvariant'
  BY <1>3, <1>4, QuietStep DEF game_vars
<1>. QED  BY <1>1, <1>5

\* A member leaves, is kicked or loses its connection.
LEMMA DepartureStep ==
    ASSUME SimonInvariant, NEW u \in User, Leave(u) \/ Kick(u)
    PROVE  SimonInvariant' /\ R!remove_user(u)
<1>0. Playable(room) /\ Owned(room)
  BY InvariantParts
<1>1. u \in members(room) /\ remove_user(u)
  BY <1>0, PlayersOf DEF Leave, Kick, Playable
<1>2. /\ Playable(room') /\ Owned(room') /\ Spares(room, room', {})
      /\ R!RemoveMember(u)
  BY <1>0, <1>1, RemovalPlayable
<1>3. UNCHANGED <<kicks, game_vars>> /\ ~crashed /\ R!Idle /\ R!Called("remove_user", u, "nothing")
  BY DEF Leave, Kick, Running
<1>4. SimonInvariant'
  BY <1>2, <1>3, QuietStep DEF game_vars
<1>5. R!remove_user(u)
  BY <1>1, <1>2, <1>3, SameQueries DEF R!remove_user
<1>. QED  BY <1>4, <1>5

\* The room is new and nobody plays.
LEMMA InitInvariant == Init => SimonInvariant
<1> SUFFICES ASSUME Init PROVE SimonInvariant
  OBVIOUS
<1>1. room = new_room(FALSE) /\ kicks = {}
  BY SameQueries DEF Init, R!Init
<1>2. Sound(room) /\ Owned(room)
  BY <1>1, NewRoomSound
<1>3. room.fault = FALSE /\ room.game_started = FALSE /\ room.disqualified = [u \in User |-> FALSE]
  BY <1>1 DEF new_room
<1>4. Playable(room) /\ RoundIsFair /\ incomplete = {} /\ repeated = {}
  BY <1>2, <1>3 DEF Playable, RoundIsFair, Init
<1>. QED  BY <1>1, <1>2, <1>4, InvariantParts

\* Every step keeps the invariant and is a step of Room, or does not touch it.
LEMMA NextStep == SimonInvariant /\ [Next]_vars => SimonInvariant' /\ [R!Next]_(R!vars)
<1> SUFFICES ASSUME SimonInvariant, [Next]_vars
             PROVE  SimonInvariant' /\ [R!Next]_(R!vars)
  OBVIOUS
<1>1. CASE SimonSays
  BY <1>1, SimonSaysStep DEF R!Next
<1>2. ASSUME NEW u \in User, RightAnswer(u) \/ on_option_change(u)
      PROVE  SimonInvariant' /\ [R!Next]_(R!vars)
  BY <1>2, QuietMessageStep DEF R!Next
<1>3. ASSUME NEW u \in User, WrongAnswer(u) PROVE SimonInvariant' /\ [R!Next]_(R!vars)
  BY <1>3, WrongAnswerStep DEF R!Next
<1>4. ASSUME NEW u \in User, Join(u) PROVE SimonInvariant' /\ [R!Next]_(R!vars)
  BY <1>4, JoinStep DEF R!Next, R!Method
<1>5. ASSUME NEW u \in User, Leave(u) \/ Kick(u) PROVE SimonInvariant' /\ [R!Next]_(R!vars)
  BY <1>5, DepartureStep DEF R!Next
<1>6. CASE load
  BY <1>6, LoadStep DEF R!Next
<1>7. CASE start
  BY <1>7, StartStep DEF R!Next
<1>8. CASE end
  BY <1>8, EndStep DEF R!Next
<1>9. CASE UNCHANGED vars
  BY <1>9 DEF vars, R!vars, SimonInvariant, RoundIsFair, DisqualifiedOnlyInGame, active_game
<1>. QED
  BY <1>1, <1>2, <1>3, <1>4, <1>5, <1>6, <1>7, <1>8, <1>9 DEF Next, Over

-----------------------------------------------------------------------------
(* Theorems. *)

\* The inductive invariant holds whenever the loop is between two packets.
LEMMA SimonInvariantHolds == Spec => []SimonInvariant
BY InitInvariant, NextStep, PTL DEF Spec

\* Whoever has repeated the message, or has still to, is not disqualified.
THEOREM FairRounds == Spec => []RoundIsFair
<1>1. SimonInvariant => RoundIsFair
  BY DEF SimonInvariant
<1>. QED  BY <1>1, SimonInvariantHolds, PTL

\* No disqualification outlives its game, whether Simon wins, leaves or is kicked,
\* or the owner ends, restarts or replaces the game.
THEOREM DisqualificationEnds == Spec => []DisqualifiedOnlyInGame
<1>1. SimonInvariant => DisqualifiedOnlyInGame
  BY DEF SimonInvariant
<1>. QED  BY <1>1, SimonInvariantHolds, PTL

\* A room in which EXAMPLE_Simon is played is a room with a controller that stays
\* within the interface Environment, as Room describes it.
THEOREM SimonRefinesRoom == Spec => RoomRefinement
<1>1. Init => R!Init
  BY DEF Init
<1>. QED  BY <1>1, NextStep, SimonInvariantHolds, PTL DEF Spec, RoomRefinement, R!Spec
=============================================================================
