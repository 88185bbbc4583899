----------------------------- MODULE RoomProofs -----------------------------
(***************************************************************************)
(* Proofs about Room, for every set of users and every limit.              *)
(***************************************************************************)
EXTENDS Room, RoomStateProofs

\* A handler of the controller leaves a sound room with the same members.
LEMMA HandlerSound ==
    ASSUME NEW r, Sound(r), NEW s \in handler_outcomes(r)
    PROVE  Sound(s) /\ SameMembers(r, s)
<1>1. CASE ~r.game
  <2>1. s = undefined(r)
    BY <1>1 DEF handler_outcomes
  <2>. QED  BY <2>1, FlagsSound
<1>2. CASE r.game
  <2>1. \/ s \in {r, reset_players(r), begin_game(r), end_game(r)}
        \/ \E S \in SUBSET members(r) : s = disqualify_player(r, S)
        \/ \E l \in Limits : s \in set_player_limit(r, l)
    BY <1>2 DEF handler_outcomes, environment_calls
  <2>2. CASE s \in {r, reset_players(r), begin_game(r), end_game(r)}
    BY <2>2, ResetSound, EndGameSound DEF SameMembers
  <2>3. CASE \E S \in SUBSET members(r) : s = disqualify_player(r, S)
    BY <2>3, DisqualifySound
  <2>4. CASE \E l \in Limits : s \in set_player_limit(r, l)
    BY <2>4, SetPlayerLimitSound, CallConstants
  <2>. QED  BY <2>1, <2>2, <2>3, <2>4
<1>. QED  BY <1>1, <1>2

\* _remove_user from the members to the owner.
LEMMA RemoveMemberSound ==
    ASSUME Sound(room), Owned(room), NEW u \in members(room), RemoveMember(u)
    PROVE  Sound(room') /\ Owned(room') /\ members(room') = members(room) \ {u}
<1> DEFINE d == detach(room, u)
<1>1. Sound(d) /\ members(d) = members(room) \ {u} /\ d.owner = room.owner
  BY DetachSound
<1>2. PICK n : (n = d \/ n \in handler_outcomes(d)) /\ room' \in settle(n, u)
  BY DEF RemoveMember
<1> HIDE DEF d
<1>3. Sound(n) /\ members(n) = members(room) \ {u} /\ n.owner = room.owner
  BY <1>1, <1>2, HandlerSound DEF SameMembers
<1>4. u \in User /\ u \notin members(n)
  BY <1>3 DEF members
<1>5. n.owner = u \/ Owned(n)
  BY <1>3 DEF Owned
<1>. QED  BY <1>2, <1>3, <1>4, <1>5, SettleSound

\* A new room is sound.
LEMMA InitInvariant == Init => RoomInvariant
<1> SUFFICES ASSUME Init PROVE RoomInvariant
  OBVIOUS
<1>1. PICK started \in GameStartedAtBirth : room = new_room(started)
  BY DEF Init
<1>2. Sound(room) /\ Owned(room)
  BY <1>1, NewRoomSound, CallConstants
<1>3. kicks \subseteq members(room) /\ call \in Call
  BY DEF Init, Call, NoUser
<1>. QED  BY <1>2, <1>3 DEF RoomInvariant

\* Every call keeps the room sound, owned, and its pending removals members.
LEMMA NextInvariant == RoomInvariant /\ [Next]_vars => RoomInvariant'
<1> SUFFICES ASSUME RoomInvariant, [Next]_vars PROVE RoomInvariant'
  OBVIOUS
<1> USE DEF RoomInvariant
<1>0. room \in RoomRecord /\ Sound(room) /\ Owned(room) /\ members(room) \in SUBSET User
  BY DEF Sound, members
\* A step whose rooms are sound and keep their members keeps the invariant.
<1>a. ASSUME Sound(room'), SameMembers(room, room'), UNCHANGED kicks, call' \in Call
      PROVE  RoomInvariant'
  BY <1>0, <1>a DEF SameMembers, Owned
<1>1. ASSUME NEW u \in User, NEW method \in Method, add_user(u, method)
      PROVE  RoomInvariant'
  <2> DEFINE status == join_status(room, u, method)
  <2>1. CASE status \in Status /\ room' = admit(room, u, status) /\ Called(method, u, "nothing")
    <3>1. Sound(room') /\ Owned(room') /\ members(room') = members(room) \cup {u}
      BY <1>0, <2>1, AdmitSound
    <3>2. call' \in Call
      BY <2>1 DEF Called, Call
    <3>. QED  BY <1>1, <3>1, <3>2 DEF add_user
  <2>2. CASE status \notin Status /\ UNCHANGED room /\ Called(method, u, status)
    <3>1. status \in {"ROOM_FULL", "NOT_ALLOWED_DURING_GAME"}
      BY <2>2 DEF join_status, Method, Status
    <3> HIDE DEF status
    <3>2. call' \in Call
      BY <2>2, <3>1 DEF Called, Call
    <3>3. UNCHANGED kicks
      BY <1>1 DEF add_user
    <3>. QED  BY <1>0, <2>2, <3>2, <3>3
  <2>. QED  BY <1>1, <2>1, <2>2 DEF add_user
<1>2. ASSUME NEW u \in User, remove_user(u)
      PROVE  RoomInvariant'
  <2>1. Sound(room') /\ Owned(room')
    BY <1>0, <1>2, RemoveMemberSound DEF remove_user
  <2>2. kicks' = {} /\ call' \in Call
    BY <1>2 DEF remove_user, Idle, Called, Call
  <2>. QED  BY <2>1, <2>2
<1>3. ASSUME NEW u \in User, set_owner(u)
      PROVE  RoomInvariant'
  <2>1. /\ Sound(room') /\ members(room') = members(room)
        /\ room'.owner = u
    BY <1>0, <1>3
    DEF set_owner, Sound, Consistent, DisqualifiedAreMembers, WithinLimit, player_count,
        members, is_player, is_spectator, RoomRecord
  <2>2. UNCHANGED kicks /\ call' \in Call /\ u \in members(room)
    BY <1>3 DEF set_owner, Called, Call
  <2>. QED  BY <2>1, <2>2 DEF Owned
<1>4. ASSUME NEW limit \in Limits, SetPlayerLimit(limit)
      PROVE  RoomInvariant'
  <2>1. Sound(room') /\ SameMembers(room, room')
    BY <1>0, <1>4, SetPlayerLimitSound, CallConstants DEF SetPlayerLimit
  <2>2. UNCHANGED kicks /\ call' \in Call
    BY <1>4 DEF SetPlayerLimit, CalledWith, Call, NoUser
  <2>. QED  BY <1>a, <2>1, <2>2
<1>5. ASSUME NEW limit \in Limits, SetSpectatorLimit(limit)
      PROVE  RoomInvariant'
  <2> DEFINE overflow == spectator_count(room) - limit
             remove == {u \in members(room) : is_player(room, u)}
  <2>1. call' \in Call
    BY <1>5 DEF SetSpectatorLimit, CalledWith, Call, NoUser
  <2>2. CASE UNCHANGED <<room, kicks>>
    BY <1>0, <2>1, <2>2
  <2>3. CASE room' = undefined(room) /\ UNCHANGED kicks
    <3>1. Sound(room') /\ SameMembers(room, room')
      BY <1>0, <2>3, FlagsSound
    <3>. QED  BY <1>a, <2>1, <2>3, <3>1
  <2>4. CASE kicks' \in first(room, remove, overflow) /\ UNCHANGED room
    <3>1. kicks' \subseteq members(room)
      BY <2>4 DEF first
    <3>. QED  BY <1>0, <2>1, <2>4, <3>1
  <2>. QED  BY <1>5, <2>2, <2>3, <2>4 DEF SetSpectatorLimit
<1>6. CASE KickNext
  <2>1. PICK u \in begin(room, kicks) :
             /\ RemoveMember(u)
             /\ kicks' = kicks \ {u}
             /\ Called("set_spectator_limit", u, "nothing")
    BY <1>6 DEF KickNext
  <2>2. u \in members(room) /\ u \in User
    BY <1>0, <2>1 DEF begin
  <2>3. Sound(room') /\ Owned(room') /\ members(room') = members(room) \ {u}
    BY <1>0, <2>1, <2>2, RemoveMemberSound
  <2>4. call' \in Call
    BY <2>1, <2>2 DEF Called, Call
  <2>. QED  BY <2>1, <2>3, <2>4
<1>7. CASE FlushWaitlist
  <2>1. Sound(room') /\ SameMembers(room, room')
    BY <1>0, <1>7, FlushSound DEF FlushWaitlist
  <2>2. UNCHANGED kicks /\ call' \in Call
    BY <1>7 DEF FlushWaitlist, Called, Call, NoUser
  <2>. QED  BY <1>a, <2>1, <2>2
<1>8. CASE load_game
  <2> DEFINE ended == IF room.game /\ room.game_started THEN end_game(room) ELSE room
             loaded == [ended EXCEPT !.game = TRUE]
  <2>1. Sound(ended) /\ members(ended) = members(room) /\ ended.owner = room.owner
    BY <1>0, EndGameSound DEF SameMembers
  <2>2. room' \in handler_outcomes(loaded)
    BY <1>8 DEF load_game
  <2> HIDE DEF ended
  <2>3. Sound(loaded) /\ members(loaded) = members(room) /\ loaded.owner = room.owner
    BY <2>1, FlagsSound
  <2> HIDE DEF loaded
  <2>4. Sound(room') /\ members(room') = members(room) /\ room'.owner = room.owner
    BY <2>2, <2>3, HandlerSound DEF SameMembers
  <2>5. UNCHANGED kicks /\ call' \in Call
    BY <1>8 DEF load_game, Called, Call, NoUser
  <2>. QED  BY <1>0, <2>4, <2>5 DEF Owned
<1>9. CASE start_game
  <2>1. UNCHANGED kicks /\ call' \in Call
    BY <1>9 DEF start_game, Called, Call, NoUser
  <2>2. CASE UNCHANGED room
    BY <1>0, <2>1, <2>2
  <2>3. CASE room' \in handler_outcomes(begin_game(room))
    <3>1. Sound(room') /\ SameMembers(room, room')
      BY <1>0, <2>3, EndGameSound, HandlerSound DEF SameMembers
    <3>. QED  BY <1>a, <2>1, <3>1
  <2>. QED  BY <1>9, <2>2, <2>3 DEF start_game
<1>10. CASE EndGame
  <2>1. Sound(room') /\ SameMembers(room, room')
    BY <1>0, <1>10, EndGameSound DEF EndGame
  <2>2. UNCHANGED kicks /\ call' \in Call
    BY <1>10 DEF EndGame, Called, Call, NoUser
  <2>. QED  BY <1>a, <2>1, <2>2
<1>11. CASE game
  <2>1. Sound(room') /\ SameMembers(room, room')
    BY <1>0, <1>11, HandlerSound DEF game
  <2>2. UNCHANGED kicks /\ call' \in Call
    BY <1>11 DEF game, Called, Call, NoUser
  <2>. QED  BY <1>a, <2>1, <2>2
<1>12. CASE Halted \/ UNCHANGED vars
  BY <1>0, <1>12 DEF Halted, vars
<1>. QED
  BY <1>1, <1>2, <1>3, <1>4, <1>5, <1>6, <1>7, <1>8, <1>9, <1>10, <1>11, <1>12 DEF Next

\* The inductive invariant holds of every behaviour of a room.
THEOREM InvariantHolds == Spec => []RoomInvariant
<1>. QED  BY InitInvariant, NextInvariant, PTL DEF Spec

\* Every room the class Room can build and every call log is well-typed, and the
\* disqualified counter `_players_disqualified` is a natural number.
THEOREM TypeCorrect == Spec => []TypeOK
<1>1. RoomInvariant => TypeOK
  <2> SUFFICES ASSUME RoomInvariant PROVE TypeOK
    OBVIOUS
  <2>1. room \in RoomRecord /\ Consistent(room) /\ call \in Call /\ kicks \subseteq members(room)
    BY DEF RoomInvariant, Sound
  <2>2. room.players_disqualified \in Nat
    <3>1. room.players_disqualified = Cardinality(Disqualified(room))
      BY <2>1 DEF Consistent, Disqualified
    <3>. QED  BY <2>1, <3>1, PlayerCount
  <2>. QED  BY <2>1, <2>2 DEF TypeOK, members
<1>. QED  BY <1>1, InvariantHolds, PTL

\* The cached sets of class Room always mirror `_members`.
THEOREM CachesCorrect == Spec => []CachesMatchMembers
<1>1. RoomInvariant => CachesMatchMembers
  BY DEF RoomInvariant, Sound, CachesMatchMembers
<1>. QED  BY <1>1, InvariantHolds, PTL

\* `_owner` is null exactly in an empty room and a member otherwise.
THEOREM OwnerCorrect == Spec => []OwnerIsMember
<1>1. RoomInvariant => OwnerIsMember
  BY DEF RoomInvariant, OwnerIsMember
<1>. QED  BY <1>1, InvariantHolds, PTL

\* player_count() never exceeds player_limit().
THEOREM LimitRespected == Spec => []PlayersWithinLimit
<1>1. RoomInvariant => PlayersWithinLimit
  BY DEF RoomInvariant, Sound, PlayersWithinLimit
<1>. QED  BY <1>1, InvariantHolds, PTL

\* The subtraction in spectator_count() never wraps around.
THEOREM SpectatorCountCorrect == Spec => []SpectatorCountNeverWraps
<1>1. RoomInvariant => SpectatorCountNeverWraps
  <2> SUFFICES ASSUME RoomInvariant PROVE spectator_count(room) >= 0
    BY DEF SpectatorCountNeverWraps
  <2>1. room \in RoomRecord /\ Consistent(room)
    BY DEF RoomInvariant, Sound
  <2>2. /\ room.players_disqualified = Cardinality(Disqualified(room))
        /\ Disqualified(room) \in SUBSET room.cached_spectators
        /\ room.cached_spectators \in SUBSET User
    BY <2>1 DEF Consistent, Disqualified, RoomRecord
  <2>3. Cardinality(Disqualified(room)) <= Cardinality(room.cached_spectators)
    BY <2>2, CardMono
  <2>4. Cardinality(Disqualified(room)) \in Nat /\ Cardinality(room.cached_spectators) \in Nat
    BY <2>2, UserSets
  <2>. QED  BY <2>2, <2>3, <2>4 DEF spectator_count
<1>. QED  BY <1>1, InvariantHolds, PTL

\* A removal neither unloads the game nor, without one, starts one.
LEMMA RemoveKeepsGame ==
    ASSUME Sound(room), Owned(room), ActiveGameIsLoaded, NEW u \in members(room),
           RemoveMember(u)
    PROVE  room'.game_started => room'.game
<1> DEFINE d == detach(room, u)
<1>1. /\ Sound(d) /\ d.game = room.game /\ d.game_started = room.game_started
  BY DetachSound
<1>2. PICK n : (n = d \/ n \in handler_outcomes(d)) /\ room' \in settle(n, u)
  BY DEF RemoveMember
<1> HIDE DEF d
<1>3. Sound(n) /\ n.game = d.game
  BY <1>1, <1>2, HandlerSound DEF SameMembers
<1>4. n.game_started => n.game
  <2>1. CASE d.game
    BY <1>3, <2>1
  <2>2. CASE ~d.game
    <3>1. n = d \/ n = undefined(d)
      BY <1>2, <2>2 DEF handler_outcomes
    <3>2. undefined(d).game_started = d.game_started
      BY <1>1, FlagsSound
    <3>3. n.game_started = room.game_started /\ room.game = d.game
      BY <1>1, <3>1, <3>2
    <3>. QED  BY <2>2, <3>3, Zenon DEF ActiveGameIsLoaded
  <2>. QED  BY <2>1, <2>2
<1>5. PICK f \in flush_waitlist(n) : room' \in shift_owner(f, u)
  BY <1>2 DEF settle
<1>6. f \in RoomRecord /\ f.game = n.game /\ f.game_started = n.game_started
  BY <1>3, <1>5, FlushSound DEF SameMembers, Sound
<1>7. room'.game = f.game /\ room'.game_started = f.game_started
  BY <1>5, <1>6 DEF shift_owner, RoomRecord
<1>. QED  BY <1>4, <1>6, <1>7

\* When the constructor would set `_game_started` to false, `_game` could never be
\* dereferenced while null: an active game is always a loaded one.
THEOREM ActiveGameCorrect ==
    ASSUME GameStartedAtBirth = {FALSE}
    PROVE  Spec => []ActiveGameIsLoaded
<1>1. Init => ActiveGameIsLoaded
  <2> SUFFICES ASSUME Init PROVE ActiveGameIsLoaded
    OBVIOUS
  <2>1. room = new_room(FALSE)
    BY DEF Init
  <2>2. room.game_started = FALSE
    BY <2>1 DEF new_room
  <2>. QED  BY <2>2 DEF ActiveGameIsLoaded
<1>2. RoomInvariant /\ ActiveGameIsLoaded /\ [Next]_vars => ActiveGameIsLoaded'
  <2> SUFFICES ASSUME RoomInvariant, ActiveGameIsLoaded, [Next]_vars
               PROVE  room'.game_started => room'.game
    BY DEF ActiveGameIsLoaded
  <2>0. /\ Sound(room) /\ Owned(room) /\ room \in RoomRecord
        /\ room.game_started => room.game
    BY DEF RoomInvariant, Sound, ActiveGameIsLoaded
  \* With a game loaded, whatever a controller does leaves it loaded.
  <2>a. ASSUME NEW r, Sound(r), r.game, room' \in handler_outcomes(r)
        PROVE  room'.game
    BY <2>a, HandlerSound DEF SameMembers
  <2>1. ASSUME NEW u \in User, NEW method \in Method, add_user(u, method)
        PROVE  room'.game_started => room'.game
    <3>1. CASE UNCHANGED room
      BY <2>0, <3>1
    <3>2. CASE /\ join_status(room, u, method) \in Status
               /\ room' = admit(room, u, join_status(room, u, method))
      BY <2>0, <3>2, AdmitSound
    <3>. QED  BY <2>1, <3>1, <3>2 DEF add_user
  <2>2. ASSUME NEW u \in User, remove_user(u)
        PROVE  room'.game_started => room'.game
    BY <2>0, <2>2, RemoveKeepsGame DEF remove_user
  <2>3. ASSUME NEW u \in User, set_owner(u)
        PROVE  room'.game_started => room'.game
    BY <2>0, <2>3 DEF set_owner, RoomRecord
  <2>4. ASSUME NEW limit \in Limits, SetPlayerLimit(limit)
        PROVE  room'.game_started => room'.game
    BY <2>0, <2>4, SetPlayerLimitSound, CallConstants DEF SetPlayerLimit, SameMembers
  <2>5. ASSUME NEW limit \in Limits, SetSpectatorLimit(limit)
        PROVE  room'.game_started => room'.game
    <3>1. room' = room \/ room' = undefined(room)
      BY <2>5 DEF SetSpectatorLimit
    <3>2. undefined(room).game_started = room.game_started /\ undefined(room).game = room.game
      BY <2>0, FlagsSound DEF SameMembers
    <3>3. room'.game_started = room.game_started /\ room'.game = room.game
      BY <3>1, <3>2
    <3>. QED  BY <2>0, <3>3, Zenon
  <2>6. CASE KickNext
    <3>1. PICK u \in members(room) : RemoveMember(u)
      BY <2>6 DEF KickNext, begin, RoomInvariant
    <3>. QED  BY <2>0, <3>1, RemoveKeepsGame
  <2>7. CASE FlushWaitlist
    BY <2>0, <2>7, FlushSound DEF FlushWaitlist, SameMembers
  <2>8. CASE load_game
    <3> DEFINE ended == IF room.game /\ room.game_started THEN end_game(room) ELSE room
               loaded == [ended EXCEPT !.game = TRUE]
    <3>1. Sound(ended)
      BY <2>0, EndGameSound
    <3>2. room' \in handler_outcomes(loaded)
      BY <2>8 DEF load_game
    <3> HIDE DEF ended
    <3>3. Sound(loaded) /\ loaded.game
      BY <3>1, FlagsSound
    <3> HIDE DEF loaded
    <3>. QED  BY <2>a, <3>2, <3>3
  <2>9. CASE start_game
    <3>1. CASE UNCHANGED room
      BY <2>0, <3>1
    <3>2. CASE room.game /\ room' \in handler_outcomes(begin_game(room))
      BY <2>0, <2>a, <3>2, EndGameSound DEF SameMembers
    <3>. QED  BY <2>9, <3>1, <3>2 DEF start_game
  <2>10. CASE EndGame
    BY <2>0, <2>10, EndGameSound DEF EndGame
  <2>11. CASE game
    BY <2>0, <2>11, <2>a DEF game
  <2>12. CASE Halted \/ UNCHANGED vars
    BY <2>0, <2>12 DEF Halted, vars
  <2>. QED
    BY <2>1, <2>2, <2>3, <2>4, <2>5, <2>6, <2>7, <2>8, <2>9, <2>10, <2>11, <2>12 DEF Next
<1>. QED  BY <1>1, <1>2, InvariantHolds, PTL DEF Spec

-----------------------------------------------------------------------------
(* What no call may do. *)

\* A handler of the controller promotes nobody and rewrites no history.
LEMMA HandlerEffect ==
    ASSUME NEW r, Sound(r), NEW s \in handler_outcomes(r)
    PROVE  /\ s.joined_before = r.joined_before
           /\ \A v \in User : \/ s.status[v] = r.status[v]
                              \/ r.status[v] = PLAYER /\ s.status[v] = PLAYER_WAITLIST
<1>1. \/ s = undefined(r)
      \/ s = r
      \/ s \in {reset_players(r), begin_game(r), end_game(r)}
      \/ \E S \in SUBSET members(r) : s = disqualify_player(r, S)
      \/ \E l \in Limits : s \in set_player_limit(r, l)
  BY DEF handler_outcomes, environment_calls
<1>2. CASE s = undefined(r)
  BY <1>2 DEF undefined, Sound, RoomRecord
<1>3. CASE s = r
  BY <1>3
<1>4. CASE s \in {reset_players(r), begin_game(r), end_game(r)}
  BY <1>4, ResetEffect
<1>5. CASE \E S \in SUBSET members(r) : s = disqualify_player(r, S)
  BY <1>5, DisqualifyEffect
<1>6. CASE \E l \in Limits : s \in set_player_limit(r, l)
  BY <1>6, SetPlayerLimitEffect, CallConstants
<1>. QED  BY <1>1, <1>2, <1>3, <1>4, <1>5, <1>6

\* What a step does to the waitlist and to the owner: nobody is promoted past
\* somebody who waited longer, nobody into a running game, and a new owner is the
\* longest-standing member who is left.
OrderlyStep ==
    /\ \A u, v \in User :
          /\ is_waitlisted(room, u) /\ room'.status[u] = PLAYER
          /\ is_waitlisted(room, v) /\ room'.status[v] = PLAYER_WAITLIST
          => precedes(room, u, v)
    /\ \A u \in User :
          /\ room.game_started /\ room'.game_started
          /\ is_waitlisted(room, u)
          => room'.status[u] # PLAYER
    /\ room'.owner # room.owner =>
          /\ room'.status[room.owner] = ABSENT
          /\ \A v \in members(room') \ {room'.owner} : precedes(room, room'.owner, v)

\* A step without promotions and with the same owner is orderly.
LEMMA NoPromotion ==
    ASSUME room'.owner = room.owner,
           \A v \in User : \/ room'.status[v] = room.status[v]
                           \/ room.status[v] = PLAYER
    PROVE  OrderlyStep
BY DEF OrderlyStep, is_waitlisted, PLAYER, PLAYER_WAITLIST

\* A removal is orderly whatever the controller makes of it.
LEMMA RemovalIsOrderly ==
    ASSUME Sound(room), Owned(room), NEW u \in members(room), RemoveMember(u)
    PROVE  OrderlyStep
<1> DEFINE d == detach(room, u)
<1>1. PICK n : (n = d \/ n \in handler_outcomes(d)) /\ room' \in settle(n, u)
  BY DEF RemoveMember
<1>2. Sound(d) /\ members(d) = members(room) \ {u} /\ d.owner = room.owner
  BY DetachSound
<1>3. /\ d.status = [room.status EXCEPT ![u] = ABSENT]
      /\ \A v \in User \ {u} : d.joined_before[v] = room.joined_before[v] \ {u}
  BY DetachEffect
<1> HIDE DEF d
<1>4. /\ Sound(n) /\ members(n) = members(d) /\ n.owner = d.owner
      /\ n.joined_before = d.joined_before
      /\ \A v \in User : \/ n.status[v] = d.status[v]
                         \/ d.status[v] = PLAYER /\ n.status[v] = PLAYER_WAITLIST
  BY <1>1, <1>2, HandlerSound, HandlerEffect DEF SameMembers
<1>5. u \in User /\ room.status \in [User -> Status \cup {ABSENT}]
  BY DEF members, Sound, RoomRecord
<1>6. /\ room'.game_started = n.game_started
      /\ n.game_started => room'.status = n.status
      /\ \A v \in User : \/ room'.status[v] = n.status[v]
                         \/ n.status[v] = PLAYER_WAITLIST /\ room'.status[v] = PLAYER
      /\ \A v, w \in User : /\ is_waitlisted(n, v) /\ room'.status[v] = PLAYER
                            /\ is_waitlisted(n, w) /\ room'.status[w] = PLAYER_WAITLIST
                            => precedes(n, v, w)
      /\ room'.owner # n.owner =>
           /\ n.owner = u
           /\ \A v \in members(n) \ {room'.owner} : precedes(n, room'.owner, v)
  BY <1>1, <1>4, <1>5, SettleEffect
\* Who was and is on the waitlist, or left it for a place, did not leave the room.
<1>7. \A v \in User : is_waitlisted(room, v) =>
         \/ v = u /\ room'.status[v] = ABSENT
         \/ v # u /\ is_waitlisted(n, v)
  BY <1>3, <1>4, <1>5, <1>6
     DEF is_waitlisted, PLAYER, PLAYER_WAITLIST, ABSENT
<1>8. \A v, w \in User : w # u /\ precedes(n, v, w) => precedes(room, v, w)
  BY <1>3, <1>4 DEF precedes
<1>9. room'.status[u] = ABSENT /\ members(room') = members(n)
  BY <1>3, <1>4, <1>5, <1>6 DEF members, PLAYER, PLAYER_WAITLIST, ABSENT
<1>10. \A v \in members(room') : v # u /\ v \in User
  BY <1>9 DEF members
<1>11. ASSUME NEW v \in User, NEW w \in User,
              is_waitlisted(room, v), room'.status[v] = PLAYER,
              is_waitlisted(room, w), room'.status[w] = PLAYER_WAITLIST
       PROVE  precedes(room, v, w)
  BY <1>6, <1>7, <1>8, <1>11 DEF PLAYER, PLAYER_WAITLIST, ABSENT
<1>12. ASSUME NEW v \in User, room'.game_started, is_waitlisted(room, v)
       PROVE  room'.status[v] # PLAYER
  BY <1>6, <1>7, <1>12 DEF is_waitlisted, PLAYER, PLAYER_WAITLIST, ABSENT
<1>13. ASSUME room'.owner # room.owner
       PROVE  /\ room'.status[room.owner] = ABSENT
              /\ \A v \in members(room') \ {room'.owner} : precedes(room, room'.owner, v)
  <2>1. room.owner = u /\ \A v \in members(n) \ {room'.owner} : precedes(n, room'.owner, v)
    BY <1>2, <1>4, <1>6, <1>13
  <2>. QED  BY <1>3, <1>4, <1>9, <1>10, <2>1 DEF precedes
<1>. QED  BY <1>11, <1>12, <1>13 DEF OrderlyStep

\* Every step is orderly, but for the member who joins again and for set_owner.
LEMMA StepIsOrderly ==
    ASSUME RoomInvariant, [Next]_vars
    PROVE  \/ OrderlyStep
           \/ \E u \in User, method \in Method :
                 /\ add_user(u, method)
                 /\ \A v \in User \ {u} : room'.status[v] = room.status[v]
                 /\ room'.owner # room.owner => room.owner = NoOwner
           \/ /\ call'.op = "set_owner"
              /\ room'.status = room.status
<1>0. Sound(room) /\ Owned(room) /\ room \in RoomRecord
  BY DEF RoomInvariant, Sound
<1>1. CASE UNCHANGED room
  BY <1>1, NoPromotion
<1>2. ASSUME NEW u \in User, NEW method \in Method, add_user(u, method), room' # room
      PROVE  /\ \A v \in User \ {u} : room'.status[v] = room.status[v]
             /\ room'.owner # room.owner => room.owner = NoOwner
  <2>1. PICK status \in Status : room' = admit(room, u, status)
    BY <1>2 DEF add_user
  <2>2. /\ room'.status = [room.status EXCEPT ![u] = status]
        /\ room'.owner = IF room.owner = NoOwner /\ u \notin members(room)
                         THEN u ELSE room.owner
    BY <1>0, <2>1, AdmitEffect
  <2>. QED  BY <1>0, <2>2 DEF RoomRecord
<1>3. ASSUME NEW u \in User, remove_user(u) PROVE OrderlyStep
  BY <1>0, <1>3, RemovalIsOrderly DEF remove_user
<1>4. ASSUME NEW u \in User, set_owner(u)
      PROVE  call'.op = "set_owner" /\ room'.status = room.status
  BY <1>0, <1>4 DEF set_owner, Called, RoomRecord
<1>5. ASSUME NEW limit \in Limits, SetPlayerLimit(limit) PROVE OrderlyStep
  <2>1. room'.owner = room.owner
    BY <1>0, <1>5, SetPlayerLimitSound, CallConstants DEF SetPlayerLimit, SameMembers
  <2>2. \A v \in User : room'.status[v] = room.status[v] \/ room.status[v] = PLAYER
    BY <1>0, <1>5, SetPlayerLimitEffect, CallConstants DEF SetPlayerLimit
  <2>. QED  BY <2>1, <2>2, NoPromotion
<1>6. ASSUME NEW limit \in Limits, SetSpectatorLimit(limit) PROVE OrderlyStep
  <2>1. room' = room \/ room' = undefined(room)
    BY <1>6 DEF SetSpectatorLimit
  <2>2. room'.owner = room.owner /\ room'.status = room.status
    BY <1>0, <2>1 DEF undefined, RoomRecord
  <2>. QED  BY <2>2, NoPromotion
<1>7. CASE KickNext
  <2>1. PICK u \in members(room) : RemoveMember(u)
    BY <1>7 DEF KickNext, begin, RoomInvariant
  <2>. QED  BY <1>0, <2>1, RemovalIsOrderly
<1>8. CASE FlushWaitlist
  <2>1. room' \in flush_waitlist(room)
    BY <1>8 DEF FlushWaitlist
  <2>2. room'.owner = room.owner
    BY <1>0, <2>1, FlushSound DEF SameMembers
  <2>3. /\ room.game_started => room'.status = room.status
        /\ \A u, v \in User : /\ is_waitlisted(room, u) /\ room'.status[u] = PLAYER
                              /\ is_waitlisted(room, v) /\ room'.status[v] = PLAYER_WAITLIST
                              => precedes(room, u, v)
    BY <1>0, <2>1, FlushEffect
  <2>. QED  BY <2>2, <2>3 DEF OrderlyStep, is_waitlisted, PLAYER, PLAYER_WAITLIST
\* A handler runs in a room in which everybody has the status they had before.
<1>9. ASSUME NEW r, Sound(r), r.owner = room.owner, r.status = room.status,
             room' \in handler_outcomes(r)
      PROVE  OrderlyStep
  <2>1. room'.owner = room.owner
    BY <1>9, HandlerSound DEF SameMembers
  <2>2. \A v \in User : room'.status[v] = room.status[v] \/ room.status[v] = PLAYER
    BY <1>9, HandlerEffect
  <2>. QED  BY <2>1, <2>2, NoPromotion
<1>10. CASE load_game
  <2> DEFINE ended == IF room.game /\ room.game_started THEN end_game(room) ELSE room
             loaded == [ended EXCEPT !.game = TRUE]
  <2>1. Sound(ended) /\ ended.owner = room.owner /\ ended.status = room.status
    BY <1>0, EndGameSound, ResetEffect DEF SameMembers
  <2>2. room' \in handler_outcomes(loaded)
    BY <1>10 DEF load_game
  <2> HIDE DEF ended
  <2>3. Sound(loaded) /\ loaded.owner = room.owner /\ loaded.status = room.status
    BY <2>1, FlagsSound DEF Sound, RoomRecord
  <2> HIDE DEF loaded
  <2>. QED  BY <1>9, <2>2, <2>3
<1>11. CASE start_game
  <2>1. /\ Sound(begin_game(room)) /\ begin_game(room).owner = room.owner
        /\ begin_game(room).status = room.status
    BY <1>0, EndGameSound, ResetEffect DEF SameMembers
  <2>. QED  BY <1>1, <1>9, <1>11, <2>1 DEF start_game
<1>12. CASE EndGame
  <2>1. room'.owner = room.owner /\ room'.status = room.status
    BY <1>0, <1>12, EndGameSound, ResetEffect DEF EndGame, SameMembers
  <2>. QED  BY <2>1, NoPromotion
<1>13. CASE game
  BY <1>0, <1>9, <1>13 DEF game
<1>14. CASE Halted \/ UNCHANGED vars
  BY <1>1, <1>14 DEF Halted, vars
<1>. QED
  BY <1>1, <1>2, <1>3, <1>4, <1>5, <1>6, <1>7, <1>8, <1>10, <1>11, <1>12, <1>13, <1>14 DEF Next

\* flush_waitlist, wherever it is called from and whatever the controller does
\* before, never promotes a member past one who has waited longer.
THEOREM WaitlistFairness == Spec => WaitlistIsFair
<1> DEFINE A == \A u, v \in User :
                  /\ call'.op \notin Method
                  /\ is_waitlisted(room, u) /\ room'.status[u] = PLAYER
                  /\ is_waitlisted(room, v) /\ room'.status[v] = PLAYER_WAITLIST
                  => precedes(room, u, v)
<1>1. RoomInvariant /\ [Next]_vars => [A]_vars
  <2> SUFFICES ASSUME RoomInvariant, [Next]_vars PROVE A
    OBVIOUS
  <2>1. ASSUME NEW u \in User, NEW method \in Method, add_user(u, method)
        PROVE  call'.op \in Method
    BY <2>1 DEF add_user, Called
  <2>. QED  BY <2>1, StepIsOrderly DEF OrderlyStep, is_waitlisted, PLAYER, PLAYER_WAITLIST
<1>. QED  BY <1>1, InvariantHolds, PTL DEF Spec, WaitlistIsFair

\* While a game runs nobody gets from the waitlist into it but by joining again.
THEOREM NoPromotionInGame == Spec => NoPromotionDuringGame
<1> DEFINE A == \A u \in User :
                  /\ room.game_started /\ room'.game_started
                  /\ is_waitlisted(room, u)
                  => room'.status[u] # PLAYER \/ (call'.op \in Method /\ call'.user = u)
<1>1. RoomInvariant /\ [Next]_vars => [A]_vars
  <2> SUFFICES ASSUME RoomInvariant, [Next]_vars PROVE A
    OBVIOUS
  <2>1. ASSUME NEW u \in User, NEW method \in Method, add_user(u, method)
        PROVE  call'.op \in Method /\ call'.user = u
    BY <2>1 DEF add_user, Called
  <2>. QED  BY <2>1, StepIsOrderly DEF OrderlyStep, is_waitlisted, PLAYER, PLAYER_WAITLIST
<1>. QED  BY <1>1, InvariantHolds, PTL DEF Spec, NoPromotionDuringGame

\* The owner changes hands only by set_owner, in an empty room, or to the
\* longest-standing member when the owner leaves, whatever the controller does in
\* between.
THEOREM Succession == Spec => OwnerSuccession
<1> DEFINE A == room'.owner # room.owner =>
                  \/ room.owner = NoOwner
                  \/ call'.op = "set_owner"
                  \/ /\ room'.status[room.owner] = ABSENT
                     /\ \A v \in members(room') \ {room'.owner} :
                          precedes(room, room'.owner, v)
<1>1. RoomInvariant /\ [Next]_vars => [A]_vars
  BY StepIsOrderly DEF OrderlyStep
<1>. QED  BY <1>1, InvariantHolds, PTL DEF Spec, OwnerSuccession
=============================================================================
