---------------------------- MODULE ServerProofs ----------------------------
(***************************************************************************)
(* Proofs about Server and Commands, for every set of users, room objects  *)
(* and lines.  First what each command does to the rooms and the maps of   *)
(* the manager, then what the tick and the network threads do around it;   *)
(* last, that lines do what packets may do, and what becomes of the names. *)
(***************************************************************************)
EXTENDS Commands, RoomStateProofs, WellFoundedInduction

\* The part of the invariant that is about ServerManager alone.
ManagerSound ==
    /\ room_of \in [User -> RoomObject \cup {NoRoom}]
    /\ listed \subseteq RoomObject
    /\ rooms \in [RoomObject -> RoomRecord]
    /\ down \in BOOLEAN
    /\ \A k \in RoomObject : Sound(rooms[k]) /\ Owned(rooms[k])
    /\ MemberIsMapped

\* No map entry but u's changes, and rooms that are listed stay occupied.
OnlyMoves(u) ==
    /\ \A v \in User \ {u} : room_of'[v] = room_of[v]
    /\ ListedRoomIsOccupied => ListedRoomIsOccupied'

\* Nobody becomes a member of a room.
NobodyEnters == \A k \in RoomObject : members(rooms'[k]) \subseteq members(rooms[k])

-----------------------------------------------------------------------------
(* Rooms. *)

\* The calls of a controller keep the members of the room.
LEMMA ControllerSound ==
    ASSUME NEW r, Sound(r), NEW s \in controller_calls(r)
    PROVE  Sound(s) /\ SameMembers(r, s)
<1>1. CASE s = r
  BY <1>1 DEF SameMembers
<1>2. CASE s = end_game(r)
  BY <1>2, EndGameSound
<1>3. CASE \E S \in SUBSET players(r) : s = disqualify_player(r, S)
  <2>1. players(r) \in SUBSET members(r)
    BY DEF players, Sound, Consistent, members, is_player, PLAYER, ABSENT
  <2>. QED  BY <1>3, <2>1, DisqualifySound
<1>. QED  BY <1>1, <1>2, <1>3 DEF controller_calls

\* Room::remove_user takes one member out of a sound room.
LEMMA RemovalSound ==
    ASSUME NEW r, Sound(r), Owned(r), NEW u \in members(r), NEW s \in removals(r, u)
    PROVE  Sound(s) /\ Owned(s) /\ members(s) = members(r) \ {u}
<1> DEFINE d == detach(r, u)
<1>1. Sound(d) /\ members(d) = members(r) \ {u} /\ d.owner = r.owner
  BY DetachSound
<1>2. PICK n : (n = d \/ n \in controller_calls(d)) /\ s \in settle(n, u)
  BY DEF removals
<1> HIDE DEF d
<1>3. Sound(n) /\ members(n) = members(r) \ {u} /\ n.owner = r.owner
  BY <1>1, <1>2, ControllerSound DEF SameMembers
<1>4. u \in User /\ u \notin members(n) /\ (n.owner = u \/ Owned(n))
  BY <1>3 DEF members, Owned
<1>. QED  BY <1>2, <1>3, <1>4, SettleSound

\* Active players are members.
LEMMA PlayersAreMembers ==
    ASSUME NEW r, Sound(r)
    PROVE  players(r) \subseteq members(r)
BY DEF players, Sound, Consistent, members, is_player, PLAYER, ABSENT

-----------------------------------------------------------------------------
(* The manager. *)

\* A user enters a room that is listed afterwards.
LEMMA JoinSound ==
    ASSUME ManagerSound, ~down, UNCHANGED down, NEW u \in User, room_of[u] = NoRoom,
           NEW k \in RoomObject, NEW r, Sound(r), Owned(r),
           r = rooms[k] \/ (members(r) = {} /\ \A v \in User : room_of[v] # k),
           user_join_room(u, k, r), listed' = listed \cup {k}
    PROVE  /\ ManagerSound' /\ OnlyMoves(u)
           /\ members(rooms'[k]) = members(r) \cup {u}
           /\ \A j \in RoomObject \ {k} : rooms'[j] = rooms[j]
<1> DEFINE s == admit(r, u, join_status(r, u, "AS_PLAYER_WAITING"))
<1>1. Sound(s) /\ Owned(s) /\ members(s) = members(r) \cup {u}
  BY AdmitSound DEF user_join_room, Method
<1>2. /\ rooms' = [rooms EXCEPT ![k] = s]
      /\ room_of' = [room_of EXCEPT ![u] = k]
  BY DEF user_join_room
<1> HIDE DEF s
<1>3. /\ rooms' \in [RoomObject -> RoomRecord] /\ rooms'[k] = s
      /\ \A j \in RoomObject \ {k} : rooms'[j] = rooms[j]
      /\ room_of' \in [User -> RoomObject \cup {NoRoom}] /\ room_of'[u] = k
      /\ \A v \in User \ {u} : room_of'[v] = room_of[v]
      /\ down' \in BOOLEAN
  BY <1>1, <1>2 DEF ManagerSound, Sound
<1>4. \A j \in RoomObject : Sound(rooms'[j]) /\ Owned(rooms'[j])
  BY <1>1, <1>3 DEF ManagerSound
<1>5. MemberIsMapped'
  <2> SUFFICES ASSUME NEW j \in RoomObject, NEW v \in User, v \in members(rooms'[j])
               PROVE  room_of'[v] = j
    BY DEF MemberIsMapped, members
  <2>1. \A i \in RoomObject, w \in User : w \in members(rooms[i]) => room_of[w] = i
    BY DEF ManagerSound, MemberIsMapped
  <2>2. u \notin members(rooms[j])
    BY <2>1, ServerConstants
  <2>3. CASE j # k
    BY <1>3, <2>1, <2>2, <2>3
  <2>4. CASE j = k /\ v # u
    <3>1. v \in members(r)
      BY <1>1, <1>3, <2>4
    <3>. QED  BY <1>3, <2>1, <2>4, <3>1
  <2>5. CASE j = k /\ v = u
    BY <1>3, <2>5
  <2>. QED  BY <2>3, <2>4, <2>5
<1>6. ListedRoomIsOccupied => ListedRoomIsOccupied'
  BY <1>1, <1>3 DEF ManagerSound, ListedRoomIsOccupied, members
<1>. QED  BY <1>1, <1>3, <1>4, <1>5, <1>6 DEF ManagerSound, OnlyMoves

\* A user leaves its room, which goes with its last player, or the server fails.
LEMMA LeaveSound ==
    ASSUME ManagerSound, ~down, NEW u \in User, room_of[u] # NoRoom,
           user_leave_room(u, room_of[u])
    PROVE  ManagerSound' /\ OnlyMoves(u) /\ NobodyEnters /\ room_of'[u] = NoRoom
<1> DEFINE k == room_of[u]
<1>0. k \in RoomObject /\ Sound(rooms[k]) /\ Owned(rooms[k])
  BY DEF ManagerSound
<1>1. /\ room_of' = [room_of EXCEPT ![u] = NoRoom]
      /\ room_of' \in [User -> RoomObject \cup {NoRoom}] /\ room_of'[u] = NoRoom
      /\ \A v \in User \ {u} : room_of'[v] = room_of[v]
  BY DEF user_leave_room, ManagerSound
<1>2. CASE down' = TRUE /\ UNCHANGED <<listed, rooms>>
  BY <1>1, <1>2 DEF ManagerSound, MemberIsMapped, ListedRoomIsOccupied, OnlyMoves, NobodyEnters
<1>3. CASE u \in players(rooms[k])
  <2>1. PICK r \in removals(rooms[k], u) :
             /\ listed' = IF players(r) = {} THEN listed \ {k} ELSE listed
             /\ down' = (players(r) = {} /\ k \notin listed)
             /\ rooms' = [rooms EXCEPT ![k] =
                  collected(k, r, listed', [room_of EXCEPT ![u] = NoRoom])]
    BY <1>3 DEF user_leave_room
  <2> DEFINE s == collected(k, r, listed', [room_of EXCEPT ![u] = NoRoom])
  <2>2. u \in members(rooms[k])
    BY <1>0, <1>3, PlayersAreMembers
  <2>3. Sound(r) /\ Owned(r) /\ members(r) = members(rooms[k]) \ {u}
    BY <1>0, <2>2, RemovalSound
  <2>4. Sound(s) /\ Owned(s) /\ (s = r \/ (members(s) = {} /\ k \notin listed'))
    BY <2>3, NewRoomSound DEF collected
  <2> HIDE DEF s, k
  <2>5. /\ rooms' \in [RoomObject -> RoomRecord] /\ rooms'[k] = s
        /\ \A j \in RoomObject \ {k} : rooms'[j] = rooms[j]
    BY <1>0, <2>1, <2>4 DEF ManagerSound, Sound, s
  <2>6. /\ listed' \subseteq RoomObject /\ down' \in BOOLEAN
        /\ \A j \in RoomObject : Sound(rooms'[j]) /\ Owned(rooms'[j])
    BY <2>1, <2>4, <2>5 DEF ManagerSound
  <2>7. MemberIsMapped'
    <3> SUFFICES ASSUME NEW j \in RoomObject, NEW v \in User, v \in members(rooms'[j])
                 PROVE  room_of'[v] = j
      BY DEF MemberIsMapped, members
    <3>1. \A i \in RoomObject, w \in User : w \in members(rooms[i]) => room_of[w] = i
      BY DEF ManagerSound, MemberIsMapped
    <3>2. v # u /\ v \in members(rooms[j])
      BY <1>0, <2>3, <2>4, <2>5, <3>1 DEF k
    <3>. QED  BY <1>1, <3>1, <3>2
  <2>8. ListedRoomIsOccupied => ListedRoomIsOccupied'
    <3> SUFFICES ASSUME ListedRoomIsOccupied, ~down', NEW j \in listed'
                 PROVE  members(rooms'[j]) # {}
      BY DEF ListedRoomIsOccupied, members
    <3>1. CASE j # k
      BY <2>1, <2>5, <3>1 DEF ManagerSound, ListedRoomIsOccupied
    <3>2. CASE j = k
      <4>1. players(r) # {} /\ s = r
        BY <2>1, <2>4, <3>2
      <4>. QED  BY <2>3, <2>5, <3>2, <4>1, <1>0, PlayersAreMembers
    <3>. QED  BY <3>1, <3>2
  <2>9. NobodyEnters
    BY <1>0, <2>3, <2>4, <2>5 DEF NobodyEnters
  <2>. QED  BY <1>1, <2>5, <2>6, <2>7, <2>8, <2>9 DEF ManagerSound, OnlyMoves
<1>. QED  BY <1>2, <1>3 DEF user_leave_room

\* A room changes, and at least one of its members stays.
LEMMA RoomBecomesSound ==
    ASSUME ManagerSound, ~down, NEW u \in User, room_of[u] # NoRoom, NEW S,
           \A r \in S : /\ Sound(r) /\ Owned(r)
                        /\ members(r) \subseteq members(rooms[room_of[u]])
                        /\ members(r) # {},
           RoomBecomes(u, S)
    PROVE  ManagerSound' /\ OnlyMoves(u) /\ NobodyEnters
<1> DEFINE k == room_of[u]
<1>0. k \in RoomObject
  BY DEF ManagerSound
<1>1. PICK r \in S : rooms' = [rooms EXCEPT ![k] = r]
  BY DEF RoomBecomes
<1> HIDE DEF k
<1>2. /\ rooms' \in [RoomObject -> RoomRecord] /\ rooms'[k] = r
      /\ \A j \in RoomObject \ {k} : rooms'[j] = rooms[j]
      /\ UNCHANGED <<room_of, listed, down>>
  BY <1>0, <1>1 DEF ManagerSound, Sound, RoomBecomes
<1>3. /\ Sound(r) /\ Owned(r) /\ members(r) # {}
      /\ members(r) \subseteq members(rooms[k])
  BY <1>1 DEF k
<1>4. \A j \in RoomObject : Sound(rooms'[j]) /\ Owned(rooms'[j])
  BY <1>2, <1>3 DEF ManagerSound
<1>5. MemberIsMapped' /\ (ListedRoomIsOccupied => ListedRoomIsOccupied') /\ NobodyEnters
  BY <1>0, <1>2, <1>3
     DEF ManagerSound, MemberIsMapped, ListedRoomIsOccupied, members, NobodyEnters
<1>. QED  BY <1>2, <1>4, <1>5 DEF ManagerSound, OnlyMoves

\* Whatever packet the loop processes, the manager stays sound and only its
\* sender's map entry changes.
LEMMA PacketSound ==
    ASSUME ManagerSound, ~down, NEW u \in User,
           \/ create(u) \/ join(u) \/ leave(u) \/ kick(u)
           \/ load(u) \/ start(u) \/ end(u) \/ game(u)
    PROVE  /\ ManagerSound' /\ OnlyMoves(u)
           /\ ~create(u) /\ ~join(u) => NobodyEnters
<1> DEFINE k == room_of[u]
           r == rooms[k]
<1>1. CASE create(u)
  <2>1. PICK j \in RoomObject \ listed :
             /\ \A v \in User : room_of[v] # j
             /\ user_join_room(u, j, new_room(FALSE))
             /\ listed' = listed \cup {j}
    BY <1>1 DEF create
  <2>2. room_of[u] = NoRoom /\ UNCHANGED down
    BY <1>1 DEF create
  <2>3. Sound(new_room(FALSE)) /\ Owned(new_room(FALSE)) /\ members(new_room(FALSE)) = {}
    BY NewRoomSound
  <2>. QED  BY <1>1, <2>1, <2>2, <2>3, JoinSound
<1>2. CASE join(u)
  <2>1. PICK j \in listed : user_join_room(u, j, rooms[j])
    BY <1>2 DEF join
  <2>2. /\ room_of[u] = NoRoom /\ UNCHANGED down /\ listed' = listed \cup {j}
        /\ j \in RoomObject /\ Sound(rooms[j]) /\ Owned(rooms[j])
    BY <1>2 DEF join, ManagerSound
  <2>. QED  BY <1>2, <2>1, <2>2, JoinSound
<1>3. CASE leave(u)
  BY <1>3, LeaveSound DEF leave
<1>4. ASSUME InRoom(u)
      PROVE  k \in RoomObject /\ k # NoRoom /\ Sound(r) /\ Owned(r) /\ u \in members(r)
  BY <1>4 DEF InRoom, ManagerSound
<1>5. CASE kick(u)
  <2>1. PICK v \in members(r) \ {u} : RoomBecomes(u, removals(r, v))
    BY <1>5 DEF kick
  <2>2. Sound(r) /\ Owned(r) /\ u \in members(r) /\ k # NoRoom
    BY <1>4, <1>5 DEF kick, Owns
  <2>3. \A s \in removals(r, v) : /\ Sound(s) /\ Owned(s) /\ members(s) # {}
                                  /\ members(s) \subseteq members(r)
    BY <2>2, RemovalSound
  <2>. QED  BY <2>1, <2>2, <2>3, RoomBecomesSound
<1>6. ASSUME InRoom(u), NEW S, RoomBecomes(u, S),
             \A s \in S : Sound(s) /\ members(s) = members(r) /\ s.owner = r.owner
      PROVE  ManagerSound' /\ OnlyMoves(u) /\ NobodyEnters
  <2>1. Sound(r) /\ Owned(r) /\ u \in members(r) /\ k # NoRoom
    BY <1>4, <1>6
  <2> HIDE DEF r
  <2>2. \A s \in S : /\ Sound(s) /\ Owned(s) /\ members(s) # {}
                     /\ members(s) \subseteq members(r)
    BY <1>6, <2>1 DEF Owned
  <2>. QED  BY <1>6, <2>1, <2>2, RoomBecomesSound DEF r
<1>7. CASE load(u)
  <2> DEFINE ended == IF r.game /\ r.game_started THEN end_game(r) ELSE r
             loaded == [ended EXCEPT !.game = TRUE]
  <2>1. InRoom(u) /\ RoomBecomes(u, {loaded})
    BY <1>7 DEF load, Owns
  <2>2. Sound(ended) /\ members(ended) = members(r) /\ ended.owner = r.owner
    BY <1>4, <2>1, EndGameSound DEF SameMembers
  <2> HIDE DEF ended, r
  <2>3. Sound(loaded) /\ members(loaded) = members(r) /\ loaded.owner = r.owner
    BY <2>2, FlagsSound
  <2> HIDE DEF loaded
  <2>4. \A s \in {loaded} : Sound(s) /\ members(s) = members(r) /\ s.owner = r.owner
    BY <2>3
  <2>. QED  BY <1>6, <2>1, <2>4 DEF r
<1>8. CASE start(u) \/ end(u)
  <2>1. InRoom(u) /\ (RoomBecomes(u, {begin_game(r)}) \/ RoomBecomes(u, {end_game(r)}))
    BY <1>8 DEF start, end, Owns
  <2>2. /\ Sound(begin_game(r)) /\ SameMembers(r, begin_game(r))
        /\ Sound(end_game(r)) /\ SameMembers(r, end_game(r))
    BY <1>4, <2>1, EndGameSound
  <2>. QED  BY <1>6, <2>1, <2>2 DEF SameMembers
<1>9. CASE game(u)
  <2>1. InRoom(u) /\ RoomBecomes(u, controller_calls(r))
    BY <1>9 DEF game
  <2>2. \A s \in controller_calls(r) : Sound(s) /\ SameMembers(r, s)
    BY <1>4, <2>1, ControllerSound
  <2>. QED  BY <1>6, <2>1, <2>2 DEF SameMembers
<1>. QED  BY <1>1, <1>2, <1>3, <1>5, <1>7, <1>8, <1>9

\* A disconnection that is processed leaves its user without a room.
LEMMA RemoveUserSound ==
    ASSUME ManagerSound, ~down, NEW u \in User, u \notin known => room_of[u] = NoRoom,
           remove_user(u)
    PROVE  ManagerSound' /\ OnlyMoves(u) /\ NobodyEnters /\ room_of'[u] = NoRoom
<1>1. CASE u \in known /\ room_of[u] # NoRoom /\ user_leave_room(u, room_of[u])
  BY <1>1, LeaveSound
<1>2. CASE room_of[u] = NoRoom /\ UNCHANGED <<room_of, listed, rooms, down>>
  BY <1>2 DEF ManagerSound, MemberIsMapped, ListedRoomIsOccupied, OnlyMoves, NobodyEnters
<1>. QED  BY <1>1, <1>2 DEF remove_user

-----------------------------------------------------------------------------
(* The tick and the network threads. *)

\* The part of the invariant that is about the loop, its list and its clients.
LoopSound ==
    /\ clients \subseteq User /\ disconnected \subseteq User
    /\ accepted \subseteq User /\ known \subseteq User
    /\ closing \in [user : User \cup {Nobody}, at : ClosingStep]
    /\ phase \in Phase /\ todo \subseteq User /\ current \in User \cup {Nobody}
    /\ closing.user = Nobody <=> closing.at = "open"
    /\ phase # "packets" => current = Nobody
    /\ phase \in {"sleep", "unlocked"} => todo = {}

\* What the maps owe to it.
LostUsersAreOut ==
    /\ \A u \in known \ (clients \cup disconnected) : ~down => room_of[u] = NoRoom
    /\ \A u \in User \ known : room_of[u] = NoRoom
    /\ phase = "packets" => todo \cup ({current} \ {Nobody}) \subseteq clients \cup disconnected
    /\ phase = "disconnections" => \A u \in disconnected \ todo : room_of[u] = NoRoom
    /\ closing.at = "emitted" =>
         \/ closing.user \in disconnected
         \/ phase = "unlocked" /\ room_of[closing.user] = NoRoom

\* The inductive invariant, cut into what the manager, the loop and both keep.
LEMMA InvariantParts ==
    ServiceInvariant <=> ManagerSound /\ LoopSound /\ LostUsersAreOut
<1>1. ServiceInvariant => ManagerSound /\ LoopSound
  BY DEF ServiceInvariant, RoomsAreSound, TypeOK, ManagerSound, LoopSound
<1>2. ServiceInvariant => LostUsersAreOut
  BY DEF ServiceInvariant, GoneForGood, LostUsersAreOut
<1>3. ASSUME ManagerSound, LoopSound, LostUsersAreOut
      PROVE  ServiceInvariant
  <2>1. RoomsAreSound /\ MemberIsMapped
    BY <1>3 DEF RoomsAreSound, TypeOK, ManagerSound, LoopSound
  <2>2. GoneForGood
    <3> SUFFICES ASSUME NEW u \in known \ (clients \cup disconnected), ~down
                 PROVE  room_of[u] = NoRoom /\ \A k \in RoomObject : u \notin members(rooms[k])
      BY DEF GoneForGood
    <3>1. u \in User /\ room_of[u] = NoRoom
      BY <1>3 DEF LoopSound, LostUsersAreOut
    <3>. QED  BY <2>1, <3>1, ServerConstants DEF MemberIsMapped
  <2>. QED  BY <1>3, <2>1, <2>2 DEF ServiceInvariant, LoopSound, LostUsersAreOut
<1>. QED  BY <1>1, <1>2, <1>3

\* The server starts without users and rooms.
LEMMA InitInvariant == Init => ServerInvariant
<1> SUFFICES ASSUME Init
             PROVE  ManagerSound /\ LoopSound /\ LostUsersAreOut /\ ListedRoomIsOccupied
  BY InvariantParts DEF ServerInvariant
<1>1. Sound(new_room(FALSE)) /\ Owned(new_room(FALSE)) /\ members(new_room(FALSE)) = {}
  BY NewRoomSound
<1>2. \A k \in RoomObject : rooms[k] = new_room(FALSE)
  BY DEF Init
<1>3. rooms \in [RoomObject -> RoomRecord]
  BY <1>1 DEF Init, Sound
<1>4. ManagerSound /\ ListedRoomIsOccupied
  BY <1>1, <1>2, <1>3 DEF Init, ManagerSound, MemberIsMapped, ListedRoomIsOccupied
<1>5. LoopSound /\ LostUsersAreOut
  BY DEF Init, LoopSound, LostUsersAreOut, Open, ClosingStep, Phase
<1>. QED  BY <1>4, <1>5

\* Every step of the network threads and of the loop keeps the invariant.
LEMMA NextParts ==
    ASSUME ManagerSound, LoopSound, LostUsersAreOut, [Next]_vars
    PROVE  /\ (ManagerSound /\ LoopSound /\ LostUsersAreOut)'
           /\ ListedRoomIsOccupied => ListedRoomIsOccupied'
<1> DEFINE Kept == /\ (ManagerSound /\ LoopSound /\ LostUsersAreOut)'
                   /\ ListedRoomIsOccupied => ListedRoomIsOccupied'
<1>1. ASSUME UNCHANGED <<room_of, listed, rooms, down>>
      PROVE  ManagerSound' /\ (ListedRoomIsOccupied => ListedRoomIsOccupied')
  BY <1>1 DEF ManagerSound, MemberIsMapped, ListedRoomIsOccupied
<1> USE DEF LoopSound, LostUsersAreOut, network_vars, manager_vars, tick_vars
<1>2. ASSUME NEW u \in User, accept(u) PROVE Kept
  BY <1>1, <1>2 DEF accept
<1>3. ASSUME NEW u \in User, on_accept(u) PROVE Kept
  BY <1>1, <1>3 DEF on_accept
<1>4. ASSUME NEW u \in User, disconnect(u) PROVE Kept
  BY <1>1, <1>4, RoomConstants DEF disconnect, ClosingStep, Nobody
<1>5. CASE on_close
  BY <1>1, <1>5 DEF on_close, ClosingStep
<1>6. CASE disconnected_client
  BY <1>1, <1>6 DEF disconnected_client, Open, ClosingStep
<1>7. CASE tick
  BY <1>1, <1>7 DEF tick, Phase
<1>8. CASE disconnections_done
  BY <1>1, <1>8 DEF disconnections_done, Phase
<1>9. CASE copy_clients
  BY <1>1, <1>9 DEF copy_clients, Phase
<1>10. ASSUME NEW u \in User, process_disconnection(u)
       PROVE  Kept
  <2>1. ManagerSound' /\ OnlyMoves(u) /\ room_of'[u] = NoRoom
    BY <1>10, RemoveUserSound DEF process_disconnection
  <2>. QED  BY <1>10, <2>1 DEF process_disconnection, OnlyMoves
<1>11. ASSUME NEW u \in User, next_client(u) PROVE Kept
  BY <1>1, <1>11 DEF next_client
<1>12. CASE process_packet
  <2>1. current \in User /\ current \in known /\ ~down
    BY <1>12 DEF process_packet
  <2>2. ManagerSound' /\ OnlyMoves(current)
    BY <1>12, <2>1, PacketSound DEF process_packet
  <2>. QED  BY <1>12, <2>1, <2>2, RoomConstants DEF process_packet, OnlyMoves, Nobody
<1>13. CASE drained
  BY <1>1, <1>13 DEF drained
<1>14. CASE tick_done
  BY <1>1, <1>14 DEF tick_done, Phase
<1>15. CASE UNCHANGED vars
  BY <1>1, <1>15 DEF vars
<1>. QED
  BY <1>2, <1>3, <1>4, <1>5, <1>6, <1>7, <1>8, <1>9, <1>10, <1>11, <1>12, <1>13, <1>14,
     <1>15 DEF Next, Died

\* So the invariant is inductive, with and without the occupation of rooms.
LEMMA NextService == ServiceInvariant /\ [Next]_vars => ServiceInvariant'
BY InvariantParts, NextParts, PTL

\* The same with the occupation.
LEMMA NextInvariant == ServerInvariant /\ [Next]_vars => ServerInvariant'
<1> SUFFICES ASSUME ServiceInvariant, ListedRoomIsOccupied, [Next]_vars
             PROVE  ServiceInvariant' /\ ListedRoomIsOccupied'
  BY DEF ServerInvariant
<1>1. ServiceInvariant'
  BY NextService
<1>2. ListedRoomIsOccupied'
  BY InvariantParts, NextParts
<1>. QED  BY <1>1, <1>2

\* The inductive invariant holds in every state of the server.
LEMMA ServerInvariantHolds == Spec => []ServerInvariant
BY InitInvariant, NextInvariant, PTL DEF Spec

\* Whatever order the commands of members and the disconnections are processed
\* in, every room of the server is sound and owned.
THEOREM RoomsSoundness == Spec => []RoomsAreSound
<1>1. ServerInvariant => RoomsAreSound
  BY DEF ServerInvariant, ServiceInvariant
<1>. QED  BY <1>1, ServerInvariantHolds, PTL

\* Until the process dies, a user is a member of no room but the one
\* _userid_to_room gives.
THEOREM Mapping == Spec => []MemberIsMapped
<1>1. ServerInvariant => MemberIsMapped
  BY DEF ServerInvariant, ServiceInvariant
<1>. QED  BY <1>1, ServerInvariantHolds, PTL

\* Until the process dies, /join finds no deserted room.
THEOREM Occupation == Spec => []ListedRoomIsOccupied
<1>1. ServerInvariant => ListedRoomIsOccupied
  BY DEF ServerInvariant, ServiceInvariant
<1>. QED  BY <1>1, ServerInvariantHolds, PTL

\* A user whose disconnection has been processed is in no room and no packet that
\* was still on its way brings it back, for any number of users and rooms and any
\* interleaving of the closing handlers with the tick.
THEOREM Departure == Spec => []GoneForGood
<1>1. ServerInvariant => GoneForGood
  BY DEF ServerInvariant, ServiceInvariant
<1>. QED  BY <1>1, ServerInvariantHolds, PTL

-----------------------------------------------------------------------------
(* The command maps. *)

\* Every set of natural numbers that is not empty has a least one.
LEMMA LeastNumber ==
    ASSUME NEW T \in SUBSET Nat, T # {}
    PROVE  \E n \in T : \A m \in T : n <= m
<1> DEFINE R == {ss \in Nat \X Nat : ss[1] < ss[2]}
<1>1. IsWellFoundedOn(R, Nat)
  BY NatLessThanWellFounded DEF OpToRel
<1> HIDE DEF R
<1>2. PICK n \in T : \A m \in T : ~(<<m, n>> \in R)
  BY <1>1, WFMin
<1>3. \A m \in T : ~(m < n)
  BY <1>2 DEF R
<1>. QED  BY <1>3

\* What CommandMap gives for a name was inserted with that name.
LEMMA InsertedEntry ==
    ASSUME NEW entries, NEW l \in Nat, DOMAIN entries = 1..l, NEW n \in DOMAIN inserted(entries)
    PROVE  \E i \in 1..l : entries[i][1] = n /\ inserted(entries)[n] = entries[i][2]
<1> DEFINE T == {i \in 1..l : entries[i][1] = n}
           First(i) == entries[i][1] = n /\ \A j \in 1..i-1 : entries[j][1] # n
           found == CHOOSE i \in DOMAIN entries : First(i)
<1>1. T \in SUBSET Nat /\ T # {}
  BY DEF inserted
<1>2. PICK i \in T : \A m \in T : i <= m
  BY <1>1, LeastNumber
<1>3. \E k \in DOMAIN entries : First(k)
  <2>1. i \in DOMAIN entries /\ entries[i][1] = n /\ i \in Nat
    BY <1>2
  <2>2. \A j \in 1..i-1 : entries[j][1] # n
    BY <1>2
  <2>. QED  BY <2>1, <2>2
<1>4. found \in DOMAIN entries /\ First(found)
  BY <1>3, Zenon
<1>5. inserted(entries)[n] = entries[found][2]
  BY DEF inserted
<1>. QED  BY <1>4, <1>5

\* The server's own commands are answered, or create, join and leave rooms.
LEMMA GlobalExecutors ==
    ASSUME NEW n \in DOMAIN GLOBAL_COMMAND_MAP
    PROVE  \/ GLOBAL_COMMAND_MAP[n] \in {"answer", "need_a_room", "leave"}
           \/ n = "create" /\ GLOBAL_COMMAND_MAP[n] = "create"
           \/ n = "join" /\ GLOBAL_COMMAND_MAP[n] = "join"
<1> DEFINE e == << stub_room_only("nick"), stub_room_only("kick"), stub_room_only("members"),
                   answering("ping"), answering("clear"), answering("whoami"),
                   <<"create", "create">>, <<"join", "join">>, <<"leave", "leave">> >>
<1>1. DOMAIN e = 1..9 /\ GLOBAL_COMMAND_MAP = inserted(e)
  BY DEF GLOBAL_COMMAND_MAP
<1>2. /\ e[1] = <<"nick", "need_a_room">> /\ e[2] = <<"kick", "need_a_room">> /\ e[3] = <<"members", "need_a_room">>
      /\ e[4] = <<"ping", "answer">> /\ e[5] = <<"clear", "answer">> /\ e[6] = <<"whoami", "answer">>
      /\ e[7] = <<"create", "create">> /\ e[8] = <<"join", "join">> /\ e[9] = <<"leave", "leave">>
  BY DEF stub_room_only, answering
<1> HIDE DEF e
<1>3. 9 \in Nat /\ n \in DOMAIN inserted(e)
  BY <1>1
<1>4. \E i \in 1..9 : e[i][1] = n /\ inserted(e)[n] = e[i][2]
  BY <1>1, <1>3, InsertedEntry, Zenon
<1>5. PICK i \in 1..9 : e[i][1] = n /\ GLOBAL_COMMAND_MAP[n] = e[i][2]
  BY <1>1, <1>4, Zenon
<1>6. CASE i \in {1, 2, 3, 4, 5, 6, 9}
  <2>1. e[i][2] \in {"answer", "need_a_room", "leave"}
    BY <1>2, <1>6
  <2>. QED  BY <1>5, <2>1, Zenon
<1>7. CASE i = 7
  <2>1. e[i][1] = "create" /\ e[i][2] = "create"
    BY <1>2, <1>7
  <2>. QED  BY <1>5, <2>1, Zenon
<1>8. CASE i = 8
  <2>1. e[i][1] = "join" /\ e[i][2] = "join"
    BY <1>2, <1>8
  <2>. QED  BY <1>5, <2>1, Zenon
<1>9. i \in {1, 2, 3, 4, 5, 6, 9} \/ i = 7 \/ i = 8
  OBVIOUS
<1>. QED  BY <1>6, <1>7, <1>8, <1>9, Zenon

\* A room's commands never create, join or leave one.
LEMMA RoomExecutors ==
    ASSUME NEW n \in DOMAIN room_commands
    PROVE  room_commands[n] \in {"answer", "nick", "kick", "load", "start", "end"}
<1> DEFINE e == << answering("members"), answering("room"), <<"nick", "nick">>, <<"kick", "kick">>,
                   answering("option"), answering("options"), <<"load", "load">>, <<"end", "end">>,
                   <<"start", "start">> >>
<1>1. DOMAIN e = 1..9 /\ room_commands = inserted(e)
  BY DEF room_commands
<1>2. /\ e[1] = <<"members", "answer">> /\ e[2] = <<"room", "answer">> /\ e[3] = <<"nick", "nick">>
      /\ e[4] = <<"kick", "kick">> /\ e[5] = <<"option", "answer">> /\ e[6] = <<"options", "answer">>
      /\ e[7] = <<"load", "load">> /\ e[8] = <<"end", "end">> /\ e[9] = <<"start", "start">>
  BY DEF answering
<1> HIDE DEF e
<1>3. 9 \in Nat /\ n \in DOMAIN inserted(e)
  BY <1>1
<1>4. \E i \in 1..9 : e[i][1] = n /\ inserted(e)[n] = e[i][2]
  BY <1>1, <1>3, InsertedEntry, Zenon
<1>5. PICK i \in 1..9 : e[i][1] = n /\ room_commands[n] = e[i][2]
  BY <1>1, <1>4, Zenon
<1>6. CASE i \in {1, 2, 3}
  BY <1>2, <1>5, <1>6
<1>7. CASE i \in {4, 5, 6}
  BY <1>2, <1>5, <1>7
<1>8. CASE i \in {7, 8, 9}
  BY <1>2, <1>5, <1>8
<1>. QED  BY <1>6, <1>7, <1>8

-----------------------------------------------------------------------------
(* What a line does. *)

\* A member of a room takes a name that nobody in it has.
Renames(u) ==
    /\ InRoom(u)
    /\ \E n \in NicknameWords : nobody_named(Room_(u), n) /\ set_nickname(u, n)
    /\ UNCHANGED <<room_of, listed, rooms, down>>

\* A user does something to its room, or leaves it.
Plays(u) ==
    /\ leave(u) \/ kick(u) \/ load(u) \/ start(u) \/ end(u) \/ game(u)
    /\ UNCHANGED names

\* A user without a room is on its way into a new one, or into one on the list.
EntersRoom(u, k, r) ==
    /\ room_of[u] = NoRoom
    /\ \/ k \in FreeRooms /\ listed' = listed \cup {k} /\ r = new_room(FALSE)
       \/ k \in listed /\ listed' = listed /\ r = rooms[k]
    /\ join_with_name(u, k, r)

Enters(u) ==
    /\ is_command(packet) /\ parse(packet) # NoPacket
    /\ parse(packet).name \in {"create", "join"}
    /\ \E k, r : EntersRoom(u, k, r)

\* The room that a member's commands go to is sound.
LEMMA OwnRoom ==
    ASSUME ManagerSound, NEW u \in User, InRoom(u)
    PROVE  /\ room_of[u] \in RoomObject /\ Sound(Room_(u)) /\ u \in members(Room_(u))
           /\ Room_(u).cached_users = members(Room_(u))
BY DEF InRoom, Room_, ManagerSound, Sound, Consistent

\* A room's command answers, renames its sender, or does something to the room.
LEMMA RoomCommandOutcome ==
    ASSUME ManagerSound, NEW u \in User, InRoom(u), NEW command,
           command.name \in DOMAIN room_commands, execute(room_commands, u, command)
    PROVE  Answer \/ Renames(u) \/ Plays(u)
<1> DEFINE args == command.arguments
<1>1. \/ Answer \/ nick_executor(u, args) \/ kick_executor(u, args) \/ load_executor(u, args)
      \/ start_executor(u, args) \/ end_executor(u, args)
  BY RoomExecutors DEF execute
<1>2. CASE nick_executor(u, args)
  BY <1>2 DEF nick_executor, may_set_nickname, Renames, IsNickname
<1>3. CASE kick_executor(u, args)
  <2>1. CASE Answer
    BY <2>1
  <2>2. CASE /\ Room_(u).owner = u /\ UNCHANGED names
             /\ \E v \in find_user(Room_(u), args[1]) \ {u} : RoomBecomes(u, removals(Room_(u), v))
    <3>1. find_user(Room_(u), args[1]) \subseteq members(Room_(u))
      BY OwnRoom DEF find_user, begin
    <3>. QED  BY <2>2, <3>1 DEF Plays, kick, Owns, Room_
  <2>. QED  BY <1>3, <2>1, <2>2 DEF kick_executor
<1>4. CASE load_executor(u, args)
  BY <1>4 DEF load_executor, Plays
<1>5. CASE start_executor(u, args)
  BY <1>5 DEF start_executor, Plays
<1>6. CASE end_executor(u, args)
  BY <1>6 DEF end_executor, Plays
<1>. QED  BY <1>1, <1>2, <1>3, <1>4, <1>5, <1>6

\* One of the server's own commands answers, leaves the room, or enters one.
LEMMA GlobalCommandOutcome ==
    ASSUME ManagerSound, NEW u \in User, NEW command,
           command.name \in DOMAIN GLOBAL_COMMAND_MAP, execute(GLOBAL_COMMAND_MAP, u, command)
    PROVE  \/ Answer \/ Plays(u)
           \/ command.name \in {"create", "join"} /\ \E k, r : EntersRoom(u, k, r)
<1> DEFINE args == command.arguments
<1>1. \/ Answer \/ leave_executor(u)
      \/ command.name = "create" /\ create_executor(u)
      \/ command.name = "join" /\ join_executor(u, args)
  BY GlobalExecutors DEF execute
<1>2. CASE leave_executor(u)
  BY <1>2 DEF leave_executor, Plays
<1>3. CASE command.name = "create" /\ create_executor(u)
  BY <1>3 DEF create_executor, EntersRoom
<1>4. CASE command.name = "join" /\ join_executor(u, args)
  BY <1>4 DEF join_executor, EntersRoom
<1>. QED  BY <1>1, <1>2, <1>3, <1>4

\* All that a line of the current client can come to.
LEMMA LineOutcome ==
    ASSUME ManagerSound, current \in User, process_packet_line
    PROVE  Answer \/ Renames(current) \/ Plays(current) \/ Enters(current)
<1> DEFINE command == parse(packet)
<1>1. CASE ~is_command(packet)
  BY <1>1 DEF process_packet_line, process_message, Plays
<1>2. CASE is_command(packet) /\ command = NoPacket
  BY <1>2 DEF process_packet_line
<1>3. CASE is_command(packet) /\ command # NoPacket
  <2>1. process_command(current, command)
    BY <1>3 DEF process_packet_line
  <2> HIDE DEF command
  <2>2. \/ Answer
        \/ /\ InRoom(current) /\ command.name \in DOMAIN room_commands
           /\ execute(room_commands, current, command)
        \/ game(current) /\ UNCHANGED names
        \/ /\ command.name \in DOMAIN GLOBAL_COMMAND_MAP
           /\ execute(GLOBAL_COMMAND_MAP, current, command)
    BY <2>1 DEF process_command
  <2> DEFINE Goal == \/ Answer \/ Renames(current) \/ Plays(current)
                     \/ command.name \in {"create", "join"} /\ \E k, r : EntersRoom(current, k, r)
  <2>3. ASSUME game(current) /\ UNCHANGED names PROVE Goal
    BY <2>3 DEF Plays
  <2>4. ASSUME /\ InRoom(current) /\ command.name \in DOMAIN room_commands
             /\ execute(room_commands, current, command)
        PROVE  Goal
    BY <2>4, RoomCommandOutcome, Zenon
  <2>5. ASSUME /\ command.name \in DOMAIN GLOBAL_COMMAND_MAP
             /\ execute(GLOBAL_COMMAND_MAP, current, command)
        PROVE  Goal
    BY <2>5, GlobalCommandOutcome, Zenon
  <2>6. Goal
    BY <2>2, <2>3, <2>4, <2>5, Zenon
  <2>. QED  BY <1>3, <2>6, Zenon DEF Enters, command
<1>. QED  BY <1>1, <1>2, <1>3

-----------------------------------------------------------------------------
(* Lines are packets of module Server, unless the generator fails. *)

\* A user has a nickname that the generator made, or that nobody in the room has.
Named(u, r) ==
    /\ nickname'[u] # NoName
    /\ name'[u] \in Generated \/ nobody_named(r, name'[u])

OthersKeepNames(u) ==
    \A v \in User \ {u} : name'[v] = name[v] /\ nickname'[v] = nickname[v]

\* Setting a nickname keeps names and nicknames in step.
LEMMA SetNickname ==
    ASSUME NamesAgree, NEW u \in User, NEW n \in NicknameWords, set_nickname(u, n)
    PROVE  /\ NamesAgree' /\ OthersKeepNames(u)
           /\ name'[u] = n /\ nickname'[u] = n /\ n # NoName
BY CommandConstants DEF NamesAgree, set_nickname, OthersKeepNames

\* Clearing a nickname, too, keeps them in step.
LEMMA ClearNickname ==
    ASSUME NamesAgree, NEW u \in User, clear_nickname(u) \/ UNCHANGED names
    PROVE  NamesAgree' /\ OthersKeepNames(u)
BY CommandConstants DEF NamesAgree, clear_nickname, names, OthersKeepNames

\* A user who is on its way into a room gets there with a name, or not at all.
LEMMA JoinOutcome ==
    ASSUME NamesAgree, NEW u \in User, NEW k, NEW r, join_with_name(u, k, r)
    PROVE  /\ NamesAgree' /\ OthersKeepNames(u)
           /\ \/ user_join_room(u, k, r) /\ UNCHANGED down /\ Named(u, r)
              \/ UNCHANGED <<rooms, room_of>> /\ (down' \in BOOLEAN \/ UNCHANGED down)
<1> DEFINE turned == /\ join_status(r, u, "AS_PLAYER_WAITING") \notin Status
                     /\ UNCHANGED <<rooms, room_of>>
           enters == user_join_room(u, k, r) \/ turned
           cleared == IF must_clear(u, r) THEN clear_nickname(u) ELSE UNCHANGED names
<1> HIDE DEF turned
<1>1. CASE ~must_generate(u, r) /\ enters /\ cleared /\ UNCHANGED down
  <2>1. nickname[u] # NoName /\ nobody_named(r, name[u]) /\ UNCHANGED names
    BY <1>1 DEF must_generate, must_clear
  <2>2. NamesAgree' /\ OthersKeepNames(u) /\ Named(u, r)
    BY <2>1, ClearNickname DEF Named, names
  <2>. QED  BY <1>1, <2>2 DEF turned
<1>2. ASSUME NEW g \in generator,
             "name" \in DOMAIN g, enters, set_nickname(u, g.name), UNCHANGED down
      PROVE  /\ NamesAgree' /\ OthersKeepNames(u)
             /\ Named(u, r) /\ enters /\ UNCHANGED down
  <2>1. g.name \in Generated /\ g.name \in NicknameWords
    BY <1>2, CommandConstants DEF generator
  <2>. QED  BY <1>2, <2>1, SetNickname DEF Named
<1>3. ASSUME NEW g \in generator, cleared, down' = (g.failure = "crash")
      PROVE  NamesAgree' /\ OthersKeepNames(u) /\ down' \in BOOLEAN
  BY <1>3, ClearNickname
<1>4. \/ ~must_generate(u, r) /\ enters /\ cleared /\ UNCHANGED down
      \/ \E g \in generator :
           \/ "name" \in DOMAIN g /\ enters /\ set_nickname(u, g.name) /\ UNCHANGED down
           \/ cleared /\ UNCHANGED <<rooms, room_of>> /\ down' = (g.failure = "crash")
  BY DEF join_with_name, turned
<1>. QED  BY <1>1, <1>2, <1>3, <1>4 DEF turned

\* On its way into a room that is sound, a user is in no room yet.
LEMMA EntersSoundRoom ==
    ASSUME ManagerSound, ~down, NEW u \in User, NEW k, NEW r, EntersRoom(u, k, r)
    PROVE  /\ k \in RoomObject /\ Sound(r) /\ Owned(r)
           /\ room_of[u] = NoRoom /\ listed' = listed \cup {k}
           /\ r = rooms[k] \/ (members(r) = {} /\ \A v \in User : room_of[v] # k)
           /\ \A j \in RoomObject : u \notin members(rooms[j])
<1>1. \A j \in RoomObject : u \notin members(rooms[j])
  BY ServerConstants DEF ManagerSound, MemberIsMapped, EntersRoom
<1>2. CASE k \in FreeRooms /\ listed' = listed \cup {k} /\ r = new_room(FALSE)
  BY <1>1, <1>2, NewRoomSound DEF FreeRooms, EntersRoom
<1>3. CASE k \in listed /\ listed' = listed /\ r = rooms[k]
  BY <1>1, <1>3 DEF EntersRoom, ManagerSound
<1>. QED  BY <1>2, <1>3 DEF EntersRoom

\* A line is a packet of module Server, leaves the server alone, or asked for a
\* name that the generator could not make.
LEMMA LineIsServerStep ==
    ASSUME ServiceInvariant, PacketIsCurrent, NamesAgree, process_packet_line
    PROVE  [Next \/ (packet # NoPacket /\ GeneratorFailed)]_vars
<1>1. ManagerSound /\ LoopSound
  BY InvariantParts
<1>2. /\ ~down /\ packet # NoPacket /\ phase = "packets" /\ current \in known /\ current \in User
      /\ UNCHANGED <<network_vars, disconnected, tick_vars, known>>
  BY <1>1 DEF process_packet_line, PacketIsCurrent, LoopSound
<1>3. ASSUME UNCHANGED <<room_of, listed, rooms, down>>
      PROVE  UNCHANGED vars
  BY <1>2, <1>3 DEF vars, network_vars, tick_vars
<1>4. ASSUME \/ create(current) \/ join(current) \/ leave(current) \/ kick(current)
             \/ load(current) \/ start(current) \/ end(current) \/ game(current)
      PROVE  Next
  BY <1>2, <1>4 DEF Next, process_packet
<1>5. CASE Answer \/ Renames(current)
  BY <1>3, <1>5 DEF Answer, Renames
<1>6. CASE Plays(current)
  BY <1>4, <1>6 DEF Plays
<1>7. CASE Enters(current)
  <2>1. PICK k, r : EntersRoom(current, k, r)
    BY <1>7 DEF Enters
  <2>2. \/ user_join_room(current, k, r) /\ UNCHANGED down
        \/ UNCHANGED <<rooms, room_of>> /\ (down' \in BOOLEAN \/ UNCHANGED down)
    BY <1>2, <2>1, JoinOutcome DEF EntersRoom
  <2>3. CASE user_join_room(current, k, r) /\ UNCHANGED down
    <3>1. create(current) \/ join(current)
      BY <2>1, <2>3 DEF EntersRoom, FreeRooms, create, join
    <3>. QED  BY <1>4, <3>1
  <2>4. CASE UNCHANGED <<rooms, room_of>>
    <3>1. CASE down' = TRUE \/ listed' # listed
      BY <1>2, <1>7, <2>4, <3>1 DEF Enters, GeneratorFailed
    <3>2. CASE down' = FALSE /\ listed' = listed
      BY <1>1, <1>2, <1>3, <2>4, <3>2 DEF ManagerSound
    <3>3. down' \in BOOLEAN \/ UNCHANGED down
      BY <2>2
    <3>. QED  BY <1>1, <3>1, <3>2, <3>3 DEF ManagerSound
  <2>. QED  BY <2>2, <2>3, <2>4
<1>. QED  BY <1>1, <1>2, <1>5, <1>6, <1>7, LineOutcome

\* A room that is listed too early, and even the end of the server, leave the rooms
\* as they are.
LEMMA FailureService ==
    ASSUME ServiceInvariant, ~down, listed' \in SUBSET RoomObject, down' \in BOOLEAN,
           UNCHANGED <<network_vars, disconnected, tick_vars, known, rooms, room_of>>
    PROVE  ServiceInvariant'
<1>1. ManagerSound /\ LoopSound /\ LostUsersAreOut
  BY InvariantParts
<1>2. ManagerSound'
  BY <1>1 DEF ManagerSound, MemberIsMapped
<1>3. LoopSound' /\ LostUsersAreOut'
  BY <1>1 DEF LoopSound, LostUsersAreOut, network_vars, tick_vars
<1>4. (ManagerSound /\ LoopSound /\ LostUsersAreOut)' <=> ServiceInvariant'
  BY InvariantParts, PTL
<1>. QED  BY <1>2, <1>3, <1>4

\* So lines keep the server's invariant.
LEMMA LineService ==
    ASSUME ServiceInvariant, PacketIsCurrent, NamesAgree, process_packet_line
    PROVE  ServiceInvariant'
<1>1. CASE [Next]_vars
  BY <1>1, NextService
<1>2. CASE ~[Next]_vars
  <2>1. ManagerSound /\ LoopSound /\ ~down /\ current \in User
    BY InvariantParts DEF process_packet_line, PacketIsCurrent, LoopSound
  <2>2. GeneratorFailed
    BY <1>2, LineIsServerStep
  <2>3. listed' \in SUBSET RoomObject /\ down' \in BOOLEAN
    <3>1. CASE Enters(current)
      <4>1. PICK k, r : EntersRoom(current, k, r)
        BY <3>1 DEF Enters
      <4>. QED  BY <2>1, <4>1, JoinOutcome, EntersSoundRoom DEF EntersRoom, ManagerSound
    <3>2. CASE Answer \/ Renames(current)
      BY <2>1, <3>2 DEF Answer, Renames, ManagerSound
    <3>3. CASE Plays(current)
      BY <2>1, <3>3, PacketSound DEF Plays, ManagerSound
    <3>. QED  BY <2>1, <3>1, <3>2, <3>3, LineOutcome
  <2>. QED  BY <2>1, <2>2, <2>3, FailureService DEF GeneratorFailed, process_packet_line
<1>. QED  BY <1>1, <1>2

-----------------------------------------------------------------------------
(* What becomes of the names. *)

\* Names stay good when only u gets a new one, which is generated or nobody's, and
\* nobody but u enters a room.
LEMMA NamesStep ==
    ASSUME MembersHaveNicknames, SharedNamesAreGenerated, ~down, NEW u \in User,
           NamesAgree', OthersKeepNames(u),
           \A k \in RoomObject : /\ members(rooms'[k]) \subseteq members(rooms[k]) \cup {u}
                                 /\ u \in members(rooms'[k]) =>
                                      /\ nickname'[u] # NoName
                                      /\ \/ name'[u] \in Generated
                                         \/ \A v \in members(rooms[k]) \ {u} : name[v] # name'[u]
    PROVE  MembersHaveNicknames' /\ SharedNamesAreGenerated'
<1>1. \A v \in User : name'[v] = IF nickname'[v] = NoName THEN v ELSE nickname'[v]
  BY DEF NamesAgree
<1>2. MembersHaveNicknames'
  <2> SUFFICES ASSUME NEW k \in RoomObject, NEW v \in members(rooms'[k])
               PROVE  nickname'[v] # NoName /\ name'[v] = nickname'[v]
    BY DEF MembersHaveNicknames, members
  <2>1. CASE v = u
    BY <1>1, <2>1
  <2>2. CASE v # u
    BY <2>2 DEF MembersHaveNicknames, OthersKeepNames, members
  <2>. QED  BY <2>1, <2>2
<1>3. SharedNamesAreGenerated'
  <2> SUFFICES ASSUME NEW k \in RoomObject, NEW v \in members(rooms'[k]),
                      NEW w \in members(rooms'[k]), v # w, name'[v] = name'[w]
               PROVE  name'[v] \in Generated
    BY DEF SharedNamesAreGenerated, members
  <2>0. v \in User /\ w \in User
    BY DEF members
  <2>1. CASE v # u /\ w # u
    BY <2>0, <2>1 DEF SharedNamesAreGenerated, OthersKeepNames
  <2>2. CASE v = u
    BY <2>0, <2>2 DEF OthersKeepNames
  <2>3. CASE w = u
    BY <2>0, <2>3 DEF OthersKeepNames
  <2>. QED  BY <2>1, <2>2, <2>3
<1>. QED  BY <1>2, <1>3

\* They stay good when nobody gets a new one and nobody enters a room.
LEMMA NamesStay ==
    ASSUME MembersHaveNicknames, SharedNamesAreGenerated, NamesAgree,
           down => down', NobodyEnters, UNCHANGED names
    PROVE  NamesAgree' /\ MembersHaveNicknames' /\ SharedNamesAreGenerated'
<1>1. name' = name /\ nickname' = nickname
  BY DEF names
<1>2. NamesAgree'
  BY <1>1 DEF NamesAgree
<1>3. MembersHaveNicknames' /\ SharedNamesAreGenerated'
  BY <1>1 DEF MembersHaveNicknames, SharedNamesAreGenerated, NobodyEnters, members
<1>. QED  BY <1>2, <1>3

\* A line keeps the names good.
LEMMA LineNames ==
    ASSUME CommandsInvariant, process_packet_line
    PROVE  NamesAgree' /\ MembersHaveNicknames' /\ SharedNamesAreGenerated'
<1> DEFINE u == current
           Good == NamesAgree' /\ MembersHaveNicknames' /\ SharedNamesAreGenerated'
<1>1. /\ ManagerSound /\ ~down /\ u \in User
      /\ NamesAgree /\ MembersHaveNicknames /\ SharedNamesAreGenerated
  BY InvariantParts DEF CommandsInvariant, process_packet_line, PacketIsCurrent, LoopSound
<1> HIDE DEF u
<1>2. ASSUME Answer PROVE Good
  BY <1>1, <1>2, NamesStay DEF Answer, NobodyEnters
<1>3. ASSUME Plays(u) PROVE Good
  <2>1. ~create(u) /\ ~join(u)
    BY <1>3 DEF Plays, leave, kick, load, start, end, game, Owns, InRoom, create, join
  <2>2. NobodyEnters
    BY <1>1, <1>3, <2>1, PacketSound DEF Plays
  <2>. QED  BY <1>1, <1>3, <2>2, NamesStay DEF Plays
<1>4. ASSUME Renames(u) PROVE Good
  <2>1. PICK n \in NicknameWords : nobody_named(Room_(u), n) /\ set_nickname(u, n)
    BY <1>4 DEF Renames
  <2>2. NamesAgree' /\ OthersKeepNames(u) /\ name'[u] = n /\ nickname'[u] = n /\ n # NoName
    BY <1>1, <2>1, SetNickname
  <2>3. Room_(u).cached_users = members(Room_(u)) /\ rooms' = rooms /\ room_of[u] \in RoomObject
    BY <1>1, <1>4, OwnRoom DEF Renames
  <2>4. \A k \in RoomObject : u \in members(rooms[k]) => rooms[k] = Room_(u)
    BY <1>1 DEF ManagerSound, MemberIsMapped, Room_
  <2>5. \A k \in RoomObject :
          /\ members(rooms'[k]) \subseteq members(rooms[k]) \cup {u}
          /\ u \in members(rooms'[k]) =>
               /\ nickname'[u] # NoName
               /\ \/ name'[u] \in Generated
                  \/ \A v \in members(rooms[k]) \ {u} : name[v] # name'[u]
    BY <2>1, <2>2, <2>3, <2>4 DEF nobody_named
  <2>. QED  BY <1>1, <2>2, <2>5, NamesStep
<1>5. ASSUME Enters(u) PROVE Good
  <2>1. PICK k, r : EntersRoom(u, k, r)
    BY <1>5 DEF Enters
  <2>2. /\ k \in RoomObject /\ Sound(r) /\ Owned(r) /\ room_of[u] = NoRoom
        /\ listed' = listed \cup {k}
        /\ r = rooms[k] \/ (members(r) = {} /\ \A v \in User : room_of[v] # k)
        /\ \A j \in RoomObject : u \notin members(rooms[j])
    BY <1>1, <2>1, EntersSoundRoom
  <2>3. /\ NamesAgree' /\ OthersKeepNames(u)
        /\ \/ user_join_room(u, k, r) /\ UNCHANGED down /\ Named(u, r)
           \/ UNCHANGED <<rooms, room_of>>
    BY <1>1, <2>1, JoinOutcome DEF EntersRoom
  <2>4. CASE UNCHANGED rooms
    BY <1>1, <2>2, <2>3, <2>4, NamesStep
  <2>5. CASE user_join_room(u, k, r) /\ UNCHANGED down /\ Named(u, r)
    <3>1. /\ members(rooms'[k]) = members(r) \cup {u}
          /\ \A j \in RoomObject \ {k} : rooms'[j] = rooms[j]
      BY <1>1, <2>2, <2>5, JoinSound
    <3>2. r.cached_users = members(r) /\ (r = rooms[k] \/ members(r) = {})
      BY <2>2 DEF Sound, Consistent
    <3>3. /\ nickname'[u] # NoName
          /\ name'[u] \in Generated \/ \A v \in members(r) : name[v] # name'[u]
      BY <2>5, <3>2 DEF Named, nobody_named
    <3>4. CASE r = rooms[k]
      BY <1>1, <2>2, <2>3, <3>1, <3>3, <3>4, NamesStep
    <3>5. CASE members(r) = {} /\ \A v \in User : room_of[v] # k
      <4>1. members(rooms[k]) = {}
        BY <1>1, <2>2, <3>5 DEF ManagerSound, MemberIsMapped, members
      <4>. QED  BY <1>1, <2>2, <2>3, <3>1, <3>3, <3>5, <4>1, NamesStep
    <3>. QED  BY <2>2, <3>4, <3>5
  <2>. QED  BY <2>3, <2>4, <2>5
<1>. QED  BY <1>1, <1>2, <1>3, <1>4, <1>5, LineOutcome DEF u

\* What the network and the rest of the tick do lets nobody into a room.
LEMMA ServerStepEffect ==
    ASSUME ServiceInvariant, PacketIsCurrent, ServerStep
    PROVE  [Next]_vars /\ NobodyEnters /\ (down => down') /\ PacketIsCurrent'
<1>1. ManagerSound /\ LoopSound /\ LostUsersAreOut
  BY InvariantParts
<1>2. Next
  BY DEF ServerStep, Next
<1>3. CASE UNCHANGED <<rooms, down>>
  <2>1. NobodyEnters /\ (down => down')
    BY <1>3 DEF NobodyEnters
  <2>2. PacketIsCurrent'
    <3>1. CASE \E u \in User : accept(u) \/ on_accept(u) \/ disconnect(u)
      BY <3>1 DEF PacketIsCurrent, ServerStep, accept, on_accept, disconnect, manager_vars, tick_vars
    <3>2. CASE on_close \/ disconnected_client
      BY <3>2 DEF PacketIsCurrent, ServerStep, on_close, disconnected_client, manager_vars, tick_vars
    <3>3. CASE tick \/ disconnections_done \/ copy_clients
      BY <3>3 DEF PacketIsCurrent, ServerStep, tick, disconnections_done, copy_clients
    <3>4. CASE \E u \in User : process_disconnection(u)
      BY <3>4 DEF PacketIsCurrent, ServerStep, process_disconnection
    <3>5. CASE (\E u \in User : next_client(u)) \/ tick_done
      <4>1. Nobody \notin known
        BY <1>1, RoomConstants DEF LoopSound, Nobody
      <4>. QED  BY <3>5, <4>1 DEF PacketIsCurrent, ServerStep, next_client, tick_done
    <3>6. CASE packet = NoPacket /\ drained
      BY <3>6 DEF PacketIsCurrent, ServerStep
    <3>7. CASE Died
      BY <3>7 DEF PacketIsCurrent, ServerStep, Died, vars
    <3>. QED  BY <3>1, <3>2, <3>3, <3>4, <3>5, <3>6, <3>7 DEF ServerStep
  <2>. QED  BY <1>2, <2>1, <2>2
<1>4. CASE \E u \in User : process_disconnection(u)
  <2>1. PICK u \in User : process_disconnection(u)
    BY <1>4
  <2>2. ~down /\ remove_user(u) /\ phase = "disconnections"
    BY <2>1 DEF process_disconnection
  <2>3. NobodyEnters
    BY <1>1, <2>2, RemoveUserSound DEF LostUsersAreOut
  <2>4. PacketIsCurrent'
    BY <2>2 DEF PacketIsCurrent, ServerStep
  <2>. QED  BY <1>2, <2>2, <2>3, <2>4
<1>5. ~(\E u \in User : process_disconnection(u)) => UNCHANGED <<rooms, down>>
  BY DEF ServerStep, accept, on_accept, disconnect, on_close, disconnected_client, tick,
         disconnections_done, copy_clients, next_client, drained, tick_done, Died, manager_vars,
         vars
<1>. QED  BY <1>3, <1>4, <1>5

-----------------------------------------------------------------------------
(* The theorems about lines and names. *)

\* At first there is no packet, and everybody goes by its id.
LEMMA CommandsInitInvariant == CommandsInit => CommandsInvariant
<1> SUFFICES ASSUME CommandsInit PROVE CommandsInvariant
  OBVIOUS
<1>1. ServiceInvariant
  BY InitInvariant DEF CommandsInit, ServerInvariant
<1>2. \A k \in RoomObject : members(rooms[k]) = {}
  BY NewRoomSound DEF CommandsInit, Init
<1>3. PacketIsCurrent /\ NamesAgree
  BY DEF CommandsInit, PacketIsCurrent, NamesAgree
<1>. QED
  BY <1>1, <1>2, <1>3 DEF CommandsInvariant, MembersHaveNicknames, SharedNamesAreGenerated

\* Every step of the loop, the network and the lines keeps the invariant.
LEMMA CommandsNextInvariant ==
    CommandsInvariant /\ [CommandsNext]_command_vars => CommandsInvariant'
<1> SUFFICES ASSUME CommandsInvariant, [CommandsNext]_command_vars
             PROVE  CommandsInvariant'
  OBVIOUS
<1>1. /\ ServiceInvariant /\ PacketIsCurrent /\ NamesAgree
      /\ MembersHaveNicknames /\ SharedNamesAreGenerated
  BY DEF CommandsInvariant
<1>2. CASE ServerStep
  <2>1. [Next]_vars /\ NobodyEnters /\ (down => down') /\ PacketIsCurrent'
    BY <1>1, <1>2, ServerStepEffect
  <2>2. ServiceInvariant'
    BY <1>1, <2>1, NextService
  <2>3. NamesAgree' /\ MembersHaveNicknames' /\ SharedNamesAreGenerated'
    BY <1>1, <1>2, <2>1, NamesStay DEF ServerStep
  <2>. QED  BY <2>1, <2>2, <2>3 DEF CommandsInvariant
<1>3. CASE process_packet_line
  <2>1. ServiceInvariant'
    BY <1>1, <1>3, LineService
  <2>2. NamesAgree' /\ MembersHaveNicknames' /\ SharedNamesAreGenerated'
    BY <1>3, LineNames
  <2>3. PacketIsCurrent'
    BY <1>3 DEF process_packet_line, PacketIsCurrent
  <2>. QED  BY <2>1, <2>2, <2>3 DEF CommandsInvariant
<1>4. CASE UNCHANGED <<vars, names>>
  <2>1. ServiceInvariant'
    BY <1>1, <1>4, NextService
  <2>2. NamesAgree' /\ MembersHaveNicknames' /\ SharedNamesAreGenerated'
    BY <1>1, <1>4, NamesStay DEF NobodyEnters, vars
  <2>3. PacketIsCurrent'
    <3>1. CASE \E line \in Lines : receive(line)
      BY <1>4, <3>1 DEF receive, PacketIsCurrent, vars
    <3>2. CASE UNCHANGED command_vars
      BY <1>1, <3>2 DEF command_vars, vars, PacketIsCurrent
    <3>3. CASE ServerStep \/ process_packet_line
      BY <1>1, <3>3, ServerStepEffect DEF process_packet_line, PacketIsCurrent
    <3>. QED  BY <3>1, <3>2, <3>3 DEF CommandsNext
  <2>. QED  BY <2>1, <2>2, <2>3 DEF CommandsInvariant
<1>5. CASE \E line \in Lines : receive(line)
  BY <1>4, <1>5 DEF receive
<1>6. CASE UNCHANGED command_vars
  BY <1>4, <1>6 DEF command_vars
<1>. QED  BY <1>2, <1>3, <1>5, <1>6 DEF CommandsNext

\* The inductive invariant of the server with its users' lines holds in all its
\* states.
LEMMA CommandsInvariantHolds == CommandsSpec => []CommandsInvariant
BY CommandsInitInvariant, CommandsNextInvariant, PTL DEF CommandsSpec

\* Everybody in a room goes by its nickname, whatever lines the users send and
\* whenever connections are lost: joining makes up a name before it lets in.
THEOREM Nicknames == CommandsSpec => []MembersHaveNicknames
<1>1. CommandsInvariant => MembersHaveNicknames
  BY DEF CommandsInvariant
<1>. QED  BY <1>1, CommandsInvariantHolds, PTL

\* Two members of a room share a name only if the generator made it.
THEOREM SharedNames == CommandsSpec => []SharedNamesAreGenerated
<1>1. CommandsInvariant => SharedNamesAreGenerated
  BY DEF CommandsInvariant
<1>. QED  BY <1>1, CommandsInvariantHolds, PTL

\* Lines keep what the server promises: sound rooms, one room for each user, and
\* none for users who are gone, even when the nickname generator fails.
THEOREM ServiceOfLines == CommandsSpec => [](RoomsAreSound /\ MemberIsMapped /\ GoneForGood)
<1>1. CommandsInvariant => RoomsAreSound /\ MemberIsMapped /\ GoneForGood
  BY DEF CommandsInvariant, ServiceInvariant
<1>. QED  BY <1>1, CommandsInvariantHolds, PTL

\* Every step that the lines, the loop and the network make is one that module
\* Server allows, unless the generator fails.
THEOREM LinesRefineServer == CommandsSpec => LinesAreServerSteps
<1>1. ASSUME CommandsInvariant, [CommandsNext]_command_vars
      PROVE  [Next \/ (packet # NoPacket /\ GeneratorFailed)]_vars
  <2>1. ServiceInvariant /\ PacketIsCurrent /\ NamesAgree
    BY <1>1 DEF CommandsInvariant
  <2>2. CASE ServerStep
    BY <2>1, <2>2, ServerStepEffect
  <2>3. CASE process_packet_line
    BY <2>1, <2>3, LineIsServerStep
  <2>4. CASE (\E line \in Lines : receive(line)) \/ UNCHANGED command_vars
    <3>1. UNCHANGED vars
      BY <2>4 DEF receive, command_vars
    <3>. QED  BY <3>1
  <2>. QED  BY <1>1, <2>2, <2>3, <2>4 DEF CommandsNext
<1>. QED  BY <1>1, CommandsInvariantHolds, PTL DEF CommandsSpec, LinesAreServerSteps

\* A user changes no room but the one it is in: its room, or what it leaves behind.
LEMMA OwnRoomOnly ==
    ASSUME ManagerSound, NEW u \in User, Plays(u), NEW k \in RoomObject, rooms'[k] # rooms[k]
    PROVE  u \in members(rooms[k])
<1>1. CASE leave(u)
  <2>1. user_leave_room(u, room_of[u]) /\ room_of[u] \in RoomObject
    BY <1>1 DEF leave, ManagerSound
  <2>2. PICK s : u \in players(rooms[room_of[u]]) /\ rooms' = [rooms EXCEPT ![room_of[u]] = s]
    BY <2>1 DEF user_leave_room
  <2>3. k = room_of[u]
    BY <2>1, <2>2 DEF ManagerSound
  <2>. QED  BY <2>2, <2>3, PlayersAreMembers DEF ManagerSound
<1>2. CASE kick(u) \/ load(u) \/ start(u) \/ end(u) \/ game(u)
  <2>1. InRoom(u) /\ \E S : RoomBecomes(u, S)
    BY <1>2 DEF kick, load, start, end, game, Owns
  <2>2. PICK s : rooms' = [rooms EXCEPT ![room_of[u]] = s]
    BY <2>1 DEF RoomBecomes
  <2>3. k = room_of[u]
    BY <2>2 DEF ManagerSound
  <2>. QED  BY <2>1, <2>3 DEF InRoom
<1>. QED  BY <1>1, <1>2 DEF Plays

\* A line changes no room that its sender is not a member of, before or after: who
\* was kicked and is still mapped to the room has no say in it.
THEOREM NoSayForStrangers == CommandsSpec => StrangersHaveNoSay
<1> DEFINE Heard == packet # NoPacket /\ packet' = NoPacket =>
                      \A k \in RoomObject :
                        rooms'[k] # rooms[k] =>
                          current \in members(rooms[k]) \cup members(rooms'[k])
<1>1. ASSUME CommandsInvariant, [CommandsNext]_command_vars
      PROVE  [Heard]_command_vars
  <2>1. ManagerSound /\ LoopSound /\ NamesAgree /\ PacketIsCurrent
    BY <1>1, InvariantParts DEF CommandsInvariant
  <2>2. CASE process_packet_line
    <3> SUFFICES ASSUME NEW k \in RoomObject, rooms'[k] # rooms[k]
                 PROVE  current \in members(rooms[k]) \cup members(rooms'[k])
      OBVIOUS
    <3>1. ~down /\ current \in User
      BY <2>1, <2>2 DEF process_packet_line, PacketIsCurrent, LoopSound
    <3>2. CASE Answer \/ Renames(current)
      BY <3>2 DEF Answer, Renames
    <3>3. CASE Plays(current)
      BY <2>1, <3>1, <3>3, OwnRoomOnly
    <3>4. CASE Enters(current)
      <4>1. PICK j, r : EntersRoom(current, j, r)
        BY <3>4 DEF Enters
      <4>2. /\ j \in RoomObject /\ Sound(r) /\ Owned(r) /\ room_of[current] = NoRoom
            /\ listed' = listed \cup {j}
            /\ r = rooms[j] \/ (members(r) = {} /\ \A v \in User : room_of[v] # j)
        BY <2>1, <3>1, <4>1, EntersSoundRoom
      <4>3. user_join_room(current, j, r) /\ UNCHANGED down
        BY <2>1, <3>1, <4>1, JoinOutcome DEF EntersRoom
      <4>. QED  BY <2>1, <3>1, <4>2, <4>3, JoinSound
    <3>. QED  BY <2>1, <2>2, <3>1, <3>2, <3>3, <3>4, LineOutcome
  <2>3. CASE ServerStep \/ (\E line \in Lines : receive(line)) \/ UNCHANGED command_vars
    BY <2>3 DEF ServerStep, receive, command_vars
  <2>. QED  BY <1>1, <2>2, <2>3 DEF CommandsNext
<1>. QED  BY <1>1, CommandsInvariantHolds, PTL DEF CommandsSpec, StrangersHaveNoSay
=============================================================================
