-------------------------------- MODULE Server --------------------------------
(***************************************************************************)
(* The chat server: the network side that accepts and closes connections   *)
(* (server, class Server), the game loop's tick (server_daemon, main), and *)
(* the users and rooms it manages (class ServerManager) through the global *)
(* and room commands.  Rooms are those of RoomState.                       *)
(*                                                                         *)
(* Network handlers and the game loop are different threads.  They share   *)
(* _clients under _clients_lock, and `disconnected` under its mutex.       *)
(*                                                                         *)
(* A user, its connection and its client have one id.  What a packet says  *)
(* is chosen when it is processed.  A loaded game is any controller that   *)
(* makes the calls of EXAMPLE_Simon: it disqualifies players and ends the  *)
(* game; its update() does nothing.                                        *)
(***************************************************************************)
EXTENDS RoomState

CONSTANTS
    RoomObject, \* the Room objects that can exist at a time
    NoRoom      \* a null room pointer

ASSUME ServerConstants == NoRoom \notin RoomObject

VARIABLES
    clients,        \* Server::_clients
    closing,        \* the thread that holds _clients_lock exclusively, closing:
                    \*   the user, and how far Server::disconnect is
    disconnected,   \* main's list of closed connections
    accepted,       \* history: connections that were ever accepted
    known,          \* ServerManager::_userid_to_user
    room_of,        \* ServerManager::_userid_to_room
    listed,         \* ServerManager::_roomid_to_room
    rooms,          \* the Room objects
    phase,          \* where the tick is
    todo,           \* disconnections / clients this phase has still to visit
    current,        \* the client whose packets are being read
    down            \* the process died: a null pointer or an uncaught exception

network_vars == <<clients, closing, accepted>>
manager_vars == <<known, room_of, listed, rooms, down>>
tick_vars == <<phase, todo, current>>
vars == <<clients, closing, disconnected, accepted, known, room_of, listed, rooms,
          phase, todo, current, down>>

Nobody == NoOwner

Open == [user |-> Nobody, at |-> "open"]
ClosingStep == {"open", "locked", "emitted"}
Phase == {"sleep", "disconnections", "unlocked", "packets"}

Init ==
    /\ clients = {} /\ closing = Open /\ disconnected = {} /\ accepted = {}
    /\ known = {} /\ room_of = [u \in User |-> NoRoom]
    /\ listed = {} /\ rooms = [k \in RoomObject |-> new_room(FALSE)]
    /\ phase = "sleep" /\ todo = {} /\ current = Nobody
    /\ down = FALSE

-----------------------------------------------------------------------------
(* The network threads. *)

\* The listener's accept handler up to the client's entry in _clients ...
accept(u) ==
    /\ ~down
    /\ u \notin accepted
    /\ closing.at = "open"
    /\ accepted' = accepted \cup {u}
    /\ clients' = clients \cup {u}
    /\ UNCHANGED <<closing, disconnected, manager_vars, tick_vars>>

\* ... and its callbacks.  The connection's own handlers wait for them.
on_accept(u) ==
    /\ ~down
    /\ u \in accepted \ known
    /\ known' = known \cup {u}
    /\ UNCHANGED <<network_vars, disconnected, tick_vars, room_of, listed, rooms, down>>

\* The socket of u closes: Server::disconnect locks _clients ...
disconnect(u) ==
    /\ ~down
    /\ u \in clients \cap known
    /\ closing.at = "open"
    /\ closing' = [user |-> u, at |-> "locked"]
    /\ UNCHANGED <<clients, disconnected, accepted, manager_vars, tick_vars>>

\* ... emits on_close, whose handler needs the mutex of the list ...
on_close ==
    /\ ~down
    /\ closing.at = "locked"
    /\ phase # "disconnections"
    /\ disconnected' = disconnected \cup {closing.user}
    /\ closing' = [closing EXCEPT !.at = "emitted"]
    /\ UNCHANGED <<clients, accepted, manager_vars, tick_vars>>

\* ... and forgets the client.
disconnected_client ==
    /\ ~down
    /\ closing.at = "emitted"
    /\ clients' = clients \ {closing.user}
    /\ closing' = Open
    /\ UNCHANGED <<disconnected, accepted, manager_vars, tick_vars>>

-----------------------------------------------------------------------------
(* ServerManager and the rooms. *)

\* What a controller's handler may have made of the room.
controller_calls(r) ==
    {r, end_game(r)} \cup { disqualify_player(r, S) : S \in SUBSET players(r) }

\* The rooms that Room::remove_user of a member u may leave behind.
removals(r, u) ==
    LET detached == detach(r, u)
        notified == UNION { IF r.game_started /\ was_player
                            THEN controller_calls(detached) ELSE {detached} :
                            was_player \in seen_as_player(r, u) }
    IN  UNION { settle(n, u) : n \in notified }

\* A room nobody points to any more ceases to exist.
collected(k, r, list, map) ==
    IF k \notin list /\ \A u \in User : map[u] # k THEN new_room(FALSE) ELSE r

\* Mutant: the room is kept when its last player leaves.
user_leave_room_kept(u, k) ==
    /\ room_of' = [room_of EXCEPT ![u] = NoRoom]
    /\ UNCHANGED listed
    /\ \/ /\ u \notin players(rooms[k])
          /\ down' = TRUE
          /\ UNCHANGED rooms
       \/ /\ u \in players(rooms[k])
          /\ UNCHANGED down
          /\ \E r \in removals(rooms[k], u) : rooms' = [rooms EXCEPT ![k] = r]

\* find_player is null for a user who is a spectator, disqualified or not in the
\* room, and remove_user dereferences it; destroy_room throws when the room has
\* been destroyed before, and nobody catches that.
user_leave_room(u, k) ==
    LET unmapped == [room_of EXCEPT ![u] = NoRoom]
    IN  /\ room_of' = unmapped
        /\ \/ /\ u \notin players(rooms[k])
              /\ down' = TRUE
              /\ UNCHANGED <<listed, rooms>>
           \/ /\ u \in players(rooms[k])
              /\ \E r \in removals(rooms[k], u) :
                    /\ listed' = IF players(r) = {} THEN listed \ {k} ELSE listed
                    /\ down' = (players(r) = {} /\ k \notin listed)
                    /\ rooms' = [rooms EXCEPT ![k] = collected(k, r, listed', unmapped)]

\* Room::add_user with its default method throws ROOM_FULL, which /join reports.
user_join_room(u, k, r) ==
    LET status == join_status(r, u, "AS_PLAYER_WAITING")
    IN  /\ status \in Status
        /\ rooms' = [rooms EXCEPT ![k] = admit(r, u, status)]
        /\ room_of' = [room_of EXCEPT ![u] = k]

\* The map entry stays: remove_user only takes the user out of its room.
remove_user(u) ==
    \/ /\ u \notin known \/ room_of[u] = NoRoom
       /\ UNCHANGED <<room_of, listed, rooms, down>>
    \/ /\ u \in known /\ room_of[u] # NoRoom
       /\ user_leave_room(u, room_of[u])

-----------------------------------------------------------------------------
(* Commands of user u.                                                      *)

create(u) ==
    /\ room_of[u] = NoRoom
    /\ \E k \in RoomObject \ listed :
          /\ \A v \in User : room_of[v] # k
          /\ user_join_room(u, k, new_room(FALSE))
          /\ listed' = listed \cup {k}
    /\ UNCHANGED down

\* Mutant: a user may join a room while it is in another one.
join_unchecked(u) ==
    /\ \E k \in listed : user_join_room(u, k, rooms[k])
    /\ UNCHANGED <<listed, down>>

join(u) ==
    /\ room_of[u] = NoRoom
    /\ \E k \in listed : user_join_room(u, k, rooms[k])
    /\ UNCHANGED <<listed, down>>

leave(u) ==
    /\ room_of[u] # NoRoom
    /\ user_leave_room(u, room_of[u])

\* Mutant: who is mapped to a room is taken for a member of it.
InRoom_mapped(u) == room_of[u] # NoRoom

\* The room u's commands are given to: it hears its members only.
InRoom(u) == room_of[u] # NoRoom /\ u \in members(rooms[room_of[u]])
Owns(u) == InRoom(u) /\ rooms[room_of[u]].owner = u

RoomBecomes(u, S) ==
    /\ \E r \in S : rooms' = [rooms EXCEPT ![room_of[u]] = r]
    /\ UNCHANGED <<room_of, listed, down>>

kick(u) ==
    /\ Owns(u)
    /\ \E v \in members(rooms[room_of[u]]) \ {u} :
          RoomBecomes(u, removals(rooms[room_of[u]], v))

load(u) ==
    /\ Owns(u)
    /\ LET r == rooms[room_of[u]]
           ended == IF r.game /\ r.game_started THEN end_game(r) ELSE r
       IN  RoomBecomes(u, {[ended EXCEPT !.game = TRUE]})

start(u) ==
    /\ Owns(u)
    /\ rooms[room_of[u]].game
    /\ RoomBecomes(u, {begin_game(rooms[room_of[u]])})

end(u) ==
    /\ Owns(u)
    /\ rooms[room_of[u]].game
    /\ RoomBecomes(u, {end_game(rooms[room_of[u]])})

\* A message or command the game intercepts.
game(u) ==
    /\ InRoom(u)
    /\ rooms[room_of[u]].game_started
    /\ RoomBecomes(u, controller_calls(rooms[room_of[u]]))

-----------------------------------------------------------------------------
(* The game loop. *)

\* The mutex of the list is taken until all of it is processed.
tick ==
    /\ ~down
    /\ phase = "sleep"
    /\ phase' = "disconnections"
    /\ todo' = disconnected
    /\ UNCHANGED <<network_vars, disconnected, manager_vars, current>>

process_disconnection(u) ==
    /\ ~down
    /\ phase = "disconnections"
    /\ u \in todo
    /\ todo' = todo \ {u}
    /\ remove_user(u)
    /\ UNCHANGED <<network_vars, disconnected, known, phase, current>>

\* Mutant: the list is cleared after one of its entries.
disconnections_done_early ==
    /\ ~down
    /\ phase = "disconnections"
    /\ disconnected' = {}
    /\ phase' = "unlocked"
    /\ todo' = {}
    /\ UNCHANGED <<network_vars, manager_vars, current>>

disconnections_done ==
    /\ ~down
    /\ phase = "disconnections" /\ todo = {}
    /\ disconnected' = {}
    /\ phase' = "unlocked"
    /\ UNCHANGED <<network_vars, manager_vars, todo, current>>

\* Mutant: the map is copied without the lock.
copy_clients_unlocked ==
    /\ ~down
    /\ phase = "unlocked"
    /\ todo' = clients
    /\ phase' = "packets"
    /\ UNCHANGED <<network_vars, disconnected, manager_vars, current>>

\* Server::clients() waits for _clients_lock and copies the map.
copy_clients ==
    /\ ~down
    /\ phase = "unlocked"
    /\ closing.at = "open"
    /\ todo' = clients
    /\ phase' = "packets"
    /\ UNCHANGED <<network_vars, disconnected, manager_vars, current>>

next_client(u) ==
    /\ ~down
    /\ phase = "packets"
    /\ current = Nobody
    /\ u \in todo
    /\ current' = u
    /\ todo' = todo \ {u}
    /\ UNCHANGED <<network_vars, disconnected, manager_vars, phase>>

\* One packet of the current client.
process_packet ==
    /\ ~down
    /\ phase = "packets"
    /\ current \in known
    /\ LET u == current
       IN  \/ create(u) \/ join(u) \/ leave(u) \/ kick(u)
           \/ load(u) \/ start(u) \/ end(u) \/ game(u)
    /\ UNCHANGED <<network_vars, disconnected, tick_vars, known>>

\* The client's channel is empty.
drained ==
    /\ ~down
    /\ phase = "packets"
    /\ current # Nobody
    /\ current' = Nobody
    /\ UNCHANGED <<network_vars, disconnected, manager_vars, phase, todo>>

\* update_game of every room, which does nothing, and the wait for the next tick.
tick_done ==
    /\ ~down
    /\ phase = "packets" /\ current = Nobody /\ todo = {}
    /\ phase' = "sleep"
    /\ UNCHANGED <<network_vars, disconnected, manager_vars, todo, current>>

Died == down /\ UNCHANGED vars

Next ==
    \/ \E u \in User : accept(u) \/ on_accept(u) \/ disconnect(u)
    \/ on_close \/ disconnected_client
    \/ tick \/ disconnections_done \/ copy_clients
    \/ \E u \in User : process_disconnection(u) \/ next_client(u)
    \/ process_packet \/ drained \/ tick_done
    \/ Died

Spec == Init /\ [][Next]_vars

\* The loop goes on, a handler that has started comes to its end, and no client
\* sends so fast that its channel is never found empty.
Fairness ==
    /\ WF_vars(on_close) /\ WF_vars(disconnected_client)
    /\ WF_vars(tick) /\ WF_vars(disconnections_done) /\ WF_vars(copy_clients)
    /\ WF_vars(drained) /\ WF_vars(tick_done)
    /\ \A u \in User : WF_vars(process_disconnection(u)) /\ WF_vars(next_client(u))

FairSpec == Spec /\ Fairness

-----------------------------------------------------------------------------
(* Properties. *)

\* Types; the lock is held on behalf of a user; a tick leaves nothing undone.
TypeOK ==
    /\ clients \subseteq User /\ disconnected \subseteq User
    /\ accepted \subseteq User /\ known \subseteq User
    /\ closing \in [user : User \cup {Nobody}, at : ClosingStep]
    /\ room_of \in [User -> RoomObject \cup {NoRoom}]
    /\ listed \subseteq RoomObject
    /\ rooms \in [RoomObject -> RoomRecord]
    /\ phase \in Phase
    /\ todo \subseteq User
    /\ current \in User \cup {Nobody}
    /\ down \in BOOLEAN
    /\ closing.user = Nobody <=> closing.at = "open"
    /\ phase = "sleep" => todo = {} /\ current = Nobody

\* A user is a member of at most one room, the one `_userid_to_room` gives:
\* otherwise nobody would ever take it out of the others.
MemberIsMapped ==
    ~down => \A k \in RoomObject, u \in User :
               u \in members(rooms[k]) => room_of[u] = k

\* Somebody is in every room that /join can find: destroy_room is called in
\* time, however members leave, get kicked or lose their connection.
ListedRoomIsOccupied ==
    ~down => \A k \in listed : members(rooms[k]) # {}

\* The state is well-typed, and the rooms of the server are sound and have an
\* owner, whatever order the commands of their members and the disconnections are
\* processed in.
RoomsAreSound ==
    /\ TypeOK
    /\ \A k \in RoomObject : Sound(rooms[k]) /\ Owned(rooms[k])

\* Once the loop has dealt with the end of a connection, its user is in no room
\* and stays out: no packet that was still on its way puts it back.  This needs
\* both that Server::disconnect lists the connection and forgets the client under
\* one lock, and that clients() waits for that lock.
GoneForGood ==
    \A u \in known \ (clients \cup disconnected) :
        ~down => room_of[u] = NoRoom /\ \A k \in RoomObject : u \notin members(rooms[k])

\* The inductive strengthening of the invariants above, but for the occupation of
\* listed rooms, which is inductive on top of it.  It follows a lost user through
\* the tick: who is served is a client or on the list; who is on the list is taken
\* out of its room before the list is cleared; and whom the closing handler has
\* listed but not yet forgotten stays listed, or has been dealt with and will be
\* forgotten before the loop copies the clients again.
ServiceInvariant ==
    /\ RoomsAreSound
    /\ MemberIsMapped
    /\ GoneForGood
    /\ phase # "packets" => current = Nobody
    /\ phase \in {"sleep", "unlocked"} => todo = {}
    /\ \A u \in User \ known : room_of[u] = NoRoom
    /\ phase = "packets" => todo \cup ({current} \ {Nobody}) \subseteq clients \cup disconnected
    /\ phase = "disconnections" => \A u \in disconnected \ todo : room_of[u] = NoRoom
    /\ closing.at = "emitted" =>
         \/ closing.user \in disconnected
         \/ phase = "unlocked" /\ room_of[closing.user] = NoRoom

ServerInvariant == ServiceInvariant /\ ListedRoomIsOccupied

\* A user whose connection is lost leaves its room in the end: neither of the two
\* locks keeps the loop and the closing handlers waiting for each other.
LostUserLeaves ==
    \A u \in User :
        closing.user = u ~> down \/ (u \notin clients \cup disconnected /\ room_of[u] = NoRoom)

-----------------------------------------------------------------------------
(* What comments say and the code does not do.                              *)

\* ServerManager.cpp:115, on leaving: "They weren't in the room. Do nothing."  A
\* packet of somebody who was kicked does not bring the server down.
NotInRoomDoesNothing ==
    [][ /\ phase = "packets" /\ current # Nobody /\ down'
        /\ room_of[current] # NoRoom
        => current \in members(rooms[room_of[current]]) ]_vars
=============================================================================
