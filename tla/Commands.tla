------------------------------ MODULE Commands ------------------------------
(***************************************************************************)
(* What the lines that users type do to the server of module Server: how a *)
(* line becomes a command (module/command), who gets to execute it         *)
(* (chatserver.cpp, Room::process_command, CommandMap), and the names of   *)
(* the users, which the commands give, take and look for.                  *)
(*                                                                         *)
(* A line is its text split at blanks, as boost::split leaves it, without  *)
(* the slash.  A room's code is the room object itself, and the text of a  *)
(* user's session id is the user.                                          *)
(***************************************************************************)
EXTENDS Server, Sequences

CONSTANTS
    Lines,          \* the lines that users type
    Alphanumeric,   \* the words of nothing but letters and digits
    NicknameWords,  \* the words of letters, digits, underscores and hyphens
    Lowercase,      \* words in capital letters, and what tolower makes of them
    Generated,      \* the names that the nickname generator makes
    NoName,         \* no nickname
    NoPacket        \* no packet is being processed

ASSUME CommandConstants ==
    /\ Alphanumeric \subseteq NicknameWords
    /\ DOMAIN Lowercase \subseteq Alphanumeric
    /\ Generated \subseteq NicknameWords /\ Generated # {}
    /\ NoName \notin NicknameWords \cup User

VARIABLES
    name,       \* User::_name
    nickname,   \* User::_nickname
    packet      \* what the loop has taken out of the current client's channel

names == <<name, nickname>>
command_vars == <<vars, names, packet>>

CommandsInit ==
    /\ Init
    /\ name = [u \in User |-> u]
    /\ nickname = [u \in User |-> NoName]
    /\ packet = NoPacket

-----------------------------------------------------------------------------
(* Words, names and commands. *)

is_command(line) == line.slash

\* Each of these accepts the empty word.
IsCommandName(word) == word \in Alphanumeric
IsRoomId(word) == word \in Alphanumeric
IsNickname(word) == word \in NicknameWords

tolower(word) == IF word \in DOMAIN Lowercase THEN Lowercase[word] ELSE word

\* The name is a CommandName, the rest the arguments; empty ones count.
parse(line) ==
    IF IsCommandName(Head(line.words))
    THEN [name |-> tolower(Head(line.words)), arguments |-> Tail(line.words)]
    ELSE NoPacket

\* CommandMap::insert emplaces: of the entries with one name the first stays.
inserted(entries) ==
    [n \in {entries[i][1] : i \in DOMAIN entries} |->
       LET found == CHOOSE i \in DOMAIN entries :
                      entries[i][1] = n /\ \A j \in 1..i-1 : entries[j][1] # n
       IN  entries[found][2]]

stub_room_only(command_name) == <<command_name, "need_a_room">>
answering(command_name) == <<command_name, "answer">>

\* Executors that only answer their user are all alike.
GLOBAL_COMMAND_MAP == inserted(
    << stub_room_only("nick"), stub_room_only("kick"), stub_room_only("members"),
       answering("ping"), answering("clear"), answering("whoami"),
       <<"create", "create">>, <<"join", "join">>, <<"leave", "leave">> >>)

room_commands == inserted(
    << answering("members"), answering("room"), <<"nick", "nick">>, <<"kick", "kick">>,
       answering("option"), answering("options"), <<"load", "load">>, <<"end", "end">>,
       <<"start", "start">> >>)

-----------------------------------------------------------------------------
(* Names. *)

set_nickname(u, n) == /\ name' = [name EXCEPT ![u] = n]
                      /\ nickname' = [nickname EXCEPT ![u] = n]

clear_nickname(u) == /\ name' = [name EXCEPT ![u] = u]
                     /\ nickname' = [nickname EXCEPT ![u] = NoName]

\* find_user gives null.
nobody_named(r, n) == \A v \in r.cached_users : name[v] # n

\* The first of the members that have the name, in the order they joined.
find_user(r, n) == begin(r, {v \in r.cached_users : name[v] = n})

\* The seven adjectives are indexed modulo the number of names, which is eight:
\* the eighth is read from behind the vector.  That crashes, throws because it is
\* no part of a nickname, or goes unnoticed.
generator == [name : Generated] \cup [failure : {"crash", "runtime_error"}]

\* Mutants: a name is not looked for, or not made up, on joining.
must_clear_never(u, r) == FALSE
must_clear(u, r) == ~nobody_named(r, name[u])
must_generate_after_clear(u, r) == must_clear(u, r)
must_generate(u, r) == must_clear(u, r) \/ nickname[u] = NoName

\* user_join_room: the names are dealt with before the room lets the user in, or
\* does not.
join_with_name(u, k, r) ==
    LET enters == \/ user_join_room(u, k, r)
                  \/ join_status(r, u, "AS_PLAYER_WAITING") \notin Status
                     /\ UNCHANGED <<rooms, room_of>>
        cleared == IF must_clear(u, r) THEN clear_nickname(u) ELSE UNCHANGED names
    IN  \/ ~must_generate(u, r) /\ enters /\ cleared /\ UNCHANGED down
        \/ /\ must_generate(u, r)
           /\ \E g \in generator :
                IF "name" \in DOMAIN g
                THEN enters /\ set_nickname(u, g.name) /\ UNCHANGED down
                ELSE /\ cleared /\ UNCHANGED <<rooms, room_of>>
                     /\ down' = (g.failure = "crash")

may_set_nickname(u, r, n) ==
    /\ nobody_named(r, n)
    /\ ~(r.game_started /\ u \in players(r))

-----------------------------------------------------------------------------
(* Executors: a command's checks come first, and one that fails only sends   *)
(* a message.                                                                *)

Answer == UNCHANGED <<room_of, listed, rooms, down, names>>

Room_(u) == rooms[room_of[u]]

FreeRooms == {k \in RoomObject \ listed : \A v \in User : room_of[v] # k}

\* The room is listed before its creator gets a name and joins it.
create_executor(u) ==
    IF room_of[u] # NoRoom THEN Answer
    ELSE \E k \in FreeRooms :
           /\ listed' = listed \cup {k}
           /\ join_with_name(u, k, new_room(FALSE))

join_executor(u, args) ==
    IF room_of[u] # NoRoom \/ Len(args) # 1 THEN Answer
    ELSE IF ~IsRoomId(args[1]) \/ args[1] \notin listed THEN Answer
    ELSE join_with_name(u, args[1], rooms[args[1]]) /\ UNCHANGED listed

leave_executor(u) ==
    IF room_of[u] = NoRoom THEN Answer ELSE leave(u) /\ UNCHANGED names

nick_executor(u, args) ==
    IF Len(args) = 1 /\ IsNickname(args[1]) /\ may_set_nickname(u, Room_(u), args[1])
    THEN set_nickname(u, args[1]) /\ UNCHANGED <<room_of, listed, rooms, down>>
    ELSE Answer

kick_executor(u, args) ==
    IF Len(args) = 1 /\ Room_(u).owner = u /\ IsNickname(args[1])
       /\ find_user(Room_(u), args[1]) \ {u} # {}
    THEN /\ \E v \in find_user(Room_(u), args[1]) \ {u} : RoomBecomes(u, removals(Room_(u), v))
         /\ UNCHANGED names
    ELSE Answer

load_executor(u, args) ==
    IF Len(args) = 1 /\ Room_(u).owner = u /\ args[1] = "simon"
    THEN load(u) /\ UNCHANGED names ELSE Answer

\* Mutant: any member may start the game.
start_executor_of_all(u, args) ==
    IF Len(args) = 0 /\ Room_(u).game
    THEN RoomBecomes(u, {begin_game(Room_(u))}) /\ UNCHANGED names ELSE Answer

start_executor(u, args) ==
    IF Len(args) = 0 /\ Room_(u).owner = u /\ Room_(u).game
    THEN start(u) /\ UNCHANGED names ELSE Answer

end_executor(u, args) ==
    IF Len(args) = 0 /\ Room_(u).owner = u /\ Room_(u).game
    THEN end(u) /\ UNCHANGED names ELSE Answer

-----------------------------------------------------------------------------
(* Who executes a command. *)

execute(map, u, command) ==
    LET executor == map[command.name]  args == command.arguments
    IN  \/ executor \in {"answer", "need_a_room"} /\ Answer
        \/ executor = "create" /\ create_executor(u)
        \/ executor = "join"   /\ join_executor(u, args)
        \/ executor = "leave"  /\ leave_executor(u)
        \/ executor = "nick"   /\ nick_executor(u, args)
        \/ executor = "kick"   /\ kick_executor(u, args)
        \/ executor = "load"   /\ load_executor(u, args)
        \/ executor = "start"  /\ start_executor(u, args)
        \/ executor = "end"    /\ end_executor(u, args)

\* The room first, then the game it plays, then the server.
process_command(u, command) ==
    \/ /\ InRoom(u) /\ command.name \in DOMAIN room_commands
       /\ execute(room_commands, u, command)
    \/ /\ InRoom(u) /\ command.name \notin DOMAIN room_commands
       /\ game(u) /\ UNCHANGED names
    \/ /\ ~(InRoom(u) /\ command.name \in DOMAIN room_commands)
       /\ command.name \in DOMAIN GLOBAL_COMMAND_MAP
       /\ execute(GLOBAL_COMMAND_MAP, u, command)
    \/ /\ ~(InRoom(u) /\ command.name \in DOMAIN room_commands)
       /\ command.name \notin DOMAIN GLOBAL_COMMAND_MAP
       /\ Answer

\* The game may intercept what a player says.
process_message(u) ==
    \/ Answer
    \/ InRoom(u) /\ is_player(Room_(u), u) /\ game(u) /\ UNCHANGED names

-----------------------------------------------------------------------------
(* The loop. *)

\* /create is not read while every room object of the model is in use.
receive(line) ==
    /\ ~down
    /\ phase = "packets" /\ current \in known
    /\ packet = NoPacket
    /\ line.words = <<"create">> => FreeRooms # {}
    /\ packet' = line
    /\ UNCHANGED <<vars, names>>

process_packet_line ==
    /\ ~down
    /\ packet # NoPacket
    /\ packet' = NoPacket
    /\ IF ~is_command(packet) THEN process_message(current)
       ELSE IF parse(packet) = NoPacket THEN Answer
       ELSE process_command(current, parse(packet))
    /\ UNCHANGED <<network_vars, disconnected, tick_vars, known>>

\* What module Server says of the network and the rest of the tick.
ServerStep ==
    /\ \/ \E u \in User : accept(u) \/ on_accept(u) \/ disconnect(u)
       \/ on_close \/ disconnected_client
       \/ tick \/ disconnections_done \/ copy_clients
       \/ \E u \in User : process_disconnection(u) \/ next_client(u)
       \/ packet = NoPacket /\ drained
       \/ tick_done
       \/ Died
    /\ UNCHANGED <<names, packet>>

CommandsNext == ServerStep \/ process_packet_line \/ \E line \in Lines : receive(line)

CommandsSpec == CommandsInit /\ [][CommandsNext]_command_vars

-----------------------------------------------------------------------------
(* Properties. *)

\* Everybody in a room goes by its nickname, nobody by the text of its session id,
\* however it got its nickname and lost it: joining makes one up, after taking one
\* away.
MembersHaveNicknames ==
    ~down => \A k \in RoomObject : \A u \in members(rooms[k]) :
               nickname[u] # NoName /\ name[u] = nickname[u]

\* Two members of a room have one name only if the generator made it: /nick and
\* joining look for everybody else's, through games, kicks and coming back.
SharedNamesAreGenerated ==
    ~down => \A k \in RoomObject : \A u, v \in members(rooms[k]) :
               u # v /\ name[u] = name[v] => name[u] \in Generated

\* A packet of a user changes no room but the one the user is a member of, before
\* or after: a user who was kicked and is still mapped to the room has no say.
StrangersHaveNoSay ==
    [][ packet # NoPacket /\ packet' = NoPacket =>
          \A k \in RoomObject :
            rooms'[k] # rooms[k] => current \in members(rooms[k]) \cup members(rooms'[k])
      ]_command_vars

\* The generator failed: nobody joins, but a room may be listed already.
GeneratorFailed ==
    /\ is_command(packet) /\ parse(packet) # NoPacket
    /\ parse(packet).name \in {"create", "join"}
    /\ room_of' = room_of /\ rooms' = rooms
    /\ IF down' THEN TRUE ELSE listed' # listed

\* A line does what module Server allows a packet to do, and so do all other steps,
\* but for a generator that fails: the server is down, or a room that nobody is in
\* stays on the list.
LinesAreServerSteps == [][Next \/ (packet # NoPacket /\ GeneratorFailed)]_vars

\* A packet is in the hands of the loop only while the loop reads its sender's
\* channel, and a user goes by its nickname, or by its id when it has none.
PacketIsCurrent == packet # NoPacket => phase = "packets" /\ current \in known

NamesAgree ==
    /\ name \in [User -> NicknameWords \cup User]
    /\ nickname \in [User -> NicknameWords \cup {NoName}]
    /\ \A u \in User : name[u] = IF nickname[u] = NoName THEN u ELSE nickname[u]

\* The inductive strengthening of the invariants above.
CommandsInvariant ==
    /\ ServiceInvariant
    /\ PacketIsCurrent
    /\ NamesAgree
    /\ MembersHaveNicknames
    /\ SharedNamesAreGenerated
=============================================================================
