# Social gaming platform: verification project

TLA+ specifications of the chat and game server under `src/module/`, with the
TLC runs and the TLAPS proofs that check them. Line references are to
`src/module/...` unless a path says otherwise.

## 1. The system

| Part | State it keeps | Operations | Talks to |
|---|---|---|---|
| chat room (`chat/src/Room.cpp`) | `_members`, four cached sets of them, `_players_disqualified`, `_owner`, `_game`, `_game_started` | `add_user`, `remove_user`, `flush_waitlist`, `set_player_limit`, `set_spectator_limit`, `set_owner`, `load_game`, `start_game`, `end_game`, `process_message`, `process_command`, `update_game`, `disqualify_player`, `reset_players` | the game controller, which calls back; signals for joins and leaves |
| websocket connection (`networking_websocket/src/BeastSocket.cpp`) | `_write_queue`, `_write_buffer`, `_write_finished`, `_connected`, `_connection` | `send`, `close`, completion handlers of read, write and close | Boost.Beast; signals `on_data`, `on_close` |
| listener and I/O threads (`BeastSocketListener.cpp`, `BeastContext.cpp`) | acceptor, thread pool | `start`, `stop`, accept handlers | creates the connections, each on a strand |
| server (`server/src/Server.cpp`, `Connection.cpp`) | `_clients` under a shared lock, a packet queue per client | `clients`, `find_client`, `disconnect` | connections, the daemon |
| server loop (`server/src/ServerLoop.cpp`) | `_running`, `_started` | `start`, `stop`, the tick | the daemon |
| server manager (`server/src/ServerManager.cpp`) | rooms by id, users by id, room of each user | `create_room`, `destroy_room`, `user_join_room`, `user_leave_room`, `add_user`, `remove_user`, `user_set_nickname` | rooms, users |
| daemon (`server_daemon/src/chatserver.cpp`, `commands.cpp`) | the list of disconnected clients | the tick: disconnections, packets, game updates; the chat commands | all of the above |
| example game (`server_daemon/src/EXAMPLE_Simon.cpp`) | `_simon`, `_simon_message`, `_incomplete` | `initialize`, `start`, message and command handlers, `on_player_quit`, `on_option_change` | its room, through `Environment` |
| signals and channels (`common_communication`), weak collections (`common_collections`) | listener lists, queues, weak references | `listen`, `remove`, `emit`; `send`, `receive`, `create_consumer` | connections to the game loop |
| rule interpreter (`game_manager`, `game_spec`) | a stack of rule states, the game state tree | `updateState`, one visitor per rule | players' input |
| file parsers (`serializer`, `server_daemon/src/config.cpp`) | what is read so far | validation and parsing of the server's configuration and of games | `main()`; the games |
| commands and names (`command`, `chat/src/User*.cpp`, `RoomId.cpp`) | the name and nickname of each user | parsing of lines, the two command maps, the nickname generator | the daemon |
| protocol, sessions, logging, database, test client | none that matters here | | |

The network side runs on a pool of I/O threads. Everything in rooms and games
runs on one thread, the tick of the server loop. The two meet in the packet
queues of the connections, in the list of disconnected clients, in the map of
users (which a network thread fills) and in the write queue of each socket.

What is hard: the caches of a room against long call sequences and against
games that call back in the middle of a method; the raw pointers into
`_members`; the hand-over of the write side of a socket between senders and
completion handlers; messages and disconnections applied in another order than
they happened; consumers and listeners that go away while they are being called;
a rule interpreter that decides on copies; exceptions that leave a method half done. `PROJECT.json` lists
these hazards with their lines.

## 2. Modules

| Module | Role |
|---|---|
| `RoomState` | a room as a record, and the effect of each method of `Room` and of `MemberGuard` on it, as operators |
| `Room` | the state machine of one room: one action per public method, an arbitrary game controller |
| `MCRoom` | symmetry for TLC |
| `RoomStateProofs` | what each operator of `RoomState` makes of a sound room: the lemmas the next four rest on |
| `RoomProofs` | the inductive invariant and the action properties of `Room` |
| `BeastSocket` | one websocket connection: threads that send and close, and the strand of completion handlers |
| `Pipe` | what a socket promises those who send on it; `BeastSocket` implements it |
| `BeastSocketProofs` | the inductive invariant of `BeastSocket`, its consequences, and that it implements `Pipe` |
| `Simon`, `MCSimon` | the example game played in one room, over `RoomState`; refines `Room` |
| `SimonProofs` | the invariants of `Simon`, and that it refines `Room` |
| `Server`, `MCServer` | connections, the tick, the server manager and the commands, over several rooms of `RoomState` |
| `Commands`, `MCCommands` | the lines that users type, the command maps and the names of users; extends `Server` and implements it |
| `ServerProofs` | the invariants of `Server` and of `Commands`, and that lines are packets of `Server` |
| `Channel` | `ChannelMultiQueue` over `WeakVector`: threads, reference counts, the vector's mutex |
| `Connection` | one connection from the socket's signals to the loop's queue, over `Channel` |
| `ConnectionProofs` | the inductive invariant of `Channel` and its consequences, that a connection uses its queue as `Channel` allows, and its own invariants |
| `Expression` | the values of the game language and their operators, without state |
| `GameInstance`, `MCGameInstance` | the rule stack machine, the visitors of the rules and the controller that drives them |
| `GameInstanceProofs` | the inductive invariant of `GameInstance` and its consequences |
| `GameFile`, `MCGameFile` | the configuration of the server and the specification of a game: validation and parsing |
| `GameFileProofs` | the invariants of `GameFile`, and that the parser of expressions keeps every value of a document in its place |

`Commands` extends `Server`, which uses `RoomState`; `Simon` uses an instance of
`Room`, `BeastSocket` one of `Pipe`; `Connection` extends `Channel`; `GameInstance` and `GameFile` extend
`Expression`.

### RoomState and Room

`_members` is the function `status` (`ABSENT` where the map has no entry),
`disqualified`, and `joined_before`, the order of the `_since` timestamps, which
is all that `MemberPtr::operator<` looks at. Each user that joins gets a later
timestamp than everybody present. (In the code two members with equal clock
readings would collapse in the sets; the clock has a resolution of
nanoseconds and this is not modelled.)

A loop that guards one member per iteration is one operation on the set of the
members it visits, because an iteration touches only the entries of its own
member. The exception is the removal loop of `set_spectator_limit`: each
removal calls the game, flushes the waitlist and may shift the owner, so it is
a step of its own (`KickNext`, with the rest of the local vector in `kicks`).

A controller is arbitrary: whenever the room calls one, it disqualifies some
members or makes at most one other call of `Environment` that changes the room
(`environment_calls`). Several calls in a row by a message handler are several
`game` steps. Dereferencing a
null `_game` is a fault, after which the model says nothing more.

`_remove_user` looks at the `Member` after erasing it. `FreedMemoryIntact =
FALSE` lets these reads return anything (`freed_read`); the properties hold
either way. `_game_started` has no initial value in the code:
`GameStartedAtBirth` is the set of values it may have.

`call` logs the last call and what it threw; properties about single calls
read it.

### BeastSocket

A step is what a thread does between two points at which other threads can be
noticed: the critical section of `send`, the `compare_exchange_weak`, the
critical section of `_do_async_write`, the use of `_connection`. Handlers run
on the strand one at a time; `_on_async_write` is one step because nothing is
shared before its critical section. Messages are numbered in the order they
are pushed. Beast is external: an operation in progress completes at any time,
with or without an error. `front()` of an empty queue and the use of a null
`_connection` are faults. `ImplementsPipe` maps what was pushed and what was written to
`Pipe`, which delivers in order, once, and nothing that was not sent.

### Simon

The variables of `Room` and those of `EXAMPLE_Simon` (`simon`, `incomplete`),
with the room's own operations taken from an instance `R` of `Room`. One step is
one packet: a message of Simon, a right or a wrong answer, a command of the
owner, somebody joining, leaving or being kicked. What was said is abstracted to
whether the answer repeats it. `simon_name()` and `end_round()` dereference what
`find_player` gives; a null there sets `crashed`. `_incomplete` is a
`std::set` of random ids, so any of its members may be visited before the one
that is null. `listed` follows the server's list of rooms, because a destroyed
room is not joined again. `repeated` is a history variable for `RoundIsFair`. Names are
taken to identify members (`Commands` is about names that do not).

`RoomRefinement` is `Room`'s specification with the same variables: the
handlers of `EXAMPLE_Simon` do nothing to the room that `Room` does not allow
any controller, so what is shown of `Room` holds here.

### Server

Network threads: `accept` and `on_accept` are the two halves of the accept
handler; `disconnect`, `on_close` and `disconnected_client` are the three parts
of `Server::disconnect`, which holds `_clients_lock` (`closing`) throughout and
needs the mutex of `disconnected` in the middle. The handlers of one connection
run on its strand, so a connection neither delivers packets nor closes before
its accept handler is done.

The loop: `tick` takes the mutex, `process_disconnection` handles one entry,
`disconnections_done` clears the list and releases it, `copy_clients` is
`Server::clients()`, `next_client`, `process_packet` and `drained` read the
channels of the copied clients one after the other, `tick_done` is the update of
the games (which does nothing for the only game there is) and the wait. What a
packet says is chosen when it is read: a command that changes something, or a
message that a game intercepts. `disconnected` is a set: the order of the
entries of one tick is left open.

A `Room` object exists as long as it is listed or a user is mapped to it;
`collected` puts an object that is neither back to its initial state, from where
`/create` takes it. Games are any controller that makes the calls of
`EXAMPLE_Simon`. `down` is set where a null pointer is dereferenced
(`user_leave_room` of somebody who is not an active player) and where an
exception leaves the loop (`destroy_room` of a room that is not listed).
`add_user` on a network thread races with the loop's reads of the same map;
each access is taken to be atomic.

### Commands

`Server` chooses what a packet does when it is read; `Commands` reads a line and
computes it: `is_command`, `parse`, the room's command map, the game, the global
map, with the stubs that the global map has for commands of a room. A line is its
words; a word is a member of small sets that say what the parsers of
`CommandName`, `RoomId` and `UserNickname` accept (the empty word, to all three).
`name` and `nickname` are those of `User`. `generator` is the nickname generator,
which may crash, throw or go on when it reads behind its seven adjectives.
`LinesAreServerSteps` says that each line does what `Server` lets a packet do,
so that what is shown of `Server` holds here; the one exception is a generator
that fails.

### Channel and Connection

A consumer exists as long as somebody holds a `shared_ptr` to it: its `owners`,
and a sender between `lock()` and the end of its `push`. Between the end of the
last one and `remove` the container is still in the vector: `send_next` then
follows a null pointer (`crashed`). The opposite order, a sender whose copy is
the last one, has the deleter lock the mutex that the sender holds (`stuck`).
`got` is everything that was ever put into a queue.

`Connection` puts one connection between them: `listeners` of the socket's and
the adapter's signals, `calls`, the stack of emissions of the strand, each with
the listeners that it copied and has not called yet, and `refs`, the holders of
the `shared_ptr` to the `Connection`. The strand accepts, reads, fails and runs
`Server::disconnect`; the loop copies the client, drains its queue and drops the
copies, the queue before the connection. The user, whom nobody erases
(`ServerManager.cpp:173`), holds the connection for good: `NoDanglingListener`
rests on that leak, and its mutant, a `remove_user` that erases, shows it.

### Expression and GameInstance

A value is a record with one field, named for the alternative of the variant it
holds; a failure says how a computation ended (`thrown`, or `undefined`). One
step of `GameInstance` is one round of the loop of `updateState`: the copy of the
top of the stack (`Top`), the visitor, which changes the original, and `advance`,
which decides on the copy. The model starts with the first rule on
`ruleStateStack`: the constructor of `GameInstance` pushes it on the other,
unused `ruleStack`, so the caller has to have done that. The controller calls
`start` once and `update` in every tick. It is taken to have an instance:
`loadInstance` is empty in the code (`GameInstanceController.cpp:96-100`), so that as
it stands `start` follows a null pointer.

`timerList` keeps the first timer of each rule, because `find_if` finds no other
one: a Timer that comes by again, in a loop, is judged by the timer of its first pass.
A second passes at any moment (`tick`). A visitor that throws half-way leaves its rule
state as it is by then (`FailsLeaving`): in progress without a timer, if the duration
of a Timer is no number. Rules whose visitor is empty in the
code do nothing. List, message and input rules never set `finished`, so the loop
visits them for ever; queues keep their first `MaxQueue` entries, which makes the
states finite without stopping the loop. `bodies`, which counts how often nested rules
were begun, is a history variable; a Timer may begin them any number of times, and
its count stops at `MaxTimed`, which stands for many.

### GameFile

Two programs in one module, chosen by `call`: `main()` up to the listening
server, and `parseGameSpecification`; and `parseRule`, which nobody calls yet. A
JSON value is a record with one field, named for its `value_t`, as nlohmann's
parser types it. `ndebug` is the build: without assertions, what an assertion
guards against is reached. The rule parsers are commented out in the code and
flow off their end, as the model says (`parseRuleNamed`).

`Json` is the set of values that occur, `Depth` how deep one is nested, which makes
`parseExpression` a recursive function on finite trees; `IndexName` is the text that
`items()` gives for the number of an element. `ParsedFaithfully` follows `Paths` of
names through a document and through what was parsed from it, and compares every setup
whose type `parseSetupValue` has a case for. The field "player count" of the file is
`player_count` here.

## 3. Runs

| Run | Checks | Shows |
|---|---|---|
| `room` | the type invariant, three invariants, three action properties | the caches, the owner, the limit and the waitlist survive every sequence of calls of four users |
| `socket` | two invariants, `ImplementsPipe`, two liveness properties | one writer at a time, messages in order and once, none lost, none forgotten, every disconnection signalled |
| `simon` | two invariants, `RoomRefinement` | answers are judged by the round they belong to, disqualifications end with the game, and Simon implements `Room` |
| `server` | four invariants | users are in one room, rooms are occupied and sound, and a lost user never comes back |
| `server_lost` | `LostUserLeaves` | a lost user leaves its room in the end |
| `server_leave` | `NotInRoomDoesNothing` | violated: `/leave` after a kick |
| `commands` | two invariants, two action properties | members have nicknames, shared ones only by the generator; strangers change nothing; lines implement `Server` |
| `channel` | three invariants | the walk over the consumers is stable, no consumer dies in use, nothing is skipped, doubled or reordered |
| `connection` | two invariants, one liveness property | no listener is called after its owner, no packet of a listed client is lost, every lost client comes off the list |
| `connection_race` | `ThreadSafe` | violated: `send` meets a consumer that was just let go of |
| `interpreter` | five invariants, one liveness property | the stack is a path through the rules, loops run once per element and clean up, a Timer ends after its nested rules began and not before its time, lists keep their elements, games of rules that finish end |
| `gamefile` | three invariants | the port and page that are configured are served; validation is exact and its checks protect each other; parsing loses and reorders nothing |

The two violated properties are findings of `PROJECT.json`. Other disagreements
between code and comments, tests or data, met while modelling and without a run of
their own; the model does what the code does:

- The comment in `visitImpl(Timer)` (`DSLInterpreter.cpp:592`) has `updateState` look
  at the timers in every round and pop the nested rules of those that are over. The
  line for it is commented out (`GameInstance.h:62`): an overdue timer is noticed when
  its nested rules are through, if they ever are.
- `parseSetupValue` has a case for `number_integer` and none for `number_unsigned`, the
  type of every non-negative number that is read from text. A build with assertions
  aborts, another one reads 0; `src/test/testSerializer.cpp:146-179` expects 10 and 11,
  and the stub of `parseConfig` (`:22-32`, `:125`) has such a number too.
  `ParsedFaithfully` is about the types that have a case.
- `isValidServerConfig` compares with `NULL`, a number, which the null that stands for
  a missing key is not equal to: it accepts what lacks a port, a page, games or all of
  them, where `src/test/testSerializer.cpp:86-116` expects false. A missing port or page
  is stopped by `at()` in `parseServerConfig`, with an exception; missing games by
  nothing.
- `_game_started` has no initial value (`Room.hpp:118`); the runs take it to be
  false, and `ActiveGameCorrect` states that as an assumption.
- `AS_PLAYER_WAITING`, the default of `add_user`, makes a player of the user
  whenever a slot is free, also during a game (`Room.cpp:231`; `Room.hpp:62`:
  "Join the room as a player waiting to join the game.").
- `compare_exchange_weak` in `send` is not in a loop (`BeastSocket.cpp:158`); where
  it may fail spuriously (`WeakExchange = TRUE`) a message waits for the next
  `send`.
- `start_game` counts a win for every player (`Room.cpp:526`), and `check_win`
  one for every message of Simon while two players are left, without ending the
  game (`EXAMPLE_Simon.cpp:38`).
- A Simon who watches, or whose erased `Member` is not read as a player any more,
  leaves without ending the game (`Room.cpp:185`; `EXAMPLE_Simon.cpp:127`: "End
  the game if Simon leaves.").
- `/kick` leaves the user mapped to the room (`commands.cpp:200`), so that it can
  neither join nor create another one; `remove_user` does not remove the user
  (`ServerManager.cpp:173`; `ServerManager.hpp:137`: "Removes a User object from
  the user map.").

- `set_player_limit` never assigns the limit: it demotes, and the next join fills
  the slot again (`Room.cpp:302`; `Room.hpp:308`: "Sets the player limit.").
- `set_spectator_limit` removes players (`Room.cpp:325`; `Room.hpp:317`: "Excess
  spectators will be kicked").
- A player of a room without spectators who asks to watch is refused with
  `ROOM_FULL`: one is subtracted from a `size_t` that is zero (`Room.cpp:205`).
- Between the push and the exchange in `send` the handlers may write the message,
  after which the exchange succeeds on an empty queue (`BeastSocket.cpp:158`;
  modelled as a fault of the socket).
- `end_round` dereferences `find_player` of a player who left without answering
  (`EXAMPLE_Simon.cpp:46`; `crashed` in `Simon`).
- A room whose last player leaves is destroyed with its spectators in it
  (`ServerManager.cpp:119`; line 118: "Remove the room (if empty).").
- A ForEach is visited again before its nested rules have run, so that the body
  sees the next element, and the last body none (`DSLInterpreter.cpp:527`:
  "invariant: when this rule is called again each of its nested rules will have
  finished"). The number of bodies is right (`BodyRunsOncePerElement`). For the same
  reason Add adds twice.
- `updateState` does not return for input (`GameInstance.h:54`: "Interprets rules
  until requires user interaction or game ends."): nothing sets `needsInput`, and a
  message or input rule is visited for ever, so that nothing queued is delivered.
- A nickname is made up, or taken away, before the room decides on the join, so a
  refused join changes the name; a failing generator leaves the room that
  `/create` listed without anybody in it (`ServerManager.cpp:130-147`).
- `CommandName`, `RoomId` and `UserNickname` accept the empty word.
- The setup kinds that are known abort a build with assertions, and the others are
  looked up behind the end of the table without them (`jsonSerializer.cpp:124`). The
  parser of expressions has no case for `number_unsigned` either.
- The games that come with the repository (`src/templates/game/`) and the `game_stub`
  among the "Valid Stubs" of `src/test/testSerializer.cpp:34-46` are refused by
  `validFieldValues`: the tables (`jsonSerializer.h:143-160`) ask for arrays where these
  files have objects, and for `number_integer` where a file that is read has
  `number_unsigned`. `ValidationIsExact` is relative to these tables.
- The listener starts before its handlers are attached (`Server.cpp:17`): who is
  accepted in between is dropped.

Bounds. `room`: four users with two player slots and two spectator slots, so
that both limits are hit, there is somebody to promote, to demote and to
succeed the owner, and the waitlist holds two. The limits passed to the
setters are 0, 1 and 2: rejected, below and at the limit. `SizeT = 16` is larger
than any count and small enough to show a wrap. Users are symmetric. `socket`: two threads besides the strand and
four messages, so that the queue fills behind a write, drains and fills again,
with both threads inside `send`. The runs of `socket` do not check deadlock: a
socket that is closed, or has no more to send, may rest.

`simon`: four users and three player slots, so that a game can start properly
(three players), a fourth user watches, and players can be disqualified down to
two and one; freed memory may hold anything. `server`: three
users, two rooms, two player slots and one spectator slot: a room can be full,
have a spectator, lose its players and be created anew, while the third user is
in the other room. `server_lost` has two users, because liveness excludes
symmetry.

`commands`: three users, one room with two player slots and no spectator slot, so
that a join can be refused; the lines include a name that users choose, one that
the generator makes and users may choose as well, commands in capitals, with
arguments missing, in excess or malformed, and unknown ones. `/create` is not read
while the room object is in use. `channel`: two threads, two consumers, one of them
filtered, three messages a thread: one is rejected between two that are accepted,
and both threads send while the other lets go. `connection`: three packets, the
strand and the loop; the tick repeats for ever. These two do not check deadlock: a
channel at its bound, and a thread that is `crashed` or `stuck`, may rest.
`interpreter`: every loop over lists of no, one and two elements and every timer,
around each other and around rules that do and do not finish, and every other rule
on its own, with names that exist, do not, or have another type; `IntWidth = 3`, so
that Add wraps. A game that is over may rest. `gamefile`: a good specification with
one field changed to each JSON type or missing, on each level, two fields swapped,
setups of up to two entries, environments nested three deep, followed along all paths of
up to four names out of those that occur; ports below, at and
above an unsigned short (`PortWidth = 3` bits) and an int (`IntWidth = 5`).

Fairness (`Server!Fairness`). The steps of the tick and of a closing handler
that has begun are weakly fair: they are ordinary code. `drained` being fair
assumes that no client sends faster than the loop reads for ever. Nobody has to
connect, send or disconnect.

Fairness (`Connection!Spec`). A handler that has begun is run to its end, and a
thread that is about to take a consumer off the vector gets the mutex: both are
ordinary code. Nobody has to connect, send, fail or tick. `GameInstance!Fairness`:
the loop of `updateState` has a thread of its own, and time passes.

Fairness (`BeastSocket!Fairness`). A thread inside a method goes on: weak
fairness of each thread. Completion handlers of writes and of close are queued
on the strand by Beast, which sets timeouts on the stream
(`BeastSocketListener.cpp:68`), so they run even if the peer never answers; the
strand is a queue, so other handlers cannot pass them over for ever: strong
fairness. Nobody has to send, close or talk. `room` has no liveness property:
all its steps are requests of users.

## 4. Proofs

Everything below holds for every value of the constants that satisfies the
assumptions named at the end: any finite set of users, any number of threads,
rooms, consumers and messages, any game. Each invariant is a consequence of an
inductive one, which is defined next to it in the component's module (for `GameFile`
in `GameFileProofs`) and was checked by TLC on the run's instance before it was proved.

**Room** (`RoomStateProofs`, `RoomProofs`). `RoomInvariant` adds to the
invariants that TLC checks that disqualified users are members and that the
victims of `set_spectator_limit` still are. The argument is one lemma per
operator of `RoomState`, all of the same shape: from a `Sound` room (typed,
consistent caches, within the limit) it makes a `Sound` room and keeps the
members. The core is `GuardOpens`/`GuardCloses`: removing a set of members from
consistent caches, changing their status or flag and adding them again gives
consistent caches, and `player_count` is the number of active plus the number
of disqualified players throughout. `ActiveGameCorrect` assumes that
`_game_started` starts as false, which the code does not ensure. It and
`SpectatorCountCorrect` are proved only: `CachesMatchMembers`, which the run checks,
implies that the count does not wrap, and no run starts a game that is not loaded.

The action properties (`WaitlistFairness`, `NoPromotionInGame`, `Succession`) need
a second family of lemmas, which say what an operator does to one member's status,
to the order of joining and to the owner (`FlushEffect`, `ShiftOwnerEffect`,
`DetachEffect`, ...). `StepIsOrderly` shows that each action is a join, a
`set_owner`, or an `OrderlyStep`: whoever is promoted comes off the waitlist before
those who joined later, outside games, and the owner changes only when it leaves,
to the member who joined first. These proofs need `RoomInvariant` for the caches:
the code promotes from `spectators()`, and the properties speak of `_members`.

**Simon** (`SimonProofs`). `SimonInvariant` says that nobody both owes an answer
and has given it, which makes `RoundIsFair` inductive, and that the room is one
that `Room`'s handlers accept. `SimonRefinesRoom` then maps each packet to an
action of `Room`, or to a stutter; the work is in a message of Simon and in quitting,
where disqualifications that may be followed by the end of the game have to be
something that `Room`'s arbitrary controller may do (`JudgementPlayable`): ending
the game undoes them.

**Server** (`ServerProofs`). `ServiceInvariant` follows a lost user through the
tick: who is served is a client or on the list of the disconnected; who is on the
list has left its room before the list is cleared; and whom `Server::disconnect`
has listed and not yet forgotten is either still listed, or dealt with and
forgotten before the loop copies the clients again. Without the last part
`GoneForGood` is not inductive: it is what the two locks are for.
`ListedRoomIsOccupied` is inductive on top of that and is kept apart, because
`Commands` keeps everything else and not this: a failing nickname generator leaves
a deserted room on the list.

**Commands** (`ServerProofs`). `LineOutcome` takes a line through the parser, the
two command maps and the executors: it answers, gives its sender a name that nobody
in the room has, does one of the things a packet of `Server` does, or brings its
sender into a room. From that, `LinesRefineServer` shows that every step is one of
`Server` unless the generator fails, `ServiceOfLines` that even a failing generator
leaves rooms, maps and departures in order, and `NoSayForStrangers` that lines
touch no room of which their sender is no member. `CommandsInvariant` adds
`NamesAgree` (a user goes by its nickname, or by its id when it has none), with
which `Nicknames` and `SharedNames` are inductive, and `PacketIsCurrent` (the loop
holds a packet only of the client whose channel it reads).

**Channel and Connection** (`ConnectionProofs`).
`ChannelInvariant` says that a walking sender holds the consumer that is next
(`Walkers`), that a consumer is on the vector at most once (`OnceOnly`) and until
the one thread that takes it off has done so (`Departures`), and that a consumer on
the vector has everything since its first message from a thread but for the message
that is just being sent (`KeepsUp`). The last is what rules out gaps while several
threads walk. `ConnectionRefinesChannel` maps every step of a connection to a step
of its channel or to a stutter, so that `ConnectionDelivers` is a corollary.
`ConnectionInvariant` adds that nothing is read or emitted before the connection is
open (`BeforeOpen`), who holds it from then on (`IsHeld`), and that what was read
from a listed client is in its queue or on its way there (`ClientIsServed`).

**GameInstance** (`GameInstanceProofs`). `GameInvariant` is about rule states that
are decided upon a round late. `IsBehindByOne` says by how much: an unfinished
ForEach has run its nested rules once less often than it has taken elements, and
catches up in the round in which it finishes. `OuterScopesAreKept` says that loops
bind their element in the innermost scope only, so that what they remove is what
they bound. `RulesAreTimed` is why a Timer does not end before its nested rules have
begun: its visitor takes a second call to mean that they are done, and they are begun
between the two calls, on the copy that is a round old. `TimedRules` follows from it
(deciding on the original instead, as `advance_by_reference` does, breaks it).

`ListsInvariant` is about the tree of variables that rules store into. The recursive
functions behind `getPtr` and `store` are shown to exist for paths of any length and
to follow and rebuild one name at a time (`ReachedExists`, `RebuiltExists`), by the
least length for which they did not; a store then changes what its path names and
nothing else (`StoreChangesOne`). Reversing, shuffling and discarding give a list whose elements are
chosen from the old one, none twice (`CountOfChosen`). Why what is gone from a list is
a multiple of one Discard's count: a Discard never finishes, so that once one has taken
something no other rule is visited any more (`DiscardsStay`). The property leaves out
the list of players, which `start` replaces, and what the flag of a TRACK timer
names, which the timer overwrites.

**GameFile** (`GameFileProofs`). `ServerInvariant` and `GameInvariant` say what has
been found out about the file when each function begins, and why it failed if it did.
Validation: a level that has all the fields of its table, and as many, has no others
(`LevelIsExact`), so that `FIELDS.at()` finds every key. Parsing: the recursion
over a document has one solution up to each depth and so one on all documents
(`SolutionExists`, `SolutionUnique`, `RecursionSolved`); a value whose parsing ends in
anything but a value or a failure would have a least deep one like it (`ParseResult`);
and a path that leads to a value and to what it was parsed to still does so one name
further on (`AgreeFurther`). Setups: what `parseConfig` returns, if it does, has the
setups of the document, each read by the case of its type (`SetupsRead`). Ports: a
remainder that is taken twice, as an `int` and as an `unsigned short`, is the number
itself if that fits (`PortFits`).

**BeastSocket** (`BeastSocketProofs`). `SocketInvariant` says where every message
is: the queue holds the last ones pushed, the buffer the one before them when a
write is in transit, the wire the rest; and that the write side has an owner (an
idle flag, a thread or an operation) unless the connection went down. With that, the
success of a write is a `Deliver` of `Pipe`, a `send` is a `Send`, and nothing else
is seen from outside (`StepOfPipe`).

Assumptions, all evaluated by TLC in the runs: `RoomConstants`, `CallConstants`,
`SocketConstants`, `ServerConstants`, `CommandConstants` (what one parser accepts
the other does; no nickname is the absence of one), `ChannelAssumption`,
`ConnectionAssumption` (two different threads, the strand and the loop, and one
consumer without a filter, as `Connection` creates it),
`GameInstanceAssumption` (rules name rules of their game; lists, scopes and the paths
of Add and of timers are sequences; the count of a Discard is an integer),
`GameFileAssumption` (what is in a JSON value is one, and lies deeper; an object has
finitely many fields and the elements of an array different numbers; a port is
narrower than an int) and `PowersAreNumbers` (the two powers of two are positive, which
the provers do not know).

Only model-checked:

- liveness (`EventuallyWritten`, `CloseIsSignalled`, `LostUserLeaves`,
  `LostClientIsErased`, `FinishingGamesEnd`): fairness is out of the prover's reach;
- the two violated properties.

## 5. Not modelled

`set_owner` of nobody (`Room.hpp:463-470`), for which there is no caller; that the
comparison of `_owner` with the `Member` that was just freed (`Room.cpp:194`) could be
true of somebody who is not the owner; in `Server`, a nickname generator that fails
after `create_room` has listed the room (`Commands` has it). Message texts, broadcasts
and statistics; the data race on `_connection` beyond
reading null, and the one on the map of users; `listen_once`, `stop()` of the
listener and of the loop, and the move constructor of `Connection`, which nobody
calls; a socket and its connection in one module (`Connection` has the socket's
handlers as `BeastSocket` shows them to its listeners: one at a time, and `on_close`
after every failure). The parts marked `not_modelled` in `PROJECT.json`: the packet
encodings, session tokens and logging keep no state that another part reads; the
database is not linked into the server, and the test client is marked for removal.

## 6. Plan

Every safety property of a passing run is proved. What could follow is an abstract
room (a set of players, a queue of waiting users and an owner) which `Room`
implements, and `BeastSocket` and `Connection` in one specification.
