----------------------------- MODULE Connection -----------------------------
(***************************************************************************)
(* One connection of the server, from the socket's signals to the packets  *)
(* that the game loop takes out of its queue: Signal, SocketAdapter,       *)
(* Connection, Client and the parts of Server that hold them together,     *)
(* over the Channel.                                                       *)
(*                                                                         *)
(* The handlers of a socket run one at a time on its strand; the loop runs *)
(* beside it.  A signal copies its listeners and then calls them, one step *)
(* each: `calls` is the strand's stack of signals that are being emitted.  *)
(***************************************************************************)
EXTENDS Channel

CONSTANTS Strand, Loop,   \* the two threads
          Queue           \* the consumer that belongs to the client

(* A client takes every packet: its consumer is created without a filter.  *)
ASSUME ConnectionAssumption ==
  /\ Threads = {Strand, Loop} /\ Strand # Loop
  /\ Consumers = {Queue} /\ Filtered = {}

VARIABLES
  listeners,     \* of each signal, what is attached to it
  calls,         \* the signals that the strand is emitting, innermost last
  emits,         \* the signals that the current handler still has to emit
  refs,          \* who holds a shared_ptr to the Connection
  phase,         \* how far accepting has come
  reading,       \* the read operation: "fresh", "doomed" or "none"
  writing,       \* is there a write operation that may fail?
  arrived,       \* how many packets were read (history)
  disconnected,  \* is the connection on the daemon's list?
  tick           \* where the game loop is

own_vars == <<listeners, calls, emits, refs, phase, reading, writing, arrived, disconnected, tick>>
vars == <<channel_vars, own_vars>>

SocketSignals  == {"on_data", "on_error", "on_close"}
AdapterSignals == {"on_message", "adapter_on_error", "adapter_on_close"}

Init ==
  /\ ChannelInit
  /\ listeners = [s \in SocketSignals \cup AdapterSignals |-> <<>>]
  /\ calls = <<>> /\ emits = <<>>
  /\ refs = {} /\ phase = "accepting"
  /\ reading = "none" /\ writing = TRUE
  /\ arrived = 0
  /\ disconnected = FALSE
  /\ tick = "disconnections"

(* SocketAdapter and Connection attach to what they hold; the server       *)
(* listens for the end of the connection.                                  *)
attached_unforwarded ==
            [on_data |-> <<"receive">>, on_error |-> <<"forward_error">>,
             on_close |-> <<>>, on_message |-> <<"queue">>,
             adapter_on_error |-> <<>>, adapter_on_close |-> <<"lost">>]
attached == [on_data |-> <<"receive">>, on_error |-> <<"forward_error">>,
             on_close |-> <<"forward_close">>, on_message |-> <<"queue">>,
             adapter_on_error |-> <<>>, adapter_on_close |-> <<"lost">>]

(* Signal::listen and Signal::remove, of several listeners at once. *)
listen(more) == [s \in DOMAIN listeners |-> listeners[s] \o more[s]]
removed(gone) ==
  [s \in DOMAIN listeners |->
     SelectSeq(listeners[s], LAMBDA l : \A i \in DOMAIN gone[s] : l # gone[s][i])]

(* The shared_ptr of `who` goes.  With the last one the destructors remove *)
(* the listeners that they attached.                                       *)
let_go(who) ==
  /\ refs' = refs \ {who}
  /\ listeners' = IF refs' = {} THEN removed(attached) ELSE listeners

(***************************************************************************)
(* Accepting.  The server's listener runs in the handler that begins to    *)
(* read, so before any handler of a read.                                  *)
(***************************************************************************)
_on_async_accept ==
  /\ phase = "accepting"
  /\ phase' \in {"refused", "handshake"}
  /\ UNCHANGED <<channel_vars, listeners, calls, emits, refs, reading, writing, arrived, disconnected, tick>>

_on_async_accept_websocket ==
  /\ phase = "handshake"
  /\ \/ phase' = "refused" /\ UNCHANGED reading
     \/ phase' = "new" /\ reading' = "fresh"
  /\ UNCHANGED <<channel_vars, listeners, calls, emits, refs, writing, arrived, disconnected, tick>>

make_connection ==
  /\ phase = "new"
  /\ listeners' = listen(attached)
  /\ refs' = {"strand"}
  /\ phase' = "made"
  /\ UNCHANGED <<channel_vars, calls, emits, reading, writing, arrived, disconnected, tick>>

emplace_client ==
  /\ phase = "made"
  /\ create_consumer(Strand, Queue)
  /\ refs' = refs \cup {"client"}
  /\ phase' = "listed"
  /\ UNCHANGED <<listeners, calls, emits, reading, writing, arrived, disconnected, tick>>

(* The daemon makes the connection's user, who keeps it for good. *)
add_user ==
  /\ phase = "listed"
  /\ refs' = (refs \cup {"user"}) \ {"strand"}
  /\ phase' = "open"
  /\ UNCHANGED <<channel_vars, listeners, calls, emits, reading, writing, arrived, disconnected, tick>>

(***************************************************************************)
(* The handlers of the socket (modelled in BeastSocket)                    *)
(***************************************************************************)
(* The strand runs one handler at a time. *)
strand_free_any_time == phase \in {"made", "listed", "open"} /\ calls = <<>> /\ emits = <<>> /\ pc[Strand] = Idle
strand_free == phase = "open" /\ calls = <<>> /\ emits = <<>> /\ pc[Strand] = Idle

(* A read that was under way when a write failed may still succeed. *)
_on_async_read ==
  /\ strand_free
  /\ reading = "fresh"
  /\ arrived < MaxMessages
  /\ arrived' = arrived + 1
  /\ reading' = IF writing THEN "fresh" ELSE "doomed"
  /\ emits' = <<"on_data">>
  /\ UNCHANGED <<channel_vars, listeners, calls, refs, phase, writing, disconnected, tick>>

(* Any error but the end of the stream is signalled before the close.      *)
_handle_error ==
  /\ strand_free
  /\ \E e \in {<<"on_close">>, <<"on_error", "on_close">>} : emits' = e
  /\ \/ reading # "none" /\ reading' = "none" /\ UNCHANGED writing
     \/ writing /\ writing' = FALSE /\ UNCHANGED reading
  /\ UNCHANGED <<channel_vars, listeners, calls, refs, phase, arrived, disconnected, tick>>

(***************************************************************************)
(* Signal::emit                                                            *)
(***************************************************************************)
Emission(s) == [signal |-> s, todo |-> listeners[s]]

emit ==
  /\ emits # <<>> /\ calls = <<>> /\ pc[Strand] = Idle
  /\ calls' = <<Emission(Head(emits))>>
  /\ emits' = Tail(emits)
  /\ UNCHANGED <<channel_vars, listeners, refs, phase, reading, writing, arrived, disconnected, tick>>

calling(l) == /\ pc[Strand] = Idle
              /\ calls # <<>>
              /\ calls[Len(calls)].todo # <<>>
              /\ Head(calls[Len(calls)].todo) = l

(* The rest of the innermost emission, once its first listener returned.   *)
called == [calls EXCEPT ![Len(calls)].todo = Tail(@)]

(* Signal::forward, and SocketAdapter's listener for data *)
forward(l, s) ==
  /\ calling(l)
  /\ calls' = Append(called, Emission(s))
  /\ UNCHANGED <<channel_vars, listeners, emits, refs, phase, reading, writing, arrived, disconnected, tick>>

(* Connection's listener: the packet goes into the channel. *)
queue_packet ==
  /\ calling("queue")
  /\ send(Strand)
  /\ calls' = called
  /\ UNCHANGED <<listeners, emits, refs, phase, reading, writing, arrived, disconnected, tick>>

sending_packet ==
  /\ sending(Strand)
  /\ UNCHANGED own_vars

emit_returns ==
  /\ pc[Strand] = Idle
  /\ calls # <<>> /\ calls[Len(calls)].todo = <<>>
  /\ calls' = SubSeq(calls, 1, Len(calls) - 1)
  /\ UNCHANGED <<channel_vars, listeners, emits, refs, phase, reading, writing, arrived, disconnected, tick>>

(***************************************************************************)
(* Server::disconnect, called by the listener for the close.  The client   *)
(* is on the daemon's list before it is erased.                            *)
(***************************************************************************)
disconnect ==
  /\ calling("lost")
  /\ "strand" \notin refs
  /\ IF "client" \in refs
     THEN refs' = refs \cup {"strand"} /\ disconnected' = TRUE /\ UNCHANGED calls
     ELSE calls' = called /\ UNCHANGED <<refs, disconnected>>
  /\ UNCHANGED <<channel_vars, listeners, emits, phase, reading, writing, arrived, tick>>

erase_client ==
  /\ calling("lost")
  /\ {"strand", "client"} \subseteq refs
  /\ release(Strand, Queue)
  /\ let_go("client")
  /\ UNCHANGED <<calls, emits, phase, reading, writing, arrived, disconnected, tick>>

disconnect_returns ==
  /\ calling("lost")
  /\ "strand" \in refs /\ "client" \notin refs
  /\ calls' = called
  /\ let_go("strand")
  /\ UNCHANGED <<channel_vars, emits, phase, reading, writing, arrived, disconnected, tick>>

(***************************************************************************)
(* The game loop                                                           *)
(***************************************************************************)
(* ServerManager::remove_user takes the user out of its room, not off the  *)
(* map of users.                                                           *)
forget_user_erased == IF disconnected THEN let_go("user") ELSE UNCHANGED <<refs, listeners>>
forget_user == UNCHANGED <<refs, listeners>>

process_disconnections ==
  /\ tick = "disconnections"
  /\ forget_user
  /\ disconnected' = FALSE
  /\ tick' = "clients"
  /\ UNCHANGED <<channel_vars, calls, emits, phase, reading, writing, arrived>>

(* disconnect() holds the lock of the list of clients until it returns. *)
clients_locked == phase = "open" /\ "strand" \in refs

(* Server::clients copies the Client, its queue included. *)
copy_clients ==
  /\ tick = "clients"
  /\ ~clients_locked
  /\ IF "client" \in refs
     THEN share(Strand, Loop, Queue) /\ refs' = refs \cup {"loop"} /\ tick' = "packets"
     ELSE UNCHANGED <<channel_vars, refs>> /\ tick' = "disconnections"
  /\ UNCHANGED <<listeners, calls, emits, phase, reading, writing, arrived, disconnected>>

process_packet ==
  /\ tick = "packets"
  /\ receive(Loop, Queue)
  /\ UNCHANGED own_vars

(* The copies go at the end of the loop, the queue before the connection.  *)
drop_queue ==
  /\ tick = "packets"
  /\ _queue[Queue] = <<>>
  /\ release(Loop, Queue)
  /\ tick' = "done"
  /\ UNCHANGED <<listeners, calls, emits, refs, phase, reading, writing, arrived, disconnected>>

disassociate ==
  /\ \E t \in Threads : remove(t)
  /\ UNCHANGED own_vars

drop_client ==
  /\ tick = "done" /\ pc[Loop] = Idle
  /\ let_go("loop")
  /\ tick' = "disconnections"
  /\ UNCHANGED <<channel_vars, calls, emits, phase, reading, writing, arrived, disconnected>>

Accepting == _on_async_accept \/ _on_async_accept_websocket \/ make_connection \/ emplace_client \/ add_user
Handlers  == _on_async_read \/ _handle_error
Calls     == emit \/ emit_returns \/ queue_packet \/ sending_packet
             \/ forward("receive", "on_message") \/ forward("forward_error", "adapter_on_error")
             \/ forward("forward_close", "adapter_on_close")
             \/ disconnect \/ erase_client \/ disconnect_returns
LoopSteps == process_disconnections \/ copy_clients \/ process_packet \/ drop_queue \/ drop_client

Next == Accepting \/ Handlers \/ Calls \/ LoopSteps \/ disassociate

(* A handler that has begun is run to its end by the strand's thread. *)
Spec == Init /\ [][Next]_vars /\ WF_vars(Calls) /\ WF_vars(disassociate)

-----------------------------------------------------------------------------
(***************************************************************************)
(* Properties                                                              *)
(***************************************************************************)
(* No listener is called after its owner is gone: the copies that emit()   *)
(* made refer to the SocketAdapter and the Connection by raw pointer, and  *)
(* remove() does not reach them.  What keeps the Connection is its user.   *)
NoDanglingListener ==
  (\E i \in DOMAIN calls : calls[i].todo # <<>>) \/ pc[Strand].at # "idle" => refs # {}

(* Every packet that is read while the client is listed is in its queue    *)
(* when the handler is through: reading begins before anybody listens, but *)
(* not before the strand's first handler has returned.                     *)
NothingReceivedIsLost ==
  "client" \in refs /\ calls = <<>> /\ emits = <<>> /\ pc[Strand] = Idle
  => Len(got[Queue]) = arrived

(* However it fails, a connection that is lost comes off the list of       *)
(* clients.                                                                *)
LostClientIsErased == (phase = "open" /\ (reading = "none" \/ ~writing)) ~> ("client" \notin refs)

(* The packet that was read is on its way to the queue: its signal is to   *)
(* be emitted, is at SocketAdapter, is at Connection, or the channel is    *)
(* about to push it.                                                       *)
Emitting(s, todo) == [signal |-> s, todo |-> todo]

InFlight ==
  \/ calls = <<>> /\ emits = <<"on_data">> /\ pc[Strand] = Idle
  \/ /\ emits = <<>> /\ pc[Strand] = Idle
     /\ \/ calls = <<Emitting("on_data", <<"receive">>)>>
        \/ calls = <<Emitting("on_data", <<>>), Emitting("on_message", <<"queue">>)>>
  \/ /\ emits = <<>> /\ pc[Strand].at = "send" /\ pc[Strand].todo = <<Queue>>
     /\ calls = <<Emitting("on_data", <<>>), Emitting("on_message", <<>>)>>

(* No packet is: the strand has nothing to do, is on its way back from the *)
(* push, or is signalling an error or the close.                           *)
Settled ==
  \/ /\ calls = <<>> /\ pc[Strand] = Idle
     /\ emits \in {<<>>, <<"on_close">>, <<"on_error", "on_close">>}
  \/ /\ emits = <<>> /\ pc[Strand].at = "send" /\ pc[Strand].todo = <<>>
     /\ calls = <<Emitting("on_data", <<>>), Emitting("on_message", <<>>)>>
  \/ /\ emits = <<>> /\ pc[Strand] = Idle
     /\ \/ calls = <<Emitting("on_data", <<>>), Emitting("on_message", <<>>)>>
        \/ calls = <<Emitting("on_data", <<>>)>>
        \/ calls = <<Emitting("on_close", <<"forward_close">>)>>
        \/ calls = <<Emitting("on_close", <<>>), Emitting("adapter_on_close", <<"lost">>)>>
  \/ /\ emits = <<"on_close">> /\ pc[Strand] = Idle
     /\ \/ calls = <<Emitting("on_error", <<"forward_error">>)>>
        \/ calls = <<Emitting("on_error", <<>>), Emitting("adapter_on_error", <<>>)>>
        \/ calls = <<Emitting("on_error", <<>>)>>

Accounted == \/ InFlight /\ arrived = Len(got[Queue]) + 1
             \/ Settled /\ arrived = Len(got[Queue])

(* Until the connection is made nobody listens, nobody holds it and the    *)
(* loop has nothing of it; until the client is listed there is no queue;   *)
(* and until the connection is open its strand runs no handler.            *)
BeforeOpen ==
  /\ phase \in {"accepting", "refused", "handshake", "new"} =>
       refs = {} /\ listeners = [s \in SocketSignals \cup AdapterSignals |-> <<>>]
  /\ phase \notin {"listed", "open"} =>
       /\ _collection = <<>> /\ "client" \notin refs /\ tick \notin {"packets", "done"}
  /\ phase # "open" =>
       calls = <<>> /\ emits = <<>> /\ pc[Strand] = Idle /\ arrived = 0 /\ got[Queue] = <<>>

(* Once it is made, somebody holds the connection and everything is        *)
(* attached: the strand, which hands it over to the user.                  *)
IsHeld ==
  /\ phase \in {"made", "listed"} => "strand" \in refs
  /\ phase = "open" => "user" \in refs
  /\ phase \in {"made", "listed", "open"} => listeners = attached

(* The queue of a client that is listed is on the channel's vector, and    *)
(* what was read is there or on its way.                                   *)
ClientIsServed ==
  "client" \in refs =>
    /\ _collection = <<Queue>> /\ Strand \in owners[Queue]
    /\ phase = "open" => Accounted

(* The inductive strengthening of the invariants. *)
ConnectionInvariant ==
  /\ ChannelInvariant
  /\ phase \in {"accepting", "refused", "handshake", "new", "made", "listed", "open"}
  /\ arrived \in Nat
  /\ BeforeOpen
  /\ IsHeld
  /\ ClientIsServed
=============================================================================
