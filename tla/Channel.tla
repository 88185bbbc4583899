------------------------------ MODULE Channel ------------------------------
(***************************************************************************)
(* ChannelMultiQueue: every message that is sent goes to the queue of each *)
(* consumer.  The channel knows its consumers through a WeakVector of weak *)
(* pointers; a consumer whose last shared_ptr goes away takes itself off   *)
(* that vector, in whichever thread that happens to be.                    *)
(*                                                                         *)
(* The reference counts of the shared_ptrs and the vector's mutex are      *)
(* explicit; the mutex of a ChannelSingleQueue only ever covers one step.  *)
(***************************************************************************)
EXTENDS Integers, Sequences, FiniteSets

CONSTANTS
  Threads, Consumers,
  Filtered,     \* the consumers that were created with a filter,
  Wanted,       \* which accepts messages with these numbers
  MaxMessages,  \* messages that one thread sends
  NoThread

ASSUME ChannelAssumption ==
  /\ MaxMessages \in Nat
  /\ NoThread \notin Threads
  /\ Filtered \subseteq Consumers

VARIABLES
  _lock,           \* who holds the mutex of the WeakVector
  _collection,     \* its containers, by consumer
  collection_ptr,  \* the consumers whose container still points back
  owners,          \* of each consumer, the threads with a shared_ptr to it
  _queue,          \* the messages in the queue of each consumer
  got,             \* everything that was ever put there (history)
  sent,            \* how many messages each thread has sent
  pc               \* what each thread is doing to the channel

channel_vars == <<_lock, _collection, collection_ptr, owners, _queue, got, sent, pc>>

(* at: "idle"; "send", walking over the consumers in `todo` while holding  *)
(* a shared_ptr to those in `held`; "remove", about to take `todo` off the *)
(* vector; "crashed", having followed a null pointer; "stuck", having      *)
(* locked a mutex that the thread itself holds.                            *)
Idle == [at |-> "idle", todo |-> <<>>, held |-> {}]

AnyMessage == [from : Threads, n : 1..MaxMessages]
Message(t) == [from |-> t, n |-> sent[t]]

ChannelInit ==
  /\ _lock = NoThread
  /\ _collection = <<>>
  /\ collection_ptr = {}
  /\ owners = [c \in Consumers |-> {}]
  /\ _queue = [c \in Consumers |-> <<>>]
  /\ got = [c \in Consumers |-> <<>>]
  /\ sent = [t \in Threads |-> 0]
  /\ pc = [t \in Threads |-> Idle]

(* The shared_ptrs to a consumer: its owners' and the senders' copies. *)
holders(c) == owners[c] \cup {t \in Threads : c \in pc[t].held}

(***************************************************************************)
(* WeakVector::emplace                                                     *)
(***************************************************************************)
create_consumer(t, c) ==
  /\ pc[t] = Idle
  /\ _lock = NoThread
  /\ holders(c) = {} /\ c \notin collection_ptr /\ got[c] = <<>>
  /\ \A i \in DOMAIN _collection : _collection[i] # c
  /\ owners' = [owners EXCEPT ![c] = {t}]
  /\ collection_ptr' = collection_ptr \cup {c}
  /\ _collection' = Append(_collection, c)
  /\ UNCHANGED <<_lock, _queue, got, sent, pc>>

(* Thread u copies a shared_ptr that t has. *)
share(t, u, c) ==
  /\ pc[u] = Idle
  /\ t \in owners[c] /\ u \notin owners[c]
  /\ owners' = [owners EXCEPT ![c] = @ \cup {u}]
  /\ UNCHANGED <<_lock, _collection, collection_ptr, _queue, got, sent, pc>>

(***************************************************************************)
(* The last shared_ptr is gone: the deleter disassociates the container,   *)
(* which takes itself off the vector if it still points back to it.        *)
(***************************************************************************)
release_uncounted(t, c) ==
  /\ pc[t] = Idle
  /\ t \in owners[c]
  /\ owners' = [owners EXCEPT ![c] = @ \ {t}]
  /\ IF c \in collection_ptr
     THEN /\ collection_ptr' = collection_ptr \ {c}
          /\ pc' = [pc EXCEPT ![t] = [at |-> "remove", todo |-> <<c>>, held |-> {}]]
     ELSE UNCHANGED <<collection_ptr, pc>>
  /\ UNCHANGED <<_lock, _collection, _queue, got, sent>>

release(t, c) ==
  /\ pc[t] = Idle
  /\ t \in owners[c]
  /\ owners' = [owners EXCEPT ![c] = @ \ {t}]
  /\ IF holders(c) = {t} /\ c \in collection_ptr
     THEN /\ collection_ptr' = collection_ptr \ {c}
          /\ pc' = [pc EXCEPT ![t] = [at |-> "remove", todo |-> <<c>>, held |-> {}]]
     ELSE UNCHANGED <<collection_ptr, pc>>
  /\ UNCHANGED <<_lock, _collection, _queue, got, sent>>

(* find_if and erase: the first container of c, if there is one. *)
erased(s, c) ==
  LET found == {i \in DOMAIN s : s[i] = c /\ \A j \in 1..i-1 : s[j] # c}
  IN  IF found = {} THEN {s}
      ELSE { SubSeq(s, 1, i - 1) \o SubSeq(s, i + 1, Len(s)) : i \in found }

remove_unlocked(t) ==
  /\ pc[t].at = "remove"
  /\ _collection' \in erased(_collection, pc[t].todo[1])
  /\ pc' = [pc EXCEPT ![t] = Idle]
  /\ UNCHANGED <<_lock, collection_ptr, owners, _queue, got, sent>>

remove(t) ==
  /\ pc[t].at = "remove"
  /\ _lock = NoThread
  /\ _collection' \in erased(_collection, pc[t].todo[1])
  /\ pc' = [pc EXCEPT ![t] = Idle]
  /\ UNCHANGED <<_lock, collection_ptr, owners, _queue, got, sent>>

(***************************************************************************)
(* ChannelMultiQueue::send                                                 *)
(***************************************************************************)
send(t) ==
  /\ pc[t] = Idle
  /\ _lock = NoThread
  /\ sent[t] < MaxMessages
  /\ _lock' = t
  /\ sent' = [sent EXCEPT ![t] = @ + 1]
  /\ pc' = [pc EXCEPT ![t] = [at |-> "send", todo |-> _collection, held |-> {}]]
  /\ UNCHANGED <<_collection, collection_ptr, owners, _queue, got>>

(* The weak pointer of the next consumer gives a null pointer if nobody    *)
(* holds the consumer any more.                                            *)
send_next(t) ==
  /\ pc[t].at = "send" /\ pc[t].held = {} /\ pc[t].todo # <<>>
  /\ pc' = [pc EXCEPT ![t] = IF holders(Head(@.todo)) = {}
                             THEN [at |-> "crashed", todo |-> <<>>, held |-> {}]
                             ELSE [@ EXCEPT !.held = {Head(pc[t].todo)}]]
  /\ UNCHANGED <<_lock, _collection, collection_ptr, owners, _queue, got, sent>>

is_rejected(c, m) == c \in Filtered /\ m.n \notin Wanted

(* ChannelSingleQueue::send, after which the copy of the shared_ptr goes;  *)
(* if it was the last one, the deleter wants the mutex of this very loop.  *)
after_push_stops(t, c) ==
  [at |-> "send", todo |-> IF is_rejected(c, Message(t)) THEN <<>> ELSE Tail(pc[t].todo),
   held |-> {}]

after_push(t, c) ==
  IF holders(c) = {t} /\ t \notin owners[c] /\ c \in collection_ptr
  THEN [at |-> "stuck", todo |-> <<>>, held |-> {}]
  ELSE [at |-> "send", todo |-> Tail(pc[t].todo), held |-> {}]

queue_send(t) ==
  /\ pc[t].at = "send"
  /\ \E c \in pc[t].held :
       /\ IF is_rejected(c, Message(t)) THEN UNCHANGED <<_queue, got>>
          ELSE /\ _queue' = [_queue EXCEPT ![c] = Append(@, Message(t))]
               /\ got' = [got EXCEPT ![c] = Append(@, Message(t))]
       /\ pc' = [pc EXCEPT ![t] = after_push(t, c)]
  /\ UNCHANGED <<_lock, _collection, collection_ptr, owners, sent>>

send_returns(t) ==
  /\ pc[t].at = "send" /\ pc[t].held = {} /\ pc[t].todo = <<>>
  /\ _lock' = NoThread
  /\ pc' = [pc EXCEPT ![t] = Idle]
  /\ UNCHANGED <<_collection, collection_ptr, owners, _queue, got, sent>>

(***************************************************************************)
(* ChannelSingleQueue::receive                                             *)
(***************************************************************************)
receive(t, c) ==
  /\ pc[t] = Idle
  /\ t \in owners[c]
  /\ _queue[c] # <<>>
  /\ _queue' = [_queue EXCEPT ![c] = Tail(@)]
  /\ UNCHANGED <<_lock, _collection, collection_ptr, owners, got, sent, pc>>

(* The channel is destroyed: the containers no longer point back to it.    *)
remove_all(t) ==
  /\ pc[t] = Idle
  /\ _lock = NoThread
  /\ collection_ptr # {}
  /\ collection_ptr' = {}
  /\ UNCHANGED <<_lock, _collection, owners, _queue, got, sent, pc>>

sending(t) == send_next(t) \/ queue_send(t) \/ send_returns(t)

ChannelNext == \E t \in Threads :
  \/ send(t) \/ sending(t) \/ remove(t) \/ remove_all(t)
  \/ \E c \in Consumers : \/ create_consumer(t, c) \/ release(t, c) \/ receive(t, c)
                          \/ \E u \in Threads : share(t, u, c)

ChannelSpec == ChannelInit /\ [][ChannelNext]_channel_vars

-----------------------------------------------------------------------------
(***************************************************************************)
(* Properties                                                              *)
(***************************************************************************)
(* The state of the channel and of the threads that use it; the mutex is   *)
(* held by the thread that is in send(), for good if it never gets out.    *)
ChannelTypeOK ==
  /\ _lock \in Threads \cup {NoThread}
  /\ _collection \in Seq(Consumers)
  /\ collection_ptr \subseteq Consumers
  /\ owners \in [Consumers -> SUBSET Threads]
  /\ _queue \in [Consumers -> Seq(AnyMessage)]
  /\ got \in [Consumers -> Seq(AnyMessage)]
  /\ sent \in [Threads -> 0..MaxMessages]
  /\ pc \in [Threads -> [at   : {"idle", "send", "remove", "crashed", "stuck"},
                         todo : Seq(Consumers),
                         held : SUBSET Consumers]]
  /\ \A t \in Threads : (_lock = t) <=> (pc[t].at \in {"send", "crashed", "stuck"})

(* The mutex is where it belongs, and the iterators of send() stay valid:  *)
(* nobody else changes the vector while a thread walks over it.            *)
WalkIsStable ==
  /\ ChannelTypeOK
  /\ \A t \in Threads : pc[t].at = "send" =>
    \E k \in 0..Len(_collection) : pc[t].todo = SubSeq(_collection, k + 1, Len(_collection))

(* A consumer is not destroyed while its queue is being used: a thread     *)
(* that puts a message into it holds a shared_ptr, and while anybody does, *)
(* the consumer has not begun to take itself off the vector.               *)
UsedConsumerLives ==
  \A c \in Consumers, t \in Threads :
    pc[t].at = "remove" /\ pc[t].todo = <<c>> => holders(c) = {}

(* What is still in a consumer's queue is the last of what it got. *)
QueuedIsLast(c) == \E k \in 0..Len(got[c]) : _queue[c] = SubSeq(got[c], k + 1, Len(got[c]))

(* What a consumer got from one sender is in order, and what is missing    *)
(* between two of its messages was rejected by the consumer's filter.      *)
InOrder(c, t) ==
  \A i, j \in DOMAIN got[c] :
    i < j /\ got[c][i].from = t /\ got[c][j].from = t =>
      /\ got[c][i].n < got[c][j].n
      /\ \A n \in got[c][i].n + 1 .. got[c][j].n - 1 :
           \/ is_rejected(c, [from |-> t, n |-> n])
           \/ \E k \in i+1 .. j-1 : got[c][k] = [from |-> t, n |-> n]

(* What a consumer that is filtered or not gets from one sender is in      *)
(* order, without gaps and without duplicates: no message is skipped       *)
(* between two that arrive, however the sends of several threads and the   *)
(* comings and goings of other consumers interleave; and what is still     *)
(* queued is the last of it.                                               *)
NoGapsNoDuplicates ==
  \A c \in Consumers : QueuedIsLast(c) /\ \A t \in Threads : InOrder(c, t)

(* Who has taken itself off the vector is gone for good.  A consumer that  *)
(* is still on it has got everything since its first message from a        *)
(* thread, but for the message that is just being sent; and before that    *)
(* one reaches it, it has not got it.                                      *)
Attached(c) == \E i \in DOMAIN _collection : _collection[i] = c
Awaits(c, t) == pc[t].at = "send" /\ \E i \in DOMAIN pc[t].todo : pc[t].todo[i] = c

UpToDate(c, t) ==
  \A i \in DOMAIN got[c] : got[c][i].from = t =>
    /\ got[c][i].n <= sent[t]
    /\ Awaits(c, t) => got[c][i].n < sent[t]
    /\ Attached(c) => \A n \in got[c][i].n + 1 .. sent[t] :
         \/ is_rejected(c, [from |-> t, n |-> n])
         \/ \E k \in DOMAIN got[c] : k > i /\ got[c][k] = [from |-> t, n |-> n]
         \/ n = sent[t] /\ (Awaits(c, t) \/ pc[t].at \in {"crashed", "stuck"})

KeepsUp == \A c \in Consumers, t \in Threads : UpToDate(c, t)

(* No consumer is on the vector twice. *)
OnceOnly ==
  \A i \in DOMAIN _collection, j \in DOMAIN _collection :
    _collection[i] = _collection[j] => i = j

(* Who may still take itself off the vector, or is about to, is on it; and *)
(* at most one thread is about to.                                         *)
Departures ==
  /\ \A c \in collection_ptr : Attached(c)
  /\ \A t \in Threads : pc[t].at = "remove" =>
       \E c \in Consumers : pc[t].todo = <<c>> /\ Attached(c) /\ c \notin collection_ptr
  /\ \A t, u \in Threads :
       pc[t].at = "remove" /\ pc[u].at = "remove" /\ pc[t].todo = pc[u].todo => t = u

(* A copy of a shared_ptr is held for the consumer that is next. *)
Walkers ==
  \A t \in Threads :
    /\ pc[t].at = "send" => sent[t] > 0
    /\ pc[t].held # {} =>
         pc[t].at = "send" /\ pc[t].todo # <<>> /\ pc[t].held = {Head(pc[t].todo)}

(* The inductive strengthening of the three invariants. *)
ChannelInvariant ==
  /\ WalkIsStable
  /\ UsedConsumerLives
  /\ NoGapsNoDuplicates
  /\ KeepsUp
  /\ OnceOnly
  /\ Departures
  /\ Walkers

(* What ChannelMultiQueue.hpp says: all methods are thread-safe.  Sending  *)
(* while another thread lets go of a consumer neither crashes nor blocks.  *)
ThreadSafe == \A t \in Threads : pc[t].at \notin {"crashed", "stuck"}
=============================================================================
