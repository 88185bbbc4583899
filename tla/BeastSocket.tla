---------------------------- MODULE BeastSocket ----------------------------
(***************************************************************************)
(* The websocket connection of one client (module/networking_websocket,    *)
(* class BeastSocket).  Any thread may call send() and close(); the        *)
(* completion handlers of the asynchronous operations run on the strand    *)
(* the listener accepted the connection on (BeastSocketListener.cpp), one  *)
(* at a time but concurrently with the other threads.  A step is what a    *)
(* thread does between two points where another thread can be noticed: a   *)
(* critical section of _write_lock, an atomic exchange, or a use of        *)
(* _connection.                                                            *)
(*                                                                         *)
(* The n-th message pushed on the queue is represented by the number n.    *)
(***************************************************************************)
EXTENDS Integers, Sequences

CONSTANTS
    Sender,         \* the threads, other than the strand, that use the socket
    Strand,         \* the strand of the connection
    MaxSends,       \* bound: how many messages are sent
    WeakExchange    \* TRUE: compare_exchange_weak may fail spuriously

ASSUME SocketConstants ==
    /\ Strand \notin Sender
    /\ MaxSends \in Nat
    /\ WeakExchange \in BOOLEAN

VARIABLES
    write_queue,    \* _write_queue
    write_buffer,   \* the message in _write_buffer, 0 before the first
    write_finished, \* _write_finished
    connected,      \* _connected
    connection,     \* _connection # nullptr
    writing,        \* the number of async_write operations in progress
    reading,        \* an async_read is in progress
    closing,        \* an async_close is in progress
    pc,             \* where each thread is
    pushed,         \* how many messages have been pushed on the queue
    wire,           \* the messages whose async_write completed
    on_close,       \* how often the on_close signal was emitted
    fault           \* the undefined behaviour that was executed, if any

vars == <<write_queue, write_buffer, write_finished, connected, connection, writing,
          reading, closing, pc, pushed, wire, on_close, fault>>

Thread == Sender \cup {Strand}

\* "idle" is outside of the class's methods.
Place == {"idle", "exchange", "_do_async_write", "async_write", "_do_async_read",
          "async_close", "reset"}

\* A socket as the listener hands it out: internal_start_reading() was called.
Init ==
    /\ write_queue = <<>>
    /\ write_buffer = 0
    /\ write_finished = TRUE
    /\ connected = TRUE
    /\ connection = TRUE
    /\ writing = 0
    /\ reading = TRUE
    /\ closing = FALSE
    /\ pc = [t \in Thread |-> "idle"]
    /\ pushed = 0
    /\ wire = <<>>
    /\ on_close = 0
    /\ fault = "none"

At(t, place) == fault = "none" /\ pc[t] = place
Goto(t, place) == pc' = [pc EXCEPT ![t] = place]

-----------------------------------------------------------------------------
(* Sending. *)

\* The critical section of send().
send(t) ==
    /\ At(t, "idle")
    /\ pushed < MaxSends
    /\ pushed' = pushed + 1
    /\ write_queue' = Append(write_queue, pushed + 1)
    /\ Goto(t, "exchange")
    /\ UNCHANGED <<write_buffer, write_finished, connected, connection, writing, reading,
                   closing, wire, on_close, fault>>

\* Mutant: _write_finished is stored to without being tested.
ExchangeFinished_untested(t) ==
    /\ At(t, "exchange")
    /\ write_finished' = FALSE
    /\ Goto(t, "_do_async_write")
    /\ UNCHANGED <<write_queue, write_buffer, connected, connection, writing, reading,
                   closing, pushed, wire, on_close, fault>>

\* The compare_exchange_weak of send().
ExchangeFinished(t) ==
    /\ At(t, "exchange")
    /\ \/ /\ write_finished
          /\ write_finished' = FALSE
          /\ Goto(t, "_do_async_write")
       \/ /\ ~write_finished \/ WeakExchange
          /\ Goto(t, "idle")
          /\ UNCHANGED write_finished
    /\ UNCHANGED <<write_queue, write_buffer, connected, connection, writing, reading,
                   closing, pushed, wire, on_close, fault>>

\* Mutant: pop() is forgotten.
FillBuffer_without_pop(t) ==
    /\ At(t, "_do_async_write")
    /\ write_queue # <<>>
    /\ write_buffer' = Head(write_queue)
    /\ Goto(t, "async_write")
    /\ UNCHANGED <<write_queue, write_finished, connected, connection, writing, reading,
                   closing, pushed, wire, on_close, fault>>

\* The critical section of _do_async_write(): front() and pop().
FillBuffer(t) ==
    /\ At(t, "_do_async_write")
    /\ \/ /\ write_queue # <<>>
          /\ write_buffer' = Head(write_queue)
          /\ write_queue' = Tail(write_queue)
          /\ Goto(t, "async_write")
          /\ UNCHANGED fault
       \/ /\ write_queue = <<>>
          /\ fault' = "empty_queue"
          /\ UNCHANGED <<write_buffer, write_queue, pc>>
    /\ UNCHANGED <<write_finished, connected, connection, writing, reading, closing,
                   pushed, wire, on_close>>

\* The rest of _do_async_write().
async_write(t) ==
    /\ At(t, "async_write")
    /\ \/ /\ connection
          /\ writing' = writing + 1
          /\ Goto(t, "idle")
          /\ UNCHANGED fault
       \/ /\ ~connection
          /\ fault' = "null_connection"
          /\ UNCHANGED <<writing, pc>>
    /\ UNCHANGED <<write_queue, write_buffer, write_finished, connected, connection,
                   reading, closing, pushed, wire, on_close>>

-----------------------------------------------------------------------------
(* Completion handlers, on the strand. *)

\* Mutant: an error leaves the socket marked as connected.
_handle_error_still_connected == on_close' = on_close + 1 /\ UNCHANGED connected

\* Mutant: an error is not signalled.
_handle_error_quiet == connected' = FALSE /\ UNCHANGED on_close

_handle_error ==
    /\ connected' = FALSE
    /\ on_close' = on_close + 1

\* Mutant: _write_finished is not set when the queue has run dry.
_on_async_write_never_finished ==
    /\ At(Strand, "idle")
    /\ writing > 0
    /\ writing' = writing - 1
    /\ wire' = Append(wire, write_buffer)
    /\ IF write_queue = <<>> THEN UNCHANGED pc ELSE Goto(Strand, "_do_async_write")
    /\ UNCHANGED <<write_queue, write_buffer, write_finished, connected, connection, reading,
                   closing, pushed, on_close, fault>>

_on_async_write ==
    /\ At(Strand, "idle")
    /\ writing > 0
    /\ writing' = writing - 1
    /\ \/ /\ _handle_error
          /\ UNCHANGED <<wire, write_finished, pc>>
       \/ /\ wire' = Append(wire, write_buffer)
          /\ IF write_queue = <<>>
             THEN write_finished' = TRUE /\ UNCHANGED pc
             ELSE Goto(Strand, "_do_async_write") /\ UNCHANGED write_finished
          /\ UNCHANGED <<connected, on_close>>
    /\ UNCHANGED <<write_queue, write_buffer, connection, reading, closing, pushed, fault>>

_on_async_read ==
    /\ At(Strand, "idle")
    /\ reading
    /\ reading' = FALSE
    /\ \/ /\ _handle_error
          /\ UNCHANGED pc
       \/ /\ Goto(Strand, "_do_async_read")
          /\ UNCHANGED <<connected, on_close>>
    /\ UNCHANGED <<write_queue, write_buffer, write_finished, connection, writing, closing,
                   pushed, wire, fault>>

\* _do_async_read() of the next packet, and the emission of on_data, whose
\* listeners do nothing to the socket but may send().
_do_async_read ==
    /\ At(Strand, "_do_async_read")
    /\ \/ /\ connection
          /\ reading' = TRUE
          /\ Goto(Strand, "idle")
          /\ UNCHANGED fault
       \/ /\ ~connection
          /\ fault' = "null_connection"
          /\ UNCHANGED <<reading, pc>>
    /\ UNCHANGED <<write_queue, write_buffer, write_finished, connected, connection,
                   writing, closing, pushed, wire, on_close>>

\* With an error, _handle_error assigns _connected, which close() has cleared.
_on_async_close ==
    /\ At(Strand, "idle")
    /\ closing
    /\ closing' = FALSE
    /\ on_close' = on_close + 1
    /\ UNCHANGED <<write_queue, write_buffer, write_finished, connected, connection,
                   writing, reading, pc, pushed, wire, fault>>

-----------------------------------------------------------------------------
(* Closing. *)

\* The exchange of close(); a second close() does nothing.
close(t) ==
    /\ At(t, "idle")
    /\ connected
    /\ connected' = FALSE
    /\ Goto(t, "async_close")
    /\ UNCHANGED <<write_queue, write_buffer, write_finished, connection, writing, reading,
                   closing, pushed, wire, on_close, fault>>

async_close(t) ==
    /\ At(t, "async_close")
    /\ closing' = TRUE
    /\ Goto(t, "reset")
    /\ UNCHANGED <<write_queue, write_buffer, write_finished, connected, connection,
                   writing, reading, pushed, wire, on_close, fault>>

\* _connection = nullptr
ResetConnection(t) ==
    /\ At(t, "reset")
    /\ connection' = FALSE
    /\ Goto(t, "idle")
    /\ UNCHANGED <<write_queue, write_buffer, write_finished, connected, writing, reading,
                   closing, pushed, wire, on_close, fault>>

-----------------------------------------------------------------------------

\* What a thread does once it is inside a method.
Proceed(t) ==
    \/ ExchangeFinished(t)
    \/ FillBuffer(t)
    \/ async_write(t)
    \/ async_close(t)
    \/ ResetConnection(t)

Next ==
    \/ \E t \in Thread : send(t) \/ close(t) \/ Proceed(t)
    \/ _on_async_write
    \/ _on_async_read
    \/ _do_async_read
    \/ _on_async_close

Spec == Init /\ [][Next]_vars

\* Threads that are inside a method get scheduled, and the library completes
\* every write and every close it was asked for (the listener sets timeouts on
\* the stream).  Nothing makes anybody send or close, or the peer talk.  The
\* strand alternates between its handlers, which asks for strong fairness: a
\* queued handler is not passed over for ever by others.
Fairness ==
    /\ \A t \in Thread : WF_vars(Proceed(t))
    /\ WF_vars(_do_async_read)
    /\ SF_vars(_on_async_write)
    /\ SF_vars(_on_async_close)

FairSpec == Spec /\ Fairness

-----------------------------------------------------------------------------
(* Properties. *)

TypeOK ==
    /\ write_queue \in Seq(Nat)
    /\ write_buffer \in Nat
    /\ write_finished \in BOOLEAN
    /\ connected \in BOOLEAN
    /\ connection \in BOOLEAN
    /\ writing \in Nat
    /\ reading \in BOOLEAN
    /\ closing \in BOOLEAN
    /\ pc \in [Thread -> Place]
    /\ pushed \in Nat
    /\ wire \in Seq(Nat)
    /\ on_close \in Nat
    /\ fault \in {"none", "empty_queue", "null_connection"}

\* The threads that own the write side of the socket.
Writers == {t \in Thread : pc[t] \in {"_do_async_write", "async_write"}}

\* `_write_finished` works as a lock: however sends and completions interleave,
\* one thread at a time fills `_write_buffer`, never while a write out of that
\* buffer is in progress, and no two writes are in progress at once.
SingleWriter ==
    /\ \A t, u \in Writers : t = u
    /\ writing > 0 => Writers = {}
    /\ writing <= 1
    /\ write_finished => Writers = {} /\ writing = 0

\* Messages are on the wire in the order they were queued, none twice and none
\* skipped, across any number of sending threads.
WrittenInOrder == \A i \in 1 .. Len(wire) : wire[i] = i

\* Whatever threads, strand and handlers do between them, all that can be seen
\* from outside is a pipe: nothing is written that was not sent before, nothing
\* twice, nothing out of turn, and what was written stays written.
Outside == INSTANCE Pipe WITH sent <- pushed, delivered <- wire
ImplementsPipe == Outside!PipeSpec

\* The buffer holds a message that is popped and not yet written.
InTransit == writing > 0 \/ \E t \in Thread : pc[t] = "async_write"

\* While the connection is up, a message that was sent is written, is the one in
\* the buffer, or is still queued.
NothingLost ==
    connected =>
        pushed = Len(wire) + Len(write_queue) + (IF InTransit THEN 1 ELSE 0)

\* The next message to write is at the front of the queue.
AtRest == write_finished \/ \E t \in Thread : pc[t] = "_do_async_write"

\* The inductive strengthening of the invariants above: the queue holds the
\* last messages pushed, the buffer the one before them, and only a connection
\* that went down is without an owner of its write side.
SocketInvariant ==
    /\ TypeOK
    /\ SingleWriter
    /\ WrittenInOrder
    /\ \A i \in 1 .. Len(write_queue) : write_queue[i] = pushed - Len(write_queue) + i
    /\ AtRest => pushed = Len(wire) + Len(write_queue)
    /\ InTransit => /\ pushed = Len(wire) + Len(write_queue) + 1
                    /\ write_buffer = Len(wire) + 1
    /\ connected => AtRest \/ InTransit

\* Socket.hpp, send(): "Sends data across the socket."  A queued message is
\* written at some point, unless the connection goes down: no wake-up is lost
\* between the exchange in send() and the check in _on_async_write().
EventuallyWritten ==
    \A n \in 1 .. MaxSends :
        pushed >= n ~> (Len(wire) >= n \/ ~connected \/ fault # "none")

\* Socket.hpp, on_close: "A signal for when the socket is closed."  However a
\* socket stops being connected, its on_close signal follows.
CloseIsSignalled == ~connected ~> (on_close > 0 \/ fault # "none")
=============================================================================
