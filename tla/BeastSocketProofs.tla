------------------------- MODULE BeastSocketProofs -------------------------
(***************************************************************************)
(* BeastSocket writes what it is given, in order and one message at a      *)
(* time, for any number of threads and messages.                           *)
(***************************************************************************)
EXTENDS BeastSocket, TLAPS

\* What the last messages in the queue look like after one more was pushed.
LEMMA PushKeepsOrder ==
    ASSUME NEW q \in Seq(Nat), NEW n \in Nat,
           \A i \in 1 .. Len(q) : q[i] = n - Len(q) + i
    PROVE  /\ Append(q, n + 1) \in Seq(Nat)
           /\ Len(Append(q, n + 1)) = Len(q) + 1
           /\ \A i \in 1 .. Len(q) + 1 : Append(q, n + 1)[i] = (n + 1) - (Len(q) + 1) + i
OBVIOUS

\* What popping the front leaves, and which message it takes.
LEMMA PopKeepsOrder ==
    ASSUME NEW q \in Seq(Nat), NEW n \in Nat, q # <<>>,
           \A i \in 1 .. Len(q) : q[i] = n - Len(q) + i
    PROVE  /\ Tail(q) \in Seq(Nat)
           /\ Len(Tail(q)) = Len(q) - 1
           /\ Head(q) \in Nat
           /\ Head(q) = n - Len(q) + 1
           /\ \A i \in 1 .. Len(Tail(q)) : Tail(q)[i] = n - Len(Tail(q)) + i
<1>1. Len(q) \in Nat /\ Len(q) > 0
  OBVIOUS
<1>2. Tail(q) \in Seq(Nat) /\ Len(Tail(q)) = Len(q) - 1
  BY <1>1
<1>3. \A i \in 1 .. Len(Tail(q)) : Tail(q)[i] = q[i + 1]
  BY <1>1
<1>4. Head(q) = q[1]
  BY <1>1
<1>. QED  BY <1>1, <1>2, <1>3, <1>4

\* A freshly accepted socket satisfies the invariant.
LEMMA InitInvariant == Init => SocketInvariant
<1> SUFFICES ASSUME Init PROVE SocketInvariant
  OBVIOUS
<1>1. TypeOK
  <2>1. write_queue \in Seq(Nat) /\ wire \in Seq(Nat)
    BY DEF Init
  <2>2. pc \in [Thread -> Place]
    BY DEF Init, Place
  <2>3. write_buffer \in Nat /\ writing \in Nat /\ pushed \in Nat /\ on_close \in Nat
    BY DEF Init
  <2>. QED  BY <2>1, <2>2, <2>3 DEF Init, TypeOK
<1>2. Writers = {} /\ ~InTransit /\ Len(wire) = 0 /\ Len(write_queue) = 0
  BY DEF Init, Writers, InTransit
<1>3. SingleWriter /\ WrittenInOrder
  BY <1>2 DEF Init, SingleWriter, WrittenInOrder
<1>4. AtRest /\ pushed = 0
  BY DEF Init, AtRest
<1>. QED  BY <1>1, <1>2, <1>3, <1>4 DEF SocketInvariant

\* Every step of every thread and of every completion handler keeps it.
LEMMA NextInvariant == SocketInvariant /\ [Next]_vars => SocketInvariant'
<1> SUFFICES ASSUME SocketInvariant, [Next]_vars
             PROVE  SocketInvariant'
  OBVIOUS
<1> USE SocketConstants
<1>0. /\ TypeOK /\ SingleWriter /\ WrittenInOrder
      /\ \A i \in 1 .. Len(write_queue) : write_queue[i] = pushed - Len(write_queue) + i
      /\ AtRest => pushed = Len(wire) + Len(write_queue)
      /\ InTransit => pushed = Len(wire) + Len(write_queue) + 1 /\ write_buffer = Len(wire) + 1
      /\ connected => AtRest \/ InTransit
      /\ Strand \in Thread
  BY DEF SocketInvariant, Thread
\* Steps that leave the write side alone keep the invariant.
<1>a. ASSUME TypeOK', connected' => connected,
             UNCHANGED <<write_queue, write_buffer, write_finished, wire, pushed, writing>>,
             \A t \in Thread : pc'[t] = pc[t]
                               \/ {pc[t], pc'[t]} \cap {"_do_async_write", "async_write"} = {}
      PROVE  SocketInvariant'
  <2>1. Writers' = Writers
    BY <1>a DEF Writers
  <2>2. (AtRest' <=> AtRest) /\ (InTransit' <=> InTransit)
    BY <1>a DEF AtRest, InTransit
  <2>3. SingleWriter' /\ WrittenInOrder'
    BY <1>0, <1>a, <2>1 DEF SingleWriter, WrittenInOrder
  <2>. QED  BY <1>0, <1>a, <2>2, <2>3 DEF SocketInvariant
<1>1. ASSUME NEW t \in Thread, send(t)
      PROVE  SocketInvariant'
  <2>1. /\ write_queue' \in Seq(Nat) /\ Len(write_queue') = Len(write_queue) + 1
        /\ pushed' = pushed + 1
        /\ \A i \in 1 .. Len(write_queue') : write_queue'[i] = pushed' - Len(write_queue') + i
    BY <1>0, <1>1, PushKeepsOrder DEF send, TypeOK
  <2>2. TypeOK'
    BY <1>0, <1>1, <2>1 DEF send, TypeOK, Goto, Place
  <2>3. Writers' = Writers /\ (AtRest' <=> AtRest) /\ (InTransit' <=> InTransit)
    BY <1>0, <1>1 DEF send, At, Goto, Writers, AtRest, InTransit, TypeOK
  <2>4. SingleWriter' /\ WrittenInOrder'
    BY <1>0, <1>1, <2>3 DEF send, SingleWriter, WrittenInOrder
  <2>5. UNCHANGED <<wire, write_buffer, connected>>
    BY <1>1 DEF send
  <2>6. Len(wire) \in Nat /\ Len(write_queue) \in Nat /\ pushed \in Nat
    BY <1>0 DEF TypeOK
  <2>7. /\ AtRest' => pushed' = Len(wire') + Len(write_queue')
        /\ InTransit' => /\ pushed' = Len(wire') + Len(write_queue') + 1
                         /\ write_buffer' = Len(wire') + 1
    <3>1. CASE ~InTransit /\ ~AtRest
      BY <2>3, <3>1
    <3>2. CASE InTransit
      <4>1. ~AtRest
        BY <1>0, <2>6, <3>2
      <4>. QED  BY <1>0, <2>1, <2>3, <2>5, <2>6, <3>2, <4>1
    <3>3. CASE AtRest
      <4>1. ~InTransit
        BY <1>0, <2>6, <3>3
      <4>. QED  BY <1>0, <2>1, <2>3, <2>5, <2>6, <3>3, <4>1
    <3>. QED  BY <3>1, <3>2, <3>3
  <2>8. connected' => AtRest' \/ InTransit'
    BY <1>0, <2>3, <2>5
  <2>. QED  BY <2>1, <2>2, <2>4, <2>7, <2>8 DEF SocketInvariant
<1>2. ASSUME NEW t \in Thread, close(t)
      PROVE  SocketInvariant'
  <2>1. TypeOK'
    BY <1>0, <1>2 DEF close, TypeOK, Goto, Place
  <2>. QED  BY <1>0, <1>2, <1>a, <2>1 DEF close, TypeOK, At, Goto
<1>3. ASSUME NEW t \in Thread, ExchangeFinished(t)
      PROVE  SocketInvariant'
  <2>1. TypeOK'
    BY <1>0, <1>3 DEF ExchangeFinished, TypeOK, Goto, Place
  <2>2. CASE write_finished' = FALSE /\ write_finished /\ pc' = [pc EXCEPT ![t] = "_do_async_write"]
    <3>1. Writers = {} /\ writing = 0 /\ ~InTransit /\ AtRest
      BY <1>0, <2>2 DEF SingleWriter, InTransit, Writers, AtRest
    <3>2. Writers' = {t} /\ ~InTransit' /\ AtRest' /\ writing' = 0
      BY <1>0, <1>3, <2>2, <3>1
      DEF ExchangeFinished, TypeOK, Writers, InTransit, AtRest
    <3>. QED
      BY <1>0, <1>3, <2>1, <2>2, <3>1, <3>2
      DEF ExchangeFinished, SocketInvariant, SingleWriter, WrittenInOrder
  <2>3. CASE UNCHANGED write_finished /\ pc' = [pc EXCEPT ![t] = "idle"]
    <3>1. Writers' = Writers /\ (InTransit' <=> InTransit) /\ (AtRest' <=> AtRest)
      BY <1>0, <1>3, <2>3
      DEF ExchangeFinished, At, TypeOK, Writers, InTransit, AtRest
    <3>. QED
      BY <1>0, <1>3, <2>1, <2>3, <3>1
      DEF ExchangeFinished, SocketInvariant, SingleWriter, WrittenInOrder
  <2>. QED  BY <1>3, <2>2, <2>3 DEF ExchangeFinished, Goto
<1>4. ASSUME NEW t \in Thread, FillBuffer(t)
      PROVE  SocketInvariant'
  <2>1. t \in Writers /\ writing = 0 /\ ~write_finished /\ AtRest /\ ~InTransit
    BY <1>0, <1>4
    DEF FillBuffer, At, SingleWriter, Writers, TypeOK, AtRest, InTransit
  <2>2. CASE write_queue = <<>>
    BY <1>0, <1>4, <2>2
    DEF FillBuffer, SocketInvariant, TypeOK, SingleWriter, WrittenInOrder, Writers, AtRest,
        InTransit
  <2>3. CASE write_queue # <<>>
    <3>1. /\ write_queue' = Tail(write_queue) /\ write_buffer' = Head(write_queue)
          /\ pc' = [pc EXCEPT ![t] = "async_write"]
          /\ UNCHANGED <<write_finished, connected, connection, writing, reading, closing,
                         pushed, wire, on_close, fault>>
      BY <1>4, <2>3 DEF FillBuffer, Goto
    <3>2. /\ write_queue' \in Seq(Nat) /\ Len(write_queue') = Len(write_queue) - 1
          /\ write_buffer' \in Nat /\ write_buffer' = pushed - Len(write_queue) + 1
          /\ \A i \in 1 .. Len(write_queue') :
               write_queue'[i] = pushed' - Len(write_queue') + i
      BY <1>0, <2>3, <3>1, PopKeepsOrder DEF TypeOK
    <3>3. TypeOK'
      BY <1>0, <3>1, <3>2 DEF TypeOK, Place
    <3>4. Writers' = Writers /\ InTransit' /\ ~AtRest'
      BY <1>0, <2>1, <3>1 DEF TypeOK, Writers, InTransit, AtRest, SingleWriter
    <3>5. SingleWriter' /\ WrittenInOrder'
      BY <1>0, <3>1, <3>4 DEF SingleWriter, WrittenInOrder
    <3>6. pushed = Len(wire) + Len(write_queue)
          /\ Len(wire) \in Nat /\ Len(write_queue) \in Nat /\ pushed \in Nat
      BY <1>0, <2>1 DEF TypeOK
    <3>. QED  BY <3>1, <3>2, <3>3, <3>4, <3>5, <3>6 DEF SocketInvariant
  <2>. QED  BY <2>2, <2>3
<1>5. ASSUME NEW t \in Thread, async_write(t)
      PROVE  SocketInvariant'
  <2>1. t \in Writers /\ writing = 0 /\ ~write_finished /\ InTransit
    BY <1>0, <1>5 DEF async_write, At, SingleWriter, Writers, TypeOK, InTransit
  <2>2. CASE ~connection
    BY <1>0, <1>5, <2>2
    DEF async_write, SocketInvariant, TypeOK, SingleWriter, WrittenInOrder, Writers, AtRest,
        InTransit
  <2>3. CASE connection
    <3>1. /\ writing' = 1 /\ pc' = [pc EXCEPT ![t] = "idle"]
          /\ UNCHANGED <<write_queue, write_buffer, write_finished, connected, connection,
                         reading, closing, pushed, wire, on_close, fault>>
      BY <1>5, <2>1, <2>3 DEF async_write, Goto
    <3>2. TypeOK'
      BY <1>0, <3>1 DEF TypeOK, Place
    <3>3. Writers' = {} /\ InTransit' /\ ~AtRest'
      BY <1>0, <2>1, <3>1 DEF TypeOK, Writers, InTransit, AtRest, SingleWriter
    <3>. QED
      BY <1>0, <2>1, <3>1, <3>2, <3>3 DEF SocketInvariant, SingleWriter, WrittenInOrder
  <2>. QED  BY <2>2, <2>3
<1>6. ASSUME NEW t \in Thread, async_close(t) \/ ResetConnection(t)
      PROVE  SocketInvariant'
  <2>1. TypeOK'
    BY <1>0, <1>6 DEF async_close, ResetConnection, TypeOK, Goto, Place
  <2>. QED  BY <1>0, <1>6, <1>a, <2>1 DEF async_close, ResetConnection, TypeOK, At, Goto
<1>7. CASE _on_async_write
  <2>1. /\ writing = 1 /\ Writers = {} /\ ~write_finished /\ InTransit
        /\ writing' = 0
        /\ UNCHANGED <<write_queue, write_buffer, connection, reading, closing, pushed, fault>>
    BY <1>0, <1>7 DEF _on_async_write, SingleWriter, TypeOK, InTransit
  <2>2. CASE _handle_error /\ UNCHANGED <<wire, write_finished, pc>>
    <3>0. on_close' \in Nat /\ writing' \in Nat
      BY <1>0, <2>1, <2>2 DEF TypeOK, _handle_error
    <3>1. TypeOK'
      BY <1>0, <2>1, <2>2, <3>0 DEF TypeOK, _handle_error
    <3>2. Writers' = {} /\ ~InTransit' /\ ~AtRest' /\ connected' = FALSE
      BY <2>1, <2>2 DEF Writers, InTransit, AtRest, _handle_error
    <3>. QED
      BY <1>0, <2>1, <2>2, <3>1, <3>2 DEF SocketInvariant, SingleWriter, WrittenInOrder
  <2>3. CASE /\ wire' = Append(wire, write_buffer)
             /\ IF write_queue = <<>>
                THEN write_finished' = TRUE /\ UNCHANGED pc
                ELSE Goto(Strand, "_do_async_write") /\ UNCHANGED write_finished
             /\ UNCHANGED <<connected, on_close>>
    <3>1. wire \in Seq(Nat) /\ write_buffer \in Nat /\ write_buffer = Len(wire) + 1
      BY <1>0, <2>1 DEF TypeOK
    <3>2. wire' \in Seq(Nat) /\ Len(wire') = Len(wire) + 1
          /\ \A i \in 1 .. Len(wire') : wire'[i] = i
      BY <1>0, <2>3, <3>1 DEF WrittenInOrder
    <3>3. TypeOK'
      BY <1>0, <2>1, <2>3, <3>2 DEF TypeOK, Goto, Place
    <3>4. /\ ~InTransit' /\ AtRest'
          /\ write_finished' => Writers' = {}
          /\ Writers' \subseteq {Strand}
      BY <1>0, <2>1, <2>3 DEF TypeOK, Goto, Writers, InTransit, AtRest
    <3>5. pushed' = Len(wire') + Len(write_queue')
      BY <1>0, <2>1, <3>1, <3>2 DEF TypeOK
    <3>. QED
      BY <1>0, <2>1, <2>3, <3>2, <3>3, <3>4, <3>5 DEF SocketInvariant, SingleWriter, WrittenInOrder
  <2>. QED  BY <1>7, <2>2, <2>3 DEF _on_async_write
<1>8. CASE _on_async_read
  <2>0. on_close' \in Nat /\ pc' \in [Thread -> Place]
    BY <1>0, <1>8 DEF _on_async_read, _handle_error, TypeOK, Goto, Place
  <2>1. TypeOK'
    BY <1>0, <1>8, <2>0 DEF _on_async_read, _handle_error, TypeOK, Goto, Place
  <2>. QED  BY <1>0, <1>8, <1>a, <2>1 DEF _on_async_read, _handle_error, TypeOK, At, Goto
<1>9. CASE _do_async_read
  <2>1. TypeOK'
    BY <1>0, <1>9 DEF _do_async_read, TypeOK, Goto, Place
  <2>. QED  BY <1>0, <1>9, <1>a, <2>1 DEF _do_async_read, TypeOK, At, Goto
<1>10. CASE _on_async_close
  <2>0. on_close' \in Nat
    BY <1>0, <1>10 DEF _on_async_close, TypeOK
  <2>1. TypeOK'
    BY <1>0, <1>10, <2>0 DEF _on_async_close, TypeOK
  <2>. QED  BY <1>10, <1>a, <2>1 DEF _on_async_close
<1>11. CASE UNCHANGED vars
  BY <1>0, <1>11
  DEF vars, SocketInvariant, TypeOK, SingleWriter, WrittenInOrder, Writers, AtRest, InTransit
<1>. QED
  BY <1>1, <1>2, <1>3, <1>4, <1>5, <1>6, <1>7, <1>8, <1>9, <1>10, <1>11 DEF Next, Proceed

\* The inductive invariant holds of every behaviour of the socket.
THEOREM InvariantHolds == Spec => []SocketInvariant
<1>. QED  BY InitInvariant, NextInvariant, PTL DEF Spec

\* The write side of a BeastSocket is used by one thread at a time.
THEOREM WriterIsAlone == Spec => []SingleWriter
<1>1. SocketInvariant => SingleWriter
  BY DEF SocketInvariant
<1>. QED  BY <1>1, InvariantHolds, PTL

\* What _on_async_write() has seen complete is a prefix of what send() queued.
THEOREM OrderCorrect == Spec => []WrittenInOrder
<1>1. SocketInvariant => WrittenInOrder
  BY DEF SocketInvariant
<1>. QED  BY <1>1, InvariantHolds, PTL

\* A step of the socket is a step of the pipe, or nothing that it shows.
LEMMA StepOfPipe ==
    SocketInvariant /\ [Next]_vars => [Outside!Send \/ Outside!Deliver]_<<pushed, wire>>
<1> SUFFICES ASSUME SocketInvariant, [Next]_vars
             PROVE  [Outside!Send \/ Outside!Deliver]_<<pushed, wire>>
  OBVIOUS
<1>1. CASE \E t \in Thread : send(t)
  BY <1>1 DEF send, Outside!Send
<1>2. CASE _on_async_write
  <2>1. CASE UNCHANGED wire
    BY <1>2, <2>1 DEF _on_async_write
  <2>2. CASE wire' = Append(wire, write_buffer)
    <3>1. InTransit
      BY <1>2 DEF _on_async_write, InTransit
    <3>2. /\ pushed = Len(wire) + Len(write_queue) + 1 /\ write_buffer = Len(wire) + 1
          /\ Len(wire) \in Nat /\ Len(write_queue) \in Nat
      BY <3>1 DEF SocketInvariant, TypeOK
    <3>3. Len(wire) < pushed
      BY <3>2
    <3>. QED  BY <1>2, <2>2, <3>2, <3>3 DEF _on_async_write, Outside!Deliver
  <2>. QED  BY <1>2, <2>1, <2>2 DEF _on_async_write
<1>3. CASE \E t \in Thread : close(t) \/ Proceed(t)
  BY <1>3 DEF close, Proceed, ExchangeFinished, FillBuffer, async_write, async_close,
              ResetConnection
<1>4. CASE _on_async_read \/ _do_async_read \/ _on_async_close
  BY <1>4 DEF _on_async_read, _do_async_read, _on_async_close
<1>5. CASE UNCHANGED vars
  BY <1>5 DEF vars
<1>. QED  BY <1>1, <1>2, <1>3, <1>4, <1>5 DEF Next

\* A BeastSocket is a pipe for the threads that send on it.
THEOREM SocketIsPipe == Spec => ImplementsPipe
<1>1. Init => Outside!PipeInit
  BY DEF Init, Outside!PipeInit
<1>. QED  BY <1>1, StepOfPipe, InvariantHolds, PTL DEF Spec, ImplementsPipe, Outside!PipeSpec

\* send() loses no message as long as the connection is up.
THEOREM NothingIsLost == Spec => []NothingLost
<1>1. SocketInvariant => NothingLost
  <2> SUFFICES ASSUME SocketInvariant, connected
               PROVE  pushed = Len(wire) + Len(write_queue) + (IF InTransit THEN 1 ELSE 0)
    BY DEF NothingLost
  <2>1. Len(wire) \in Nat /\ Len(write_queue) \in Nat
    BY DEF SocketInvariant, TypeOK
  <2>2. CASE InTransit
    BY <2>2 DEF SocketInvariant
  <2>3. CASE ~InTransit
    BY <2>1, <2>3 DEF SocketInvariant
  <2>. QED  BY <2>2, <2>3
<1>. QED  BY <1>1, InvariantHolds, PTL
=============================================================================
