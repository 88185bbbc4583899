-------------------------------- MODULE Pipe --------------------------------
(***************************************************************************)
(* What a socket promises the threads that send on it (Socket.hpp, send(): *)
(* "Sends data across the socket"): a message that was sent may be         *)
(* delivered, after the ones sent before it, once.  The n-th message is    *)
(* represented by the number n.                                            *)
(***************************************************************************)
EXTENDS Naturals, Sequences

VARIABLES
    sent,       \* how many messages were sent
    delivered   \* the messages that were delivered

PipeInit == sent = 0 /\ delivered = <<>>

Send == sent' = sent + 1 /\ UNCHANGED delivered

Deliver ==
    /\ Len(delivered) < sent
    /\ delivered' = Append(delivered, Len(delivered) + 1)
    /\ UNCHANGED sent

PipeSpec == PipeInit /\ [][Send \/ Deliver]_<<sent, delivered>>
=============================================================================
