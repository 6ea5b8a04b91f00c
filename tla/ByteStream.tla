----------------------------- MODULE ByteStream -----------------------------
(* What one player's ring buffer promises to the two threads that share it:  *)
(* a bounded FIFO of bytes.  Bytes are named by their position in the stream *)
(* of everything the ring accepted, so `heard' says exactly which audio the  *)
(* mixer was given last.  A flush throws away what was accepted and not yet  *)
(* heard.                                                                    *)
EXTENDS Integers

CONSTANT Capacity       \* bytes the stream may hold accepted and unheard

VARIABLES sent,         \* bytes accepted from Enqueue since the start
          recvd,        \* bytes heard or discarded since the start
          heard         \* the chunk handed to the mixer last

Init == sent = 0 /\ recvd = 0 /\ heard = << >>

\* Enqueue: n more bytes are accepted, never more than there is room for.
Accept ==
  \E n \in 1 .. Capacity - (sent - recvd) :
    /\ sent' = sent + n
    /\ UNCHANGED <<recvd, heard>>

\* The mixer is given the next n bytes: the oldest ones, in order, once.
Deliver ==
  \E n \in 1 .. sent - recvd :
    /\ heard' = [i \in 1 .. n |-> recvd + i - 1]
    /\ recvd' = recvd + n
    /\ UNCHANGED sent

\* Stop or Clear: everything that waits is dropped.
Discard == recvd' = sent /\ UNCHANGED <<sent, heard>>

Next == Accept \/ Deliver \/ Discard

Spec == Init /\ [][Next]_<<sent, recvd, heard>>
=============================================================================
