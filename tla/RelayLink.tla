------------------------------ MODULE RelayLink ------------------------------
(***************************************************************************)
(* What the relay between two devices promises to its users, with no       *)
(* credits, queues, timers or power modes: within a session the messages   *)
(* accepted by the sender come out at the receiver in order and at most    *)
(* once; a message is lost only when a side closes the session, which      *)
(* costs a suffix, or when its sequence number, counted modulo Width, is   *)
(* again the one received last.  RemoteRelay implements it.                *)
(***************************************************************************)
EXTENDS Naturals, Sequences

CONSTANTS Width,    \* number of sequence numbers
          Numbers   \* the messages of a session, by number

VARIABLES open,   \* the sender may hand over messages
          pipe,   \* numbers of the messages under way, oldest first
          last    \* number of the message received last in the session, or 0

vars == <<open, pipe, last>>

Init == open = FALSE /\ pipe = <<>> /\ last = 0

Open ==
    /\ ~open /\ pipe = <<>> /\ last = 0
    /\ open' = TRUE
    /\ UNCHANGED <<pipe, last>>

\* Some numbers are skipped: those of the messages that were not accepted.
Accept ==
    /\ open
    /\ \E n \in Numbers :
          /\ n > last /\ \A k \in DOMAIN pipe : n > pipe[k]
          /\ pipe' = Append(pipe, n)
    /\ UNCHANGED <<open, last>>

Duplicate == Head(pipe) % Width = last % Width

Deliver ==
    /\ pipe # <<>> /\ ~Duplicate
    /\ last' = Head(pipe)
    /\ pipe' = Tail(pipe)
    /\ UNCHANGED open

\* Width - 1 messages or more were refused since the one received last.
Mistake ==
    /\ pipe # <<>> /\ Duplicate
    /\ pipe' = Tail(pipe)
    /\ UNCHANGED <<open, last>>

\* The sender closes: what it still holds is lost, what it sent is not yet.
SenderClose ==
    /\ open
    /\ open' = FALSE
    /\ \E k \in 0 .. Len(pipe) : pipe' = SubSeq(pipe, 1, k)
    /\ UNCHANGED last

ReceiverClose == open' = FALSE /\ pipe' = <<>> /\ last' = 0

Next == \/ Open \/ Accept \/ Deliver \/ Mistake \/ SenderClose \/ ReceiverClose

Spec == Init /\ [][Next]_vars
=============================================================================
