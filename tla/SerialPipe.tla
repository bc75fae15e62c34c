----------------------------- MODULE SerialPipe -----------------------------
(***************************************************************************)
(* What an IN data pipe promises, with no requests, lists, locks or        *)
(* callers: data waits in arrival order, one item at a time is current,    *)
(* the controller transmits exactly the current item, and an item leaves   *)
(* the current place only when the controller is done with it or never     *)
(* accepted it.  UsbPipe implements this under the mapping given there.    *)
(***************************************************************************)
EXTENDS Sequences, Naturals

CONSTANTS Data,   \* what callers can send
          NoData  \* "nothing"

VARIABLES waiting,  \* accepted, not yet current, in arrival order
          current,  \* the item being dealt with, or NoData
          phase,    \* of the current item: "none", "ready", "sending", "sent"
          wire      \* what the controller is transmitting, or NoData

vars == <<waiting, current, phase, wire>>

Init == /\ waiting = <<>>
        /\ current = NoData
        /\ phase = "none"
        /\ wire = NoData

\* A caller's data is accepted: straight to the front when the pipe is free.
Accept(d) ==
    /\ IF current = NoData /\ waiting = <<>>
       THEN current' = d /\ phase' = "ready" /\ UNCHANGED waiting
       ELSE waiting' = Append(waiting, d) /\ UNCHANGED <<current, phase>>
    /\ UNCHANGED wire

\* Congestion: the oldest waiting item gives way.
DropOldest ==
    /\ waiting # <<>>
    /\ waiting' = Tail(waiting)
    /\ UNCHANGED <<current, phase, wire>>

Promote ==
    /\ current = NoData
    /\ waiting # <<>>
    /\ current' = Head(waiting)
    /\ waiting' = Tail(waiting)
    /\ phase' = "ready"
    /\ UNCHANGED wire

Start ==
    /\ phase = "ready"
    /\ phase' = "sending"
    /\ wire' = current
    /\ UNCHANGED <<waiting, current>>

Finish ==
    /\ phase = "sending"
    /\ phase' = "sent"
    /\ wire' = NoData
    /\ UNCHANGED <<waiting, current>>

\* The transmitted item is released; a failed transfer also empties the queue.
Release ==
    /\ phase = "sent"
    /\ current' = NoData
    /\ phase' = "none"
    /\ waiting' \in {waiting, <<>>}
    /\ UNCHANGED wire

\* The controller refused the item: everything queued is given up with it.
Abandon ==
    /\ phase = "ready"
    /\ current' = NoData
    /\ phase' = "none"
    /\ waiting' = <<>>
    /\ UNCHANGED wire

Next == \/ \E d \in Data : Accept(d)
        \/ DropOldest \/ Promote \/ Start \/ Finish \/ Release \/ Abandon

Spec == Init /\ [][Next]_vars
=============================================================================
