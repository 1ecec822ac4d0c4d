------------------------------ MODULE Mailbox ------------------------------
(***************************************************************************)
(* What src/src/net/JobResults.cpp promises to the workers and to the      *)
(* network: a first-in first-out mailbox with many senders.  Closing it    *)
(* loses what was not delivered.                                           *)
(***************************************************************************)
EXTENDS Sequences

CONSTANT Shares

VARIABLES
    box,         \* shares submitted and not yet delivered
    delivered    \* shares handed to the listener, in order

vars == <<box, delivered>>

Init == box = <<>> /\ delivered = <<>>

Post(m) ==
    /\ box' = box \o <<m>>
    /\ UNCHANGED delivered

Deliver ==
    /\ box # <<>>
    /\ delivered' = delivered \o <<Head(box)>>
    /\ box' = Tail(box)

Close ==
    /\ box' = <<>>
    /\ UNCHANGED delivered

Next == (\E m \in Shares : Post(m)) \/ Deliver \/ Close

Spec == Init /\ [][Next]_vars
=============================================================================
