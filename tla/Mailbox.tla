------------------------------ MODULE Mailbox ------------------------------
(***************************************************************************)
(* What a durable inbox promises its host: a message identifier names one  *)
(* envelope for ever, nothing received is ever lost or altered, every      *)
(* identity is the one the inbox was first bound to, the position in the   *)
(* stream only moves forward, and only received messages are confirmed,    *)
(* for good.                                                               *)
(***************************************************************************)
EXTENDS Naturals

CONSTANTS Messages, MessageId(_), NoOwner, Owners

VARIABLES
    owner,      \* the binding of the inbox
    received,   \* the set of envelopes taken in
    confirmed,  \* the identifiers the host has confirmed
    position    \* how much of the stream has been taken in

vars == <<owner, received, confirmed, position>>

Init == owner = NoOwner /\ received = {} /\ confirmed = {} /\ position = 0

Bind ==
    /\ owner = NoOwner
    /\ owner' \in Owners
    /\ UNCHANGED <<received, confirmed, position>>

\* One entry of the stream: a new message, one already received, or nothing of
\* concern to this inbox.  The position moves with it.
Receive ==
    /\ owner # NoOwner
    /\ position' > position
    /\ \/ received' = received
       \/ \E m \in Messages:
            /\ \A n \in received: MessageId(n) # MessageId(m)
            /\ received' = received \union {m}
    /\ UNCHANGED <<owner, confirmed>>

Confirm ==
    /\ \E m \in received: confirmed' = confirmed \union {MessageId(m)}
    /\ UNCHANGED <<owner, received, position>>

Next == Bind \/ Receive \/ Confirm

Spec == Init /\ [][Next]_vars
=============================================================================
