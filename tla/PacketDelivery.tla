--------------------------- MODULE PacketDelivery ---------------------------
(***************************************************************************)
(* What a router promises for the packets it has to send, whatever it does *)
(* to find their next hops (hw2/code/arp-cache.hpp:22-42): each one leaves *)
(* once, or its source is sent one ICMP error in its place, or no way      *)
(* leads back to the source; but for what a reset clears.  Nothing else    *)
(* leaves.                                                                 *)
(***************************************************************************)
EXTENDS Bags

CONSTANTS
    Packets,            \* packets the router may have to send
    Errors(_),          \* the ICMP errors for a packet that cannot be sent
    Answerable(_),      \* there is a way back to the source of a packet
    Threads             \* those that may reset the router

VARIABLES
    buffer,             \* packets to be sent: a bag
    hand,               \* those of them the dispatch thread is working on
    sent,               \* packets the last step sent: a bag
    resets              \* threads that have begun a reset and not yet cleared

vars == <<buffer, hand, sent, resets>>

One(packet) == SetToBag({packet})
Waits(packet) == BagIn(packet, buffer (-) hand)

Init ==
    /\ buffer = EmptyBag
    /\ hand = EmptyBag
    /\ sent = EmptyBag
    /\ resets \subseteq Threads

\* The router looks for next hops.
Search ==
    /\ sent' = EmptyBag
    /\ UNCHANGED <<buffer, hand, resets>>

\* A packet comes in, or the router makes one.
Accept ==
    /\ hand = EmptyBag
    /\ sent' = EmptyBag
    /\ \E packet \in Packets :
           /\ hand' = One(packet)
           /\ buffer' = buffer (+) One(packet)
    /\ UNCHANGED resets

\* The next hop is not known: the packet has to wait.
Store ==
    /\ hand' = EmptyBag
    /\ sent' = EmptyBag
    /\ UNCHANGED <<buffer, resets>>

\* It has become known: all that waits for it is taken up.
Take ==
    /\ hand = EmptyBag
    /\ hand' \sqsubseteq buffer
    /\ sent' = EmptyBag
    /\ UNCHANGED <<buffer, resets>>

Deliver ==
    /\ sent' = hand
    /\ buffer' = buffer (-) hand
    /\ hand' = EmptyBag
    /\ UNCHANGED resets

\* The error leaves at once, or is one more packet to be sent; it may be so for a next
\* hop that has just become known.
Errs(rest, error) ==
    \/ buffer' = rest /\ sent' = One(error) /\ UNCHANGED hand
    \/ buffer' = rest (+) One(error) /\ sent' = EmptyBag /\ hand' \in {hand, hand (+) One(error)}

\* The next hop does not answer.
Report(packet, error) ==
    /\ Waits(packet)
    /\ Errs(buffer (-) One(packet), error)
    /\ UNCHANGED resets

\* It answers too late: the packet is reported and will be delivered.
ReportTooEarly(packet, error) ==
    /\ BagIn(packet, hand)
    /\ Errs(buffer, error)
    /\ UNCHANGED resets

Forget(packet) ==
    /\ Waits(packet) /\ ~Answerable(packet)
    /\ buffer' = buffer (-) One(packet)
    /\ sent' = EmptyBag
    /\ UNCHANGED <<hand, resets>>

BeginReset(thread) ==
    /\ resets' = resets \cup {thread}
    /\ sent' = EmptyBag
    /\ UNCHANGED <<buffer, hand>>

\* All that waits is lost, and what is in hand is not.
Clear(thread) ==
    /\ thread \in resets
    /\ resets' = resets \ {thread}
    /\ buffer' = hand
    /\ sent' = EmptyBag
    /\ UNCHANGED hand

OnceNext ==
    \/ Search \/ Accept \/ Store \/ Take \/ Deliver
    \/ \E packet \in BagToSet(buffer) :
           Forget(packet) \/ \E error \in Errors(packet) : Report(packet, error)
    \/ \E thread \in Threads : BeginReset(thread) \/ Clear(thread)

Next ==
    \/ OnceNext
    \/ \E packet \in BagToSet(hand) : \E error \in Errors(packet) : ReportTooEarly(packet, error)

Spec == Init /\ [][Next]_vars

\* What the comment says: a packet is delivered or reported.
OnceSpec == Init /\ [][OnceNext]_vars
=============================================================================
