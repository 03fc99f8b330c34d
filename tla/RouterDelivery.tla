--------------------------- MODULE RouterDelivery ---------------------------
(***************************************************************************)
(* The router as a PacketDelivery: its queues, the request a handler holds *)
(* and the packet it works on are the one buffer, whatever the ticker, the *)
(* dispatch thread and the main thread do in between.                      *)
(***************************************************************************)
EXTENDS SimpleRouter
LOCAL INSTANCE Bags
LOCAL INSTANCE SequencesExt

\* The packets of a sequence of records that have one.
PacketBag(s) == ToBag([i \in DOMAIN s |-> s[i].packet])

Hand ==
    PacketBag(held.packets)
        (+) (IF handler.pc \in {"lookup", "queue"} THEN SetToBag({handler.packet}) ELSE EmptyBag)

\* A held request that is still linked is one of the list.
Queue == SelectSeq(m_arpRequests, LAMBDA request : ~(held.linked /\ request.ip = held.ip))

Buffer == PacketBag(FlattenSeq([i \in DOMAIN Queue |-> Queue[i].packets])) (+) Hand

SentPackets == PacketBag(SelectSeq(wire, LAMBDA frame : frame.type = "ip"))

Resets ==
    (IF main.pc = "clear" THEN {"main"} ELSE {})
        \cup (IF handler.pc = "clear" THEN {"dispatch"} ELSE {})

\* The packets that arrive for others, and the router's own.
Forwarded ==
    {[f.packet EXCEPT !.ttl = @ - 1] : f \in {a \in Arrivals : a.type = "ip" /\ a.packet.ttl > 1}}
Own ==
    [src : {IfIp[i] : i \in DOMAIN IfIp}, dst : IP, ttl : {64},
     kind : {"echo_reply", "host_unreachable", "port_unreachable", "time_exceeded"}]

ErrorsFor(packet) == {IcmpError("host_unreachable", IfIp[i], packet.src) : i \in DOMAIN IfIp}
WayBack(packet) == RT[packet.src] # NoRoute

Promise == INSTANCE PacketDelivery
    WITH buffer <- Buffer, hand <- Hand, sent <- SentPackets, resets <- Resets,
         Packets <- Forwarded \cup Own, Errors <- ErrorsFor, Answerable <- WayBack,
         Threads <- {"main", "dispatch"}

\* A packet the router has accepted leaves it once, or is answered with one ICMP host
\* unreachable if there is a way back, or goes in a reset, which spares what a thread
\* has in hand; no packet is lost, doubled or made up between the threads.
Delivery == Promise!Spec

\* A request is answered or given up (arp-cache.hpp:25-31, 40-42): no source is told
\* that its packet could not be delivered when it is.
DeliveredOrReported == Promise!OnceSpec
=============================================================================
