---------------------------- MODULE SimpleRouter ----------------------------
(***************************************************************************)
(* The router (hw2/code/simple-router.cpp) around its ARP cache.  Three    *)
(* threads run: the ticker of ArpCache; the dispatch thread of Ice, which  *)
(* runs handlePacket and resetRouter one call at a time; and the main      *)
(* thread, which resets the router once while it starts (core/main.cpp),   *)
(* when calls may already be dispatched.                                   *)
(*                                                                         *)
(* Each method of ArpCache takes m_mutex on its own, so a handler is a     *)
(* sequence of steps cut where it takes the mutex; m_ifaces has no lock.   *)
(***************************************************************************)
EXTENDS ArpCache

CONSTANTS
    Arrivals,           \* the frames the network may deliver
    Ports,              \* the sets of ports the POX controller may report
    Broadcast,          \* ff:ff:ff:ff:ff:ff
    MaxPending,         \* bound: no packet arrives when this many are waiting
    MaxCache            \* bound: no ARP reply arrives when the cache is this long

\* dhost is the interface whose hardware address a frame carries as destination.
Arrival ==
    LET dhosts == Iface \cup {Broadcast}
    IN  [type : {"arp_request"}, iface : Iface, dhost : dhosts, tip : IP, sha : MAC]
            \cup [type : {"arp_reply"}, iface : Iface, dhost : dhosts,
                  tip : IP, sip : IP, sha : MAC]
            \cup [type : {"ip"}, iface : Iface, dhost : dhosts,
                  correct : BOOLEAN, packet : Packet]

ASSUME RouterAssumption ==
    /\ Arrivals \subseteq Arrival
    /\ Ports \subseteq SUBSET Iface
    /\ {} \notin Ports
    /\ Broadcast \notin Iface
    /\ MaxPending \in Nat
    /\ MaxCache \in Nat

VARIABLES
    handler,            \* the call the dispatch thread is running
    main                \* the main thread's own call of reset

vars == <<m_cacheEntries, m_arpRequests, it, held, m_ifaces, wire, crashed, handler, main>>

Idle == [pc |-> "idle"]
Forwarding == [pc : {"lookup", "queue"}, packet : Packet, next_hop : Route]
Resolving == [pc : {"insert", "remove"}, iface : Iface, ip : IP, mac : MAC]
Resetting == [pc : {"clear", "wipe", "fill"}, ports : SUBSET Iface]

-----------------------------------------------------------------------------
(* Interfaces *)

\* findIfaceByIp(ip) finds one.
IsMine(ip) == \E i \in m_ifaces : IfIp[i] = ip

MutexFree == it = 0

\* Packets that wait for a next hop.
PendingCount ==
    LET count[n \in 0..Len(m_arpRequests)] ==
            IF n = 0 THEN 0 ELSE count[n - 1] + Len(m_arpRequests[n].packets)
    IN  count[Len(m_arpRequests)]

-----------------------------------------------------------------------------
(* handlePacket *)

\* A call starts when the dispatch thread is free; the first checks on a frame.
Arrives(f) ==
    /\ handler = Idle
    /\ f \in Arrivals

ForMe(f) == f.iface \in m_ifaces /\ f.dhost \in {Broadcast, f.iface}

RequestForMe(f) == f.tip = IfIp[f.iface] /\ f.dhost = Broadcast
ReplyForMe(f) == f.tip = IfIp[f.iface] /\ f.dhost = f.iface

\* The early returns: the frame changes nothing.
IgnoreFrame(f) ==
    /\ Arrives(f)
    /\ \/ ~ForMe(f)
       \/ f.type = "arp_request" /\ ~RequestForMe(f)
       \/ f.type = "arp_reply" /\ ~ReplyForMe(f)
       \/ f.type = "ip" /\ ~f.correct
       \/ f.type = "ip" /\ IsMine(f.packet.dst) /\ f.packet.kind = "other"
    /\ wire' = <<>>
    /\ UNCHANGED <<m_cacheEntries, m_arpRequests, it, held, m_ifaces, crashed, handler, main>>

AnswerArp(f) ==
    /\ Arrives(f)
    /\ f.type = "arp_request"
    /\ ForMe(f)
    /\ RequestForMe(f)
    /\ wire' = <<[type |-> "arp_reply", iface |-> f.iface, shost |-> f.iface, dhost |-> f.sha]>>
    /\ UNCHANGED <<m_cacheEntries, m_arpRequests, it, held, m_ifaces, crashed, handler, main>>

ReceiveArpReply(f) ==
    /\ Arrives(f)
    /\ f.type = "arp_reply"
    /\ ForMe(f)
    /\ ReplyForMe(f)
    /\ Len(m_cacheEntries) < MaxCache
    /\ handler' = [pc |-> "insert", iface |-> f.iface, ip |-> f.sip, mac |-> f.sha]
    /\ wire' = <<>>
    /\ UNCHANGED <<m_cacheEntries, m_arpRequests, it, held, m_ifaces, crashed, main>>

InsertEntry ==
    /\ handler.pc = "insert"
    /\ MutexFree
    /\ insertArpEntry(handler.ip, handler.mac)
    /\ handler' = [handler EXCEPT !.pc = "remove"]
    /\ wire' = <<>>
    /\ UNCHANGED <<m_arpRequests, it, m_ifaces, crashed, main>>

\* Mutant: only the first packet of the request is sent.
RemoveAndSendFirst ==
    /\ handler.pc = "remove"
    /\ MutexFree
    /\ wire' = IF held.packets = <<>> THEN <<>>
               ELSE <<IpFrame(Head(held.packets).iface, handler.iface, handler.mac,
                              Head(held.packets).packet)>>
    /\ removeRequest
    /\ handler' = Idle
    /\ UNCHANGED <<m_cacheEntries, it, m_ifaces, crashed, main>>

\* The packets of the request, each on its own interface, all with the hardware
\* address of the interface the reply came in on.
RemoveAndSend ==
    /\ handler.pc = "remove"
    /\ MutexFree
    /\ wire' = [i \in DOMAIN held.packets |->
                   IpFrame(held.packets[i].iface, handler.iface, handler.mac,
                           held.packets[i].packet)]
    /\ removeRequest
    /\ handler' = Idle
    /\ UNCHANGED <<m_cacheEntries, it, m_ifaces, crashed, main>>

\* forwardPacket up to the lookup in the cache.  A packet for the router itself
\* is dropped.  When no route matches, an ICMP error takes the place of the
\* packet (sendDataICMP calls forwardPacket again), and nothing that of the error.
forwardPacket(packet, own) ==
    LET sent == IF IsMine(packet.dst) \/ RT[packet.dst] # NoRoute
                THEN packet
                ELSE IcmpError("host_unreachable", own, packet.src)
    IN  handler' = IF IsMine(sent.dst) \/ RT[sent.dst] = NoRoute
                   THEN Idle
                   ELSE [pc |-> "lookup", packet |-> sent, next_hop |-> RT[sent.dst]]

ArrivesIp(f) ==
    /\ Arrives(f)
    /\ f.type = "ip"
    /\ ForMe(f)
    /\ f.correct
    /\ PendingCount < MaxPending

EchoReply(own, to) == [src |-> own, dst |-> to, ttl |-> 64, kind |-> "echo_reply"]

\* ICMP to one of the router's addresses, whatever its type, is echoed.
AnswerEcho(f) ==
    /\ ArrivesIp(f)
    /\ IsMine(f.packet.dst)
    /\ f.packet.kind \notin {"tcp_udp", "other"}
    /\ forwardPacket(EchoReply(f.packet.dst, f.packet.src), f.packet.dst)
    /\ wire' = <<>>
    /\ UNCHANGED <<m_cacheEntries, m_arpRequests, it, held, m_ifaces, crashed, main>>

RefusePort(f) ==
    /\ ArrivesIp(f)
    /\ IsMine(f.packet.dst)
    /\ f.packet.kind = "tcp_udp"
    /\ forwardPacket(IcmpError("port_unreachable", f.packet.dst, f.packet.src), f.packet.dst)
    /\ wire' = <<>>
    /\ UNCHANGED <<m_cacheEntries, m_arpRequests, it, held, m_ifaces, crashed, main>>

ReportExpired(f) ==
    /\ ArrivesIp(f)
    /\ ~IsMine(f.packet.dst)
    /\ f.packet.ttl \in {0, 1}
    /\ LET own == IfIp[f.iface]
       IN  forwardPacket(IcmpError("time_exceeded", own, f.packet.src), own)
    /\ wire' = <<>>
    /\ UNCHANGED <<m_cacheEntries, m_arpRequests, it, held, m_ifaces, crashed, main>>

ForwardIp(f) ==
    /\ ArrivesIp(f)
    /\ ~IsMine(f.packet.dst)
    /\ f.packet.ttl \notin {0, 1}
    /\ forwardPacket([f.packet EXCEPT !.ttl = @ - 1], IfIp[f.iface])
    /\ wire' = <<>>
    /\ UNCHANGED <<m_cacheEntries, m_arpRequests, it, held, m_ifaces, crashed, main>>

-----------------------------------------------------------------------------
(* The rest of forwardPacket *)

LookupHit ==
    /\ handler.pc = "lookup"
    /\ MutexFree
    /\ HasEntry(handler.next_hop.gw)
    /\ handler.next_hop.ifName \in m_ifaces
    /\ wire' = <<IpFrame(handler.next_hop.ifName, handler.next_hop.ifName,
                         EntryMac(handler.next_hop.gw), handler.packet)>>
    /\ handler' = Idle
    /\ UNCHANGED <<m_cacheEntries, m_arpRequests, it, held, m_ifaces, crashed, main>>

\* findIfaceByName gave null, and the address of the interface is read.
LookupCrashes ==
    /\ handler.pc = "lookup"
    /\ MutexFree
    /\ HasEntry(handler.next_hop.gw)
    /\ handler.next_hop.ifName \notin m_ifaces
    /\ crashed' = TRUE
    /\ wire' = <<>>
    /\ UNCHANGED <<m_cacheEntries, m_arpRequests, it, held, m_ifaces, handler, main>>

LookupMiss ==
    /\ handler.pc = "lookup"
    /\ MutexFree
    /\ ~HasEntry(handler.next_hop.gw)
    /\ handler' = [handler EXCEPT !.pc = "queue"]
    /\ wire' = <<>>
    /\ UNCHANGED <<m_cacheEntries, m_arpRequests, it, held, m_ifaces, crashed, main>>

QueuePacket ==
    /\ handler.pc = "queue"
    /\ MutexFree
    /\ LET pending == [packet |-> handler.packet, iface |-> handler.next_hop.ifName]
       IN  /\ m_arpRequests' = Queued(m_arpRequests, handler.next_hop.gw, pending)
           /\ held' = HeldQueued(handler.next_hop.gw, pending)
    /\ handler' = Idle
    /\ wire' = <<>>
    /\ UNCHANGED <<m_cacheEntries, it, m_ifaces, crashed, main>>

-----------------------------------------------------------------------------
(* reset, called by the dispatch thread for POX and by the main thread at start *)

Clears ==
    /\ MutexFree
    /\ clear
    /\ wire' = <<>>
    /\ UNCHANGED <<it, m_ifaces, crashed>>

Wipes ==
    /\ m_ifaces' = {}
    /\ wire' = <<>>
    /\ UNCHANGED <<m_cacheEntries, m_arpRequests, it, held>>

\* A port that IP_CONFIG does not name is skipped.
Fills(port) ==
    /\ m_ifaces' = m_ifaces \cup ({port} \cap DOMAIN IfIp)
    /\ wire' = <<>>
    /\ UNCHANGED <<m_cacheEntries, m_arpRequests, it, held, crashed>>

ResetRouter(ports) ==
    /\ handler = Idle
    /\ handler' = [pc |-> "clear", ports |-> ports]
    /\ wire' = <<>>
    /\ UNCHANGED <<m_cacheEntries, m_arpRequests, it, held, m_ifaces, crashed, main>>

DispatchClears ==
    /\ handler.pc = "clear"
    /\ Clears
    /\ handler' = [handler EXCEPT !.pc = "wipe"]
    /\ UNCHANGED main

DispatchWipes ==
    /\ handler.pc = "wipe"
    /\ Wipes
    /\ handler' = [handler EXCEPT !.pc = "fill"]
    /\ UNCHANGED <<crashed, main>>

\* Mutant: break instead of continue, only one port is filled in.
DispatchFillsOne ==
    /\ handler.pc = "fill"
    /\ \E port \in handler.ports : Fills(port)
    /\ handler' = Idle
    /\ UNCHANGED main

DispatchFills ==
    /\ handler.pc = "fill"
    /\ \E port \in handler.ports :
           /\ Fills(port)
           /\ handler' = IF handler.ports = {port}
                         THEN Idle
                         ELSE [handler EXCEPT !.ports = @ \ {port}]
    /\ UNCHANGED main

MainClears ==
    /\ main.pc = "clear"
    /\ Clears
    /\ main' = [main EXCEPT !.pc = "wipe"]
    /\ UNCHANGED handler

\* A handler that keeps a pointer to an interface finds freed memory there: an
\* access fails, or reads whatever address the memory holds.
MainWipes ==
    /\ main.pc = "wipe"
    /\ Wipes
    /\ main' = [main EXCEPT !.pc = "fill"]
    /\ IF handler.pc \in {"insert", "remove"}
       THEN \/ crashed' = TRUE /\ UNCHANGED handler
            \/ \E i \in Iface : handler' = [handler EXCEPT !.iface = i]
               /\ UNCHANGED crashed
       ELSE UNCHANGED <<crashed, handler>>

MainFills ==
    /\ main.pc = "fill"
    /\ \E port \in main.ports :
           /\ Fills(port)
           /\ main' = IF main.ports = {port}
                      THEN [main EXCEPT !.pc = "running", !.ports = {}]
                      ELSE [main EXCEPT !.ports = @ \ {port}]
    /\ UNCHANGED handler

-----------------------------------------------------------------------------
(* The specification *)

\* The main thread has registered with POX and got its list of ports.
Init ==
    /\ ArpInit
    /\ handler = Idle
    /\ main \in [pc : {"clear"}, ports : Ports]

HandlePacket(f) ==
    \/ IgnoreFrame(f)
    \/ AnswerArp(f)
    \/ ReceiveArpReply(f)
    \/ AnswerEcho(f)
    \/ RefusePort(f)
    \/ ReportExpired(f)
    \/ ForwardIp(f)

\* A call under way goes on.
HandlerStep ==
    \/ InsertEntry
    \/ RemoveAndSend
    \/ LookupHit
    \/ LookupCrashes
    \/ LookupMiss
    \/ QueuePacket
    \/ DispatchClears
    \/ DispatchWipes
    \/ DispatchFills

MainStep ==
    \/ MainClears
    \/ MainWipes
    \/ MainFills

Ticker == TickerStep /\ UNCHANGED <<handler, main>>

Next ==
    /\ ~crashed
    /\ \/ Ticker
       \/ \E f \in Arrivals : HandlePacket(f)
       \/ \E ports \in Ports : ResetRouter(ports)
       \/ HandlerStep
       \/ MainStep

Spec == Init /\ [][Next]_vars

\* Every thread is scheduled.  The mutex is not fair, but the ticker leaves it
\* for a second after each tick, and so everyone who waits for it gets it: what
\* is enabled again and again is taken (strong fairness).  Nothing is assumed of
\* the network and of POX.
FairSpec ==
    /\ Spec
    /\ WF_vars(~crashed /\ Ticker)
    /\ SF_vars(~crashed /\ HandlerStep)
    /\ SF_vars(~crashed /\ MainStep)
-----------------------------------------------------------------------------
(* Safety *)

TypeOK ==
    /\ ArpTypeOK
    /\ handler \in {Idle} \cup Forwarding \cup Resolving \cup Resetting
    /\ main \in [pc : {"clear", "wipe", "fill", "running"}, ports : SUBSET Iface]

\* There is at most one request for each next hop (arp-cache.cpp:231, 249: every
\* search stops at the first one, and a second would never be answered).
UniqueRequests ==
    \A i, j \in DOMAIN m_arpRequests :
        m_arpRequests[i].ip = m_arpRequests[j].ip => i = j

\* packets.front() is never taken of an empty list (arp-cache.cpp:157): a request
\* that has been sent less than the limit has a packet.
FrontExists ==
    \A i \in DOMAIN m_arpRequests :
        m_arpRequests[i].packets = <<>> =>
            i = it /\ m_arpRequests[i].nTimesSent >= MAX_SENT_TIME

\* The route to the destination of each of packets is by ip, on its interface.
Routed(packets, ip) ==
    \A k \in DOMAIN packets :
        RT[packets[k].packet.dst] = [gw |-> ip, ifName |-> packets[k].iface]

\* A packet waits for the next hop of its own destination, and on the interface of
\* that route, through every queueing, error and reset; so all the packets of a
\* request have the interface its ARP requests go out on (report.md, 2.2).
QueueRouted ==
    \A i \in DOMAIN m_arpRequests : Routed(m_arpRequests[i].packets, m_arpRequests[i].ip)

\* No packet waits for an address the cache has, but while the reply that brought
\* it is being handled: the lookup and the queueing of forwardPacket are two
\* critical sections, and so are the insertion and the removal of handlePacket.
NoneStranded ==
    \A ip \in IP :
        HasRequest(ip) /\ HasEntry(ip) => handler.pc = "remove" /\ handler.ip = ip

\* Some neighbour may say that ip has hardware address mac.
Announced(ip, mac) ==
    \E f \in Arrivals : f.type = "arp_reply" /\ f.sip = ip /\ f.sha = mac

\* Every IP frame goes out on the interface of the route to its destination, to a
\* hardware address some reply gave for the next hop: also a frame sent late, by
\* the ticker or after a reply, when routes of several packets share a request.
FramesRouted ==
    \A k \in DOMAIN wire :
        wire[k].type = "ip" =>
            LET next_hop == RT[wire[k].packet.dst]
            IN  /\ next_hop # NoRoute
                /\ wire[k].iface = next_hop.ifName
                /\ Announced(next_hop.gw, wire[k].dhost)

\* A missing interface is met only while some thread resets the router, as long
\* as POX reports every interface the routes name (main.cpp:108-111).
ResetUnderWay == main.pc # "running" \/ handler.pc \in {"wipe", "fill"}
CrashOnlyInReset == crashed => ResetUnderWay

-----------------------------------------------------------------------------
(* The inductive invariant: what each thread may rely on about the others *)

\* The route a call has found stays the route of its packet, and what it did not
\* find in the cache is not put there before it queues the packet.
HandlerRouted ==
    /\ handler.pc \in {"lookup", "queue"} => RT[handler.packet.dst] = handler.next_hop
    /\ handler.pc = "queue" => ~HasEntry(handler.next_hop.gw)

\* A request is held by the call that handles the reply to it, and by no other.
HeldByHandler ==
    /\ held.linked => HasRequest(held.ip)
    /\ held.linked \/ held.packets # <<>> => handler.pc = "remove" /\ held.ip = handler.ip
    /\ Routed(held.packets, held.ip)

\* While the reply is handled its request is either held or gone.
RemovalPending ==
    handler.pc = "remove" /\ HasRequest(handler.ip) /\ HasEntry(handler.ip) => held.linked

\* What the cache says comes from a reply, and so does what is about to enter it.
OnlyAnnounced ==
    /\ \A i \in DOMAIN m_cacheEntries : Announced(m_cacheEntries[i].ip, m_cacheEntries[i].mac)
    /\ handler.pc \in {"insert", "remove"} => Announced(handler.ip, handler.mac)

\* All of it together, preserved by every step of every thread.
IInv ==
    /\ TypeOK
    /\ UniqueRequests
    /\ FrontExists
    /\ QueueRouted
    /\ NoneStranded
    /\ HandlerRouted
    /\ HeldByHandler
    /\ RemovalPending
    /\ OnlyAnnounced
    /\ FramesRouted

-----------------------------------------------------------------------------
(* What a step may not do *)

\* The packets the router has accepted and not yet disposed of.
Waiting ==
    (UNION {{m_arpRequests[i].packets[k].packet : k \in DOMAIN m_arpRequests[i].packets}
                : i \in DOMAIN m_arpRequests})
        \cup {held.packets[k].packet : k \in DOMAIN held.packets}
        \cup (IF handler.pc \in {"lookup", "queue"} THEN {handler.packet} ELSE {})

Sent(packet) == \E k \in DOMAIN wire : wire[k].type = "ip" /\ wire[k].packet = packet

\* An ICMP host unreachable for the source of packet leaves, or waits to leave.
Told(packet) ==
    \E i \in Iface :
        LET error == IcmpError("host_unreachable", IfIp[i], packet.src)
        IN  Sent(error) \/ error \in Waiting

\* The ticker comes to a packet without a way back, and stops telling.
Untold(packet) ==
    /\ GivingUp /\ RT[Waiter.packet.src] = NoRoute
    /\ RT[packet.dst].gw = Scanned.ip

\* A packet the router has accepted leaves it by being sent, or with an ICMP host
\* unreachable to its source (arp-cache.hpp:26-31), or in a reset, or it waits with or
\* behind one that has no way back: none is lost in the handover between the threads.
AllWaitersTold ==
    [][\/ Clears
       \/ \A packet \in Waiting \ Waiting' :
              Sent(packet)' \/ Told(packet)' \/ Untold(packet)]_vars

-----------------------------------------------------------------------------
(* Liveness *)

\* The ticker goes back to sleep, and the mutex is free again.
TickReturns == []<>(it = 0 \/ crashed)

\* A request for a next hop does not stay: it is answered or given up.
NextHops == {RT[ip].gw : ip \in {x \in IP : RT[x] # NoRoute}}
RequestsEnd == \A ip \in NextHops : HasRequest(ip) ~> (~HasRequest(ip) \/ crashed)

\* A call of the dispatch thread comes to its end: nobody keeps the mutex from it.
CallsReturn == (handler # Idle) ~> (handler = Idle \/ crashed)

=============================================================================
