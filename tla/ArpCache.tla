------------------------------ MODULE ArpCache ------------------------------
(***************************************************************************)
(* The ARP cache of the router (hw2/code/arp-cache.cpp): resolved          *)
(* addresses, the requests that wait for an answer with the packets each   *)
(* one holds back, and the ticker thread that ages, resends and gives up.  *)
(* The handlers that share these structures are in SimpleRouter.           *)
(*                                                                         *)
(* One tick of the ticker is a sequence of steps made with m_mutex held:   *)
(* it = 0 says that the ticker sleeps and the mutex is free, any other     *)
(* value that it holds the mutex and scans m_arpRequests at position it.   *)
(* Time is counted in ticks.  The test now - timeSent > seconds(1)         *)
(* (line 50) always succeeds: a tick ends with a sleep of a second, and    *)
(* timeSent was set before it; a new request has timeSent = 0.             *)
(***************************************************************************)
EXTENDS Integers, Sequences

CONSTANTS
    IP,                 \* addresses packets carry
    MAC,                \* hardware addresses of neighbours
    Iface,              \* names of interfaces
    IfIp,               \* m_ifNameToIpMap: address of each interface in IP_CONFIG
    RT,                 \* what RoutingTable::lookup answers for each address
    NoRoute,            \* lookup throws: no entry matches
    MAX_SENT_TIME,      \* 5: ARP requests sent before giving up
    SR_ARPCACHE_TO      \* 30: life of a cache entry

Route == [gw : IP, ifName : Iface]

ASSUME ArpAssumption ==
    /\ IP # {}
    /\ DOMAIN IfIp \subseteq Iface
    /\ \A i \in DOMAIN IfIp : IfIp[i] \in IP
    /\ RT \in [IP -> Route \cup {NoRoute}]
    /\ NoRoute \notin Route
    /\ MAX_SENT_TIME \in Nat \ {0}
    /\ SR_ARPCACHE_TO \in Nat \ {0}

\* The protocols handlePacket tells apart, and the ICMP messages it makes.
Kind == {"icmp", "tcp_udp", "other",
         "echo_reply", "host_unreachable", "port_unreachable", "time_exceeded"}

Packet == [src : IP, dst : IP, ttl : 0..255, kind : Kind]

PendingPacket == [packet : Packet, iface : Iface]

ArpEntry == [ip : IP, mac : MAC, age : 0..SR_ARPCACHE_TO]

ArpRequest == [ip : IP, nTimesSent : 0..MAX_SENT_TIME, packets : Seq(PendingPacket)]

\* A frame given to the POX controller.  The hardware address of an interface
\* is written as the interface: shost is the one whose address is the source.
Frame ==
    [type : {"ip"}, iface : Iface, shost : Iface, dhost : MAC, packet : Packet]
        \cup [type : {"arp_request"}, iface : Iface, shost : Iface, tip : IP]
        \cup [type : {"arp_reply"}, iface : Iface, shost : Iface, dhost : MAC]

VARIABLES
    m_cacheEntries,     \* entries in the order they were added
    m_arpRequests,      \* unanswered requests in the order they were made
    it,                 \* position of the ticker in m_arpRequests, 0 when it sleeps
    held,               \* what insertArpEntry returned and its caller still holds
    m_ifaces,           \* interfaces the router knows
    wire,               \* frames the last step handed to sendPacket
    crashed             \* a null Interface pointer was dereferenced

-----------------------------------------------------------------------------
(* Lookups *)

\* A request object somebody holds, shared with the list for as long as it is
\* linked.  A null pointer is an object without packets that is not linked.
Held == [ip : IP, packets : Seq(PendingPacket), linked : BOOLEAN]
Null == [ip |-> CHOOSE ip \in IP : TRUE, packets |-> <<>>, linked |-> FALSE]

HasEntry(ip) == \E i \in DOMAIN m_cacheEntries : m_cacheEntries[i].ip = ip

HasRequest(ip) == \E i \in DOMAIN m_arpRequests : m_arpRequests[i].ip = ip

\* The address lookup returns: that of the oldest entry for ip.
EntryMac(ip) ==
    LET first == CHOOSE i \in DOMAIN m_cacheEntries :
                     /\ m_cacheEntries[i].ip = ip
                     /\ \A j \in 1..(i - 1) : m_cacheEntries[j].ip # ip
    IN  m_cacheEntries[first].mac

\* Position of the first request for ip.
FindRequest(ip) ==
    CHOOSE i \in DOMAIN m_arpRequests :
        /\ m_arpRequests[i].ip = ip
        /\ \A j \in 1..(i - 1) : m_arpRequests[j].ip # ip

Without(s, i) == SubSeq(s, 1, i - 1) \o SubSeq(s, i + 1, Len(s))

IpFrame(iface, shost, dhost, packet) ==
    [type |-> "ip", iface |-> iface, shost |-> shost, dhost |-> dhost, packet |-> packet]

\* An ICMP error made by the router, from the address own of one of its interfaces.
IcmpError(kind, own, to) == [src |-> own, dst |-> to, ttl |-> 64, kind |-> kind]

-----------------------------------------------------------------------------
(* Operations on the queue and the cache *)

\* Mutant: no search for a request that is already there.
QueuedApart(requests, ip, pending) ==
    Append(requests, [ip |-> ip, nTimesSent |-> 0, packets |-> <<pending>>])

\* queueRequest and queueRequest_inside: the packet joins the request for ip, a
\* new one at the end of the list if there is none.  requests is m_arpRequests,
\* or what a step has already made of it without moving any request.
Queued(requests, ip, pending) ==
    IF HasRequest(ip)
    THEN [requests EXCEPT ![FindRequest(ip)].packets = Append(@, pending)]
    ELSE Append(requests, [ip |-> ip, nTimesSent |-> 0, packets |-> <<pending>>])

\* Whoever holds the request sees the packet too.
HeldQueued(ip, pending) ==
    IF held.ip = ip /\ held.linked
    THEN [held EXCEPT !.packets = Append(@, pending)]
    ELSE held

\* The request at position i leaves the list; a caller may still hold it.
Unlink(i) ==
    /\ m_arpRequests' = Without(m_arpRequests, i)
    /\ held' = IF held.ip = m_arpRequests[i].ip
               THEN [held EXCEPT !.linked = FALSE]
               ELSE held

\* insertArpEntry: the mapping is added at the end, even when there is one for ip.
insertArpEntry(ip, mac) ==
    /\ m_cacheEntries' = Append(m_cacheEntries, [ip |-> ip, mac |-> mac, age |-> 0])
    /\ held' = IF HasRequest(ip)
               THEN [ip |-> ip, packets |-> m_arpRequests[FindRequest(ip)].packets,
                     linked |-> TRUE]
               ELSE Null

\* Mutant: the request stays in the list.
removeRequestMissed ==
    /\ UNCHANGED m_arpRequests
    /\ held' = Null

\* removeRequest(held), after which only the caller has the request.
removeRequest ==
    /\ m_arpRequests' = IF held.linked
                        THEN Without(m_arpRequests, FindRequest(held.ip))
                        ELSE m_arpRequests
    /\ held' = Null

\* clear: a request somebody holds survives outside the list.
clear ==
    /\ m_cacheEntries' = <<>>
    /\ m_arpRequests' = <<>>
    /\ held' = [held EXCEPT !.linked = FALSE]

-----------------------------------------------------------------------------
(* The ticker thread *)

\* What erasing the entries found invalid leaves, a tick older.
Survivors(expired) ==
    [i \in 1..(Len(m_cacheEntries) - expired) |->
        [m_cacheEntries[i + expired] EXCEPT !.age = @ + 1]]

\* Mutant: entries past their life are not invalidated.
TickerWakesLate ==
    /\ it = 0
    /\ m_cacheEntries' = Survivors(0)
    /\ it' = 1
    /\ wire' = <<>>
    /\ UNCHANGED <<m_arpRequests, held, m_ifaces, crashed>>

\* ticker wakes up and takes m_mutex: entries past their life are invalidated and
\* erased.  They are the oldest ones, at least those that have seen
\* SR_ARPCACHE_TO ticks; a delayed tick expires more.
TickerWakes ==
    /\ it = 0
    /\ \E expired \in 0..Len(m_cacheEntries) :
           /\ \A i \in DOMAIN m_cacheEntries :
                  m_cacheEntries[i].age = SR_ARPCACHE_TO => i <= expired
           /\ m_cacheEntries' = Survivors(expired)
    /\ it' = 1
    /\ wire' = <<>>
    /\ UNCHANGED <<m_arpRequests, held, m_ifaces, crashed>>

Scanned == m_arpRequests[it]
Waiter == Head(Scanned.packets)

\* Mutant: nTimesSent++ is missing.
ResendUncounted ==
    /\ it \in DOMAIN m_arpRequests
    /\ Scanned.nTimesSent < MAX_SENT_TIME
    /\ Waiter.iface \in m_ifaces
    /\ wire' = <<[type |-> "arp_request", iface |-> Waiter.iface,
                  shost |-> Waiter.iface, tip |-> Scanned.ip]>>
    /\ it' = it + 1
    /\ UNCHANGED <<m_cacheEntries, m_arpRequests, held, m_ifaces, crashed>>

\* The ARP request is sent once more, on the interface of the first packet.
ResendRequest ==
    /\ it \in DOMAIN m_arpRequests
    /\ Scanned.nTimesSent < MAX_SENT_TIME
    /\ Waiter.iface \in m_ifaces
    /\ wire' = <<[type |-> "arp_request", iface |-> Waiter.iface,
                  shost |-> Waiter.iface, tip |-> Scanned.ip]>>
    /\ m_arpRequests' = [m_arpRequests EXCEPT ![it].nTimesSent = @ + 1]
    /\ it' = it + 1
    /\ UNCHANGED <<m_cacheEntries, held, m_ifaces, crashed>>

\* findIfaceByName gives null for the interface of the packet, and it is used.
TickerCrashes ==
    /\ it \in DOMAIN m_arpRequests
    /\ Scanned.packets # <<>>
    /\ Waiter.iface \notin m_ifaces
    /\ crashed' = TRUE
    /\ wire' = <<>>
    /\ UNCHANGED <<m_cacheEntries, m_arpRequests, it, held, m_ifaces>>

\* The loop over the packets of a request given up takes the next one.  Packets
\* done with are dropped from the list here; in the code the whole list goes
\* when the loop ends, and the mutex is held until then.
GivingUp ==
    /\ it \in DOMAIN m_arpRequests
    /\ Scanned.nTimesSent >= MAX_SENT_TIME
    /\ Scanned.packets # <<>>
    /\ Waiter.iface \in m_ifaces

Unreachable == IcmpError("host_unreachable", IfIp[Waiter.iface], Waiter.packet.src)
NextWaiter == [m_arpRequests EXCEPT ![it].packets = Tail(@)]

\* Mutant: the error is sent on the interface that failed.
WaiterToldOnFailedIface ==
    /\ GivingUp
    /\ RT[Waiter.packet.src] # NoRoute
    /\ HasEntry(RT[Waiter.packet.src].gw)
    /\ wire' = <<IpFrame(Waiter.iface, Waiter.iface,
                         EntryMac(RT[Waiter.packet.src].gw), Unreachable)>>
    /\ m_arpRequests' = NextWaiter
    /\ UNCHANGED <<m_cacheEntries, it, held, m_ifaces, crashed>>

\* The next hop back to the source is in the cache: the ICMP error is sent on the
\* way back, with the hardware address of the interface that failed as source.
WaiterTold ==
    /\ GivingUp
    /\ RT[Waiter.packet.src] # NoRoute
    /\ LET next_hop == RT[Waiter.packet.src]
       IN  /\ HasEntry(next_hop.gw)
           /\ wire' = <<IpFrame(next_hop.ifName, Waiter.iface,
                                EntryMac(next_hop.gw), Unreachable)>>
    /\ m_arpRequests' = NextWaiter
    /\ UNCHANGED <<m_cacheEntries, it, held, m_ifaces, crashed>>

\* Mutant: the error is queued for the interface that failed.
WaiterErrorMisqueued ==
    /\ GivingUp
    /\ RT[Waiter.packet.src] # NoRoute
    /\ ~HasEntry(RT[Waiter.packet.src].gw)
    /\ m_arpRequests' = Queued(NextWaiter, RT[Waiter.packet.src].gw,
                               [packet |-> Unreachable, iface |-> Waiter.iface])
    /\ wire' = <<>>
    /\ UNCHANGED <<m_cacheEntries, it, held, m_ifaces, crashed>>

\* Mutant: the error is queued on the request that is given up.
WaiterErrorKept ==
    /\ GivingUp
    /\ RT[Waiter.packet.src] # NoRoute
    /\ ~HasEntry(RT[Waiter.packet.src].gw)
    /\ m_arpRequests' = [NextWaiter EXCEPT ![it].packets =
                            Append(@, [packet |-> Unreachable, iface |-> Waiter.iface])]
    /\ wire' = <<>>
    /\ UNCHANGED <<m_cacheEntries, it, held, m_ifaces, crashed>>

\* It is not: the error waits for the next hop, maybe in the request given up.
WaiterErrorQueued ==
    /\ GivingUp
    /\ RT[Waiter.packet.src] # NoRoute
    /\ LET next_hop == RT[Waiter.packet.src]
           error == [packet |-> Unreachable, iface |-> next_hop.ifName]
       IN  /\ ~HasEntry(next_hop.gw)
           /\ m_arpRequests' = Queued(NextWaiter, next_hop.gw, error)
           /\ held' = HeldQueued(next_hop.gw, error)
    /\ wire' = <<>>
    /\ UNCHANGED <<m_cacheEntries, it, m_ifaces, crashed>>

\* No way back to the source: break leaves the loop, and the request goes with
\* the packets that were still to come.
WaiterUnroutable ==
    /\ GivingUp
    /\ RT[Waiter.packet.src] = NoRoute
    /\ Unlink(it)
    /\ wire' = <<>>
    /\ UNCHANGED <<m_cacheEntries, it, m_ifaces, crashed>>

\* Mutant: the iterator moves on, the request is not erased.
RequestKept ==
    /\ it \in DOMAIN m_arpRequests
    /\ Scanned.nTimesSent >= MAX_SENT_TIME
    /\ Scanned.packets = <<>>
    /\ it' = it + 1
    /\ wire' = <<>>
    /\ UNCHANGED <<m_cacheEntries, m_arpRequests, held, m_ifaces, crashed>>

\* Every packet of the request is done with: it is erased.
RequestErased ==
    /\ it \in DOMAIN m_arpRequests
    /\ Scanned.nTimesSent >= MAX_SENT_TIME
    /\ Scanned.packets = <<>>
    /\ Unlink(it)
    /\ wire' = <<>>
    /\ UNCHANGED <<m_cacheEntries, it, m_ifaces, crashed>>

\* Mutant: the next scan starts without releasing the mutex.
TickerKeepsMutex ==
    /\ it = Len(m_arpRequests) + 1
    /\ it' = 1
    /\ wire' = <<>>
    /\ UNCHANGED <<m_cacheEntries, m_arpRequests, held, m_ifaces, crashed>>

\* The scan is over: the mutex is released, and the thread sleeps for a second.
TickerSleeps ==
    /\ it = Len(m_arpRequests) + 1
    /\ it' = 0
    /\ wire' = <<>>
    /\ UNCHANGED <<m_cacheEntries, m_arpRequests, held, m_ifaces, crashed>>

GiveUpStep ==
    \/ WaiterTold
    \/ WaiterErrorQueued
    \/ WaiterUnroutable
    \/ RequestErased

TickerStep ==
    \/ TickerWakes
    \/ ResendRequest
    \/ GiveUpStep
    \/ TickerCrashes
    \/ TickerSleeps

-----------------------------------------------------------------------------
ArpInit ==
    /\ m_cacheEntries = <<>>
    /\ m_arpRequests = <<>>
    /\ it = 0
    /\ held = Null
    /\ m_ifaces = {}
    /\ wire = <<>>
    /\ crashed = FALSE

arpVars == <<m_cacheEntries, m_arpRequests, it, held, m_ifaces, wire, crashed>>

ArpTypeOK ==
    /\ m_cacheEntries \in Seq(ArpEntry)
    /\ m_arpRequests \in Seq(ArpRequest)
    /\ it \in 0..(Len(m_arpRequests) + 1)
    /\ held \in Held
    /\ m_ifaces \subseteq DOMAIN IfIp
    /\ wire \in Seq(Frame)
    /\ crashed \in BOOLEAN
=============================================================================
