------------------------- MODULE SimpleRouterProofs -------------------------
(***************************************************************************)
(* Proofs about the router, for every routing table, every traffic and     *)
(* every bound: types, and the safety of the ARP queue.                    *)
(***************************************************************************)
EXTENDS SimpleRouter, SequenceTheorems, WellFoundedInduction, TLAPS

-----------------------------------------------------------------------------
(* Sequences *)

\* A nonempty set of naturals has a least element: find_if stops somewhere.
LEMMA LeastPosition ==
    ASSUME NEW D \in SUBSET Nat, D # {}
    PROVE  \E i \in D : \A j \in D : i <= j
<1> DEFINE R == OpToRel(<, Nat)
<1>1. IsWellFoundedOn(R, Nat)
  BY NatLessThanWellFounded
<1>2. PICK i \in D : \A j \in D : ~ (<<j, i>> \in R)
  BY <1>1, WFMin
<1>3. \A j \in D : ~ (j < i)
  BY <1>2 DEF OpToRel
<1>4. QED
  BY <1>3

\* Erasing the element at position i moves the later ones down by one.
LEMMA WithoutProperties ==
    ASSUME NEW S, NEW s \in Seq(S), NEW i \in 1..Len(s)
    PROVE  /\ Without(s, i) \in Seq(S)
           /\ Len(Without(s, i)) = Len(s) - 1
           /\ \A j \in 1..(Len(s) - 1) :
                  Without(s, i)[j] = IF j < i THEN s[j] ELSE s[j + 1]
<1> DEFINE a == SubSeq(s, 1, i - 1)
           b == SubSeq(s, i + 1, Len(s))
<1>0. Len(s) \in Nat /\ \A j \in 1..Len(s) : s[j] \in S
  BY LenProperties, ElementOfSeq
<1>1. /\ a \in Seq(S)
      /\ Len(a) = i - 1
      /\ \A j \in 1..(i - 1) : a[j] = s[j]
  <2>1. \A j \in 1..(i - 1) : s[j] \in S
    BY <1>0
  <2>2. QED
    BY <1>0, <2>1, SubSeqProperties
<1>2. /\ b \in Seq(S)
      /\ Len(b) = Len(s) - i
      /\ \A j \in 1..(Len(s) - i) : b[j] = s[i + j]
  <2>1. \A j \in (i + 1)..Len(s) : s[j] \in S
    BY <1>0
  <2>2. /\ b \in Seq(S)
        /\ Len(b) = IF i + 1 <= Len(s) THEN Len(s) - (i + 1) + 1 ELSE 0
        /\ \A j \in 1..(Len(s) - (i + 1) + 1) : b[j] = s[(i + 1) + j - 1]
    BY <1>0, <2>1, SubSeqProperties
  <2>3. QED
    BY <1>0, <2>2
<1>3. /\ a \o b \in Seq(S)
      /\ Len(a \o b) = Len(a) + Len(b)
      /\ \A j \in 1..(Len(a) + Len(b)) :
             (a \o b)[j] = IF j <= Len(a) THEN a[j] ELSE b[j - Len(a)]
  BY <1>1, <1>2, ConcatProperties
<1> HIDE DEF a, b
<1>4. Without(s, i) = a \o b
  BY DEF Without, a, b
<1>5. ASSUME NEW j \in 1..(Len(s) - 1)
      PROVE  (a \o b)[j] = IF j < i THEN s[j] ELSE s[j + 1]
  <2>1. CASE j < i
    BY <1>0, <1>1, <1>2, <1>3, <2>1
  <2>2. CASE ~(j < i)
    <3>1. j - Len(a) \in 1..(Len(s) - i) /\ i + (j - Len(a)) = j + 1
      BY <1>0, <1>1, <2>2
    <3>2. (a \o b)[j] = b[j - Len(a)]
      BY <1>0, <1>1, <1>2, <1>3, <2>2
    <3>3. QED
      BY <1>2, <2>2, <3>1, <3>2
  <2>3. QED
    BY <2>1, <2>2
<1>6. QED
  BY <1>0, <1>1, <1>2, <1>3, <1>4, <1>5
-----------------------------------------------------------------------------
(* Lists of requests *)

Distinct(list) == \A i, j \in DOMAIN list : list[i].ip = list[j].ip => i = j
AllRouted(list) == \A i \in DOMAIN list : Routed(list[i].packets, list[i].ip)

\* Every request has a packet, but for one at position n that is given up.
Fronts(list, n) ==
    \A i \in DOMAIN list :
        list[i].packets = <<>> => i = n /\ list[i].nTimesSent >= MAX_SENT_TIME

\* The address lookup returns is one that some entry for ip holds.
LEMMA EntryMacFound ==
    ASSUME m_cacheEntries \in Seq(ArpEntry), NEW ip, HasEntry(ip)
    PROVE  \E i \in DOMAIN m_cacheEntries :
               m_cacheEntries[i].ip = ip /\ EntryMac(ip) = m_cacheEntries[i].mac
<1> DEFINE D == {i \in DOMAIN m_cacheEntries : m_cacheEntries[i].ip = ip}
           first(i) == /\ m_cacheEntries[i].ip = ip
                       /\ \A j \in 1..(i - 1) : m_cacheEntries[j].ip # ip
<1>1. DOMAIN m_cacheEntries = 1..Len(m_cacheEntries) /\ Len(m_cacheEntries) \in Nat
  BY LenProperties
<1>2. D \in SUBSET Nat /\ D # {}
  BY <1>1 DEF HasEntry
<1>3. PICK i \in D : \A j \in D : i <= j
  BY <1>2, LeastPosition
<1>4. i \in DOMAIN m_cacheEntries /\ first(i)
  BY <1>1, <1>3
<1>5. QED
  BY <1>4 DEF EntryMac

\* find_if ends at a request for ip when there is one.
LEMMA FindRequestFound ==
    ASSUME m_arpRequests \in Seq(ArpRequest), NEW ip, HasRequest(ip)
    PROVE  /\ FindRequest(ip) \in 1..Len(m_arpRequests)
           /\ m_arpRequests[FindRequest(ip)].ip = ip
<1> DEFINE D == {i \in DOMAIN m_arpRequests : m_arpRequests[i].ip = ip}
           first(i) == /\ m_arpRequests[i].ip = ip
                       /\ \A j \in 1..(i - 1) : m_arpRequests[j].ip # ip
<1>1. DOMAIN m_arpRequests = 1..Len(m_arpRequests) /\ Len(m_arpRequests) \in Nat
  BY LenProperties
<1>2. D \in SUBSET Nat /\ D # {}
  BY <1>1 DEF HasRequest
<1>3. PICK i \in D : \A j \in D : i <= j
  BY <1>2, LeastPosition
<1>4. i \in DOMAIN m_arpRequests /\ first(i)
  BY <1>1, <1>3
<1>5. QED
  BY <1>1, <1>4 DEF FindRequest

\* A packet added to a list of packets for ip.
LEMMA AppendRouted ==
    ASSUME NEW packets \in Seq(PendingPacket), NEW pending \in PendingPacket, NEW ip,
           Routed(packets, ip),
           RT[pending.packet.dst] = [gw |-> ip, ifName |-> pending.iface]
    PROVE  /\ Append(packets, pending) \in Seq(PendingPacket)
           /\ Append(packets, pending) # <<>>
           /\ Routed(Append(packets, pending), ip)
<1>1. /\ Append(packets, pending) \in Seq(PendingPacket)
      /\ Len(Append(packets, pending)) = Len(packets) + 1
      /\ \A k \in 1..Len(packets) : Append(packets, pending)[k] = packets[k]
      /\ Append(packets, pending)[Len(packets) + 1] = pending
  BY AppendProperties
<1>2. Len(packets) \in Nat /\ DOMAIN packets = 1..Len(packets)
  BY LenProperties
<1>3. DOMAIN Append(packets, pending) = 1..(Len(packets) + 1)
  BY <1>1, LenProperties
<1>4. Append(packets, pending) # <<>>
  BY <1>1, <1>2, EmptySeq
<1>5. QED
  BY <1>1, <1>2, <1>3, <1>4 DEF Routed

\* The first packet leaves a list of packets.
LEMMA TailRouted ==
    ASSUME NEW packets \in Seq(PendingPacket), NEW ip, packets # <<>>, Routed(packets, ip)
    PROVE  /\ Head(packets) \in PendingPacket
           /\ Tail(packets) \in Seq(PendingPacket)
           /\ RT[Head(packets).packet.dst] = [gw |-> ip, ifName |-> Head(packets).iface]
           /\ Routed(Tail(packets), ip)
<1>1. /\ Head(packets) \in PendingPacket
      /\ Tail(packets) \in Seq(PendingPacket)
      /\ Len(Tail(packets)) = Len(packets) - 1
      /\ \A k \in 1..Len(Tail(packets)) : Tail(packets)[k] = packets[k + 1]
  BY HeadTailProperties
<1>2. Len(packets) \in Nat \ {0} /\ DOMAIN packets = 1..Len(packets)
  BY LenProperties, EmptySeq
<1>3. DOMAIN Tail(packets) = 1..(Len(packets) - 1)
  BY <1>1, LenProperties
<1>4. Head(packets) = packets[1]
  OBVIOUS
<1>5. QED
  BY <1>1, <1>2, <1>3, <1>4 DEF Routed

\* What queueing a packet for its next hop does to a list with the requests of
\* m_arpRequests at their places.
LEMMA QueuedProperties ==
    ASSUME m_arpRequests \in Seq(ArpRequest),
           NEW requests \in Seq(ArpRequest), NEW n,
           Len(requests) = Len(m_arpRequests),
           \A i \in 1..Len(requests) : requests[i].ip = m_arpRequests[i].ip,
           Distinct(requests), AllRouted(requests), Fronts(requests, n),
           NEW ip \in IP, NEW pending \in PendingPacket,
           RT[pending.packet.dst] = [gw |-> ip, ifName |-> pending.iface]
    PROVE  LET q == Queued(requests, ip, pending)
           IN  /\ q \in Seq(ArpRequest)
               /\ Len(requests) <= Len(q)
               /\ Distinct(q)
               /\ AllRouted(q)
               /\ Fronts(q, n)
               /\ \A i \in 1..Len(q) : q[i].ip = ip \/ HasRequest(q[i].ip)
               /\ \A i \in 1..Len(requests) : q[i].ip = requests[i].ip
<1> DEFINE q == Queued(requests, ip, pending)
           fresh == [ip |-> ip, nTimesSent |-> 0, packets |-> <<pending>>]
<1>0. /\ Len(requests) \in Nat /\ DOMAIN requests = 1..Len(requests)
      /\ DOMAIN m_arpRequests = 1..Len(requests)
      /\ \A i \in 1..Len(requests) : requests[i] \in ArpRequest
  BY LenProperties, ElementOfSeq
<1>1. CASE HasRequest(ip)
  <2> DEFINE f == FindRequest(ip)
             more == [requests[f] EXCEPT !.packets = Append(@, pending)]
  <2>1. f \in 1..Len(requests) /\ requests[f].ip = ip
    BY <1>0, <1>1, FindRequestFound
  <2>2. /\ requests[f].packets \in Seq(PendingPacket)
        /\ Routed(requests[f].packets, ip)
    BY <1>0, <2>1 DEF AllRouted, ArpRequest
  <2>3. /\ Append(requests[f].packets, pending) \in Seq(PendingPacket)
        /\ Append(requests[f].packets, pending) # <<>>
        /\ Routed(Append(requests[f].packets, pending), ip)
    BY <2>2, AppendRouted
  <2>4. /\ more \in ArpRequest
        /\ more.ip = ip
        /\ more.packets # <<>>
        /\ Routed(more.packets, ip)
    BY <1>0, <2>1, <2>3 DEF ArpRequest
  <2>5. q = [requests EXCEPT ![f] = more]
    BY <1>1 DEF Queued
  <2> HIDE DEF more, f
  <2>6. /\ q \in Seq(ArpRequest)
        /\ Len(q) = Len(requests)
        /\ \A j \in 1..Len(requests) : q[j] = IF j = f THEN more ELSE requests[j]
    BY <2>1, <2>4, <2>5, ExceptSeq
  <2>7. DOMAIN q = 1..Len(requests)
    BY <2>6, LenProperties
  <2> HIDE DEF q
  <2>8. \A j \in 1..Len(requests) : q[j].ip = requests[j].ip
    BY <2>1, <2>4, <2>6
  <2>9. Distinct(q)
    BY <1>0, <2>7, <2>8 DEF Distinct
  <2>10. AllRouted(q)
    BY <1>0, <2>4, <2>6, <2>7 DEF AllRouted
  <2>11. Fronts(q, n)
    BY <1>0, <2>4, <2>6, <2>7 DEF Fronts
  <2>12. \A i \in 1..Len(q) : HasRequest(q[i].ip)
    BY <1>0, <2>6, <2>8 DEF HasRequest
  <2>13. QED
    BY <1>0, <2>6, <2>8, <2>9, <2>10, <2>11, <2>12 DEF q
<1>2. CASE ~HasRequest(ip)
  <2>1. /\ <<pending>> \in Seq(PendingPacket)
        /\ <<pending>> # <<>>
        /\ Routed(<<pending>>, ip)
    BY DEF Routed
  <2>2. fresh \in ArpRequest /\ fresh.ip = ip /\ fresh.packets = <<pending>>
    BY <2>1, ArpAssumption DEF ArpRequest
  <2>3. q = Append(requests, fresh)
    BY <1>2 DEF Queued
  <2> HIDE DEF fresh
  <2>4. /\ q \in Seq(ArpRequest)
        /\ Len(q) = Len(requests) + 1
        /\ \A j \in 1..Len(requests) : q[j] = requests[j]
        /\ q[Len(requests) + 1] = fresh
    BY <2>2, <2>3, AppendProperties
  <2>5. DOMAIN q = 1..(Len(requests) + 1)
    BY <2>4, LenProperties
  <2> HIDE DEF q
  <2>6. \A i \in 1..Len(requests) : requests[i].ip # ip /\ HasRequest(requests[i].ip)
    BY <1>0, <1>2 DEF HasRequest
  <2>7. Distinct(q)
    BY <1>0, <2>2, <2>4, <2>5, <2>6 DEF Distinct
  <2>8. AllRouted(q)
    BY <1>0, <2>1, <2>2, <2>4, <2>5 DEF AllRouted
  <2>9. Fronts(q, n)
    <3>1. q[Len(requests) + 1].packets # <<>>
      BY <2>1, <2>2, <2>4
    <3>2. \A i \in DOMAIN q : i \in DOMAIN requests \/ i = Len(requests) + 1
      BY <1>0, <2>5
    <3>3. \A i \in DOMAIN requests : q[i] = requests[i]
      BY <1>0, <2>4
    <3>4. QED
      BY <3>1, <3>2, <3>3 DEF Fronts
  <2>10. \A i \in 1..Len(q) : q[i].ip = ip \/ HasRequest(q[i].ip)
    BY <1>0, <2>2, <2>4, <2>6
  <2>11. QED
    BY <1>0, <2>4, <2>7, <2>8, <2>9, <2>10 DEF q
<1>3. QED
  BY <1>1, <1>2

\* What erasing one request does to such a list.
LEMMA WithoutRequest ==
    ASSUME NEW list \in Seq(ArpRequest), NEW i \in 1..Len(list),
           Distinct(list), AllRouted(list), Fronts(list, i)
    PROVE  LET w == Without(list, i)
           IN  /\ w \in Seq(ArpRequest)
               /\ Len(w) = Len(list) - 1
               /\ Distinct(w)
               /\ AllRouted(w)
               /\ \A n : Fronts(w, n)
               /\ \A j \in DOMAIN w : /\ w[j].ip # list[i].ip
                                      /\ \E k \in DOMAIN list : w[j].ip = list[k].ip
<1> DEFINE w == Without(list, i)
           at(j) == IF j < i THEN j ELSE j + 1
<1>1. Len(list) \in Nat /\ DOMAIN list = 1..Len(list)
  BY LenProperties
<1>2. /\ w \in Seq(ArpRequest)
      /\ Len(w) = Len(list) - 1
      /\ \A j \in 1..(Len(list) - 1) : w[j] = IF j < i THEN list[j] ELSE list[j + 1]
  BY WithoutProperties
<1>3. DOMAIN w = 1..(Len(list) - 1)
  BY <1>2, LenProperties
<1> HIDE DEF w
<1>4. \A j \in DOMAIN w : at(j) \in DOMAIN list /\ at(j) # i /\ w[j] = list[at(j)]
  BY <1>1, <1>2, <1>3
<1>5. \A j, k \in DOMAIN w : at(j) = at(k) => j = k
  BY <1>1, <1>3
<1> HIDE DEF at
<1>6. Distinct(w)
  BY <1>4, <1>5 DEF Distinct
<1>7. AllRouted(w)
  BY <1>4 DEF AllRouted
<1>8. \A n : Fronts(w, n)
  BY <1>4 DEF Fronts
<1>9. \A j \in DOMAIN w : /\ w[j].ip # list[i].ip
                          /\ \E k \in DOMAIN list : w[j].ip = list[k].ip
  BY <1>1, <1>4 DEF Distinct
<1>10. QED
  BY <1>2, <1>6, <1>7, <1>8, <1>9 DEF w
-----------------------------------------------------------------------------
(* Steps that leave the cache and the queue alone *)

\* What pc says of the call under way.
LEMMA HandlerShape ==
    ASSUME TypeOK
    PROVE  /\ handler.pc \in {"lookup", "queue"} => handler \in Forwarding
           /\ handler.pc \in {"insert", "remove"} => handler \in Resolving
           /\ handler.pc \in {"clear", "wipe", "fill"} => handler \in Resetting
BY DEF TypeOK, Idle, Forwarding, Resolving, Resetting

\* A step that sends nothing.
LEMMA SilentStep ==
    ASSUME wire' = <<>>
    PROVE  wire' \in Seq(Frame) /\ FramesRouted'
BY EmptySeq DEF FramesRouted

\* A step that sends one frame.
LEMMA OneFrameStep ==
    ASSUME NEW f \in Frame, wire' = <<f>>,
           f.type = "ip" => /\ RT[f.packet.dst] # NoRoute
                            /\ f.iface = RT[f.packet.dst].ifName
                            /\ Announced(RT[f.packet.dst].gw, f.dhost)
    PROVE  wire' \in Seq(Frame) /\ FramesRouted'
<1>1. wire' \in Seq(Frame) /\ DOMAIN wire' = {1} /\ wire'[1] = f
  OBVIOUS
<1>2. QED
  BY <1>1 DEF FramesRouted, Announced

\* The call under way may change, but a reply is being handled after the step
\* exactly if it was before.
LEMMA HandlerMoves ==
    ASSUME IInv,
           UNCHANGED <<m_cacheEntries, m_arpRequests, it, held>>,
           handler'.pc = "remove" <=> handler.pc = "remove",
           handler.pc = "remove" => handler'.ip = handler.ip,
           handler'.pc \in {"insert", "remove"} => Announced(handler'.ip, handler'.mac),
           handler'.pc \in {"lookup", "queue"} => RT[handler'.packet.dst] = handler'.next_hop,
           handler'.pc = "queue" => ~HasEntry(handler'.next_hop.gw),
           TypeOK', FramesRouted'
    PROVE  IInv'
<1>1. UniqueRequests'
  BY DEF IInv, UniqueRequests
<1>2. FrontExists'
  BY DEF IInv, FrontExists
<1>3. QueueRouted'
  BY DEF IInv, QueueRouted, Routed
<1>4. \A ip : (HasEntry(ip)' <=> HasEntry(ip)) /\ (HasRequest(ip)' <=> HasRequest(ip))
  BY DEF HasEntry, HasRequest
<1>5. NoneStranded'
  BY <1>4 DEF IInv, NoneStranded
<1>6. HandlerRouted'
  BY <1>4 DEF HandlerRouted, HasEntry
<1>7. HeldByHandler'
  BY <1>4 DEF IInv, HeldByHandler, Routed
<1>8. RemovalPending'
  BY <1>4 DEF IInv, RemovalPending, HasEntry, HasRequest
<1>9. OnlyAnnounced'
  BY DEF IInv, OnlyAnnounced, Announced
<1>10. QED
  BY <1>1, <1>2, <1>3, <1>5, <1>6, <1>7, <1>8, <1>9 DEF IInv

\* Where forwardPacket leaves the call that made it.
LEMMA ForwardPacketMoves ==
    ASSUME NEW packet \in Packet, NEW own \in IP, forwardPacket(packet, own)
    PROVE  /\ handler' \in {Idle} \cup Forwarding
           /\ handler'.pc \in {"idle", "lookup"}
           /\ handler'.pc = "lookup" => RT[handler'.packet.dst] = handler'.next_hop
<1> DEFINE sent == IF IsMine(packet.dst) \/ RT[packet.dst] # NoRoute
                   THEN packet
                   ELSE IcmpError("host_unreachable", own, packet.src)
<1>1. sent \in Packet
  BY DEF Packet, IcmpError, Kind
<1>2. handler' = IF IsMine(sent.dst) \/ RT[sent.dst] = NoRoute
                 THEN Idle
                 ELSE [pc |-> "lookup", packet |-> sent, next_hop |-> RT[sent.dst]]
  BY DEF forwardPacket
<1> HIDE DEF sent
<1>3. RT[sent.dst] # NoRoute => RT[sent.dst] \in Route
  BY <1>1, ArpAssumption DEF Packet
<1>4. QED
  BY <1>1, <1>2, <1>3 DEF Idle, Forwarding

\* Any packet the router takes in ends the same way.
LEMMA PacketTakenIn ==
    ASSUME IInv, handler = Idle,
           NEW packet \in Packet, NEW own \in IP, forwardPacket(packet, own),
           wire' = <<>>,
           UNCHANGED <<m_cacheEntries, m_arpRequests, it, held, m_ifaces, crashed, main>>
    PROVE  IInv'
<1>1. /\ handler' \in {Idle} \cup Forwarding
      /\ handler'.pc \in {"idle", "lookup"}
      /\ handler'.pc = "lookup" => RT[handler'.packet.dst] = handler'.next_hop
  BY ForwardPacketMoves
<1>2. TypeOK'
  BY <1>1, SilentStep DEF IInv, TypeOK, ArpTypeOK
<1>3. handler.pc = "idle"
  BY DEF Idle
<1>4. QED
  BY <1>1, <1>2, <1>3, HandlerMoves, SilentStep

\* A frame handed to handlePacket.
LEMMA HandlePacketKeeps ==
    ASSUME IInv, NEW f \in Arrivals, HandlePacket(f)
    PROVE  IInv'
<1>1. f \in Arrival /\ handler = Idle /\ handler.pc = "idle"
  BY RouterAssumption DEF HandlePacket, IgnoreFrame, AnswerArp, ReceiveArpReply, AnswerEcho,
     RefusePort, ReportExpired, ForwardIp, ArrivesIp, Arrives, Idle
<1>2. f.type = "ip" => f.packet \in Packet
  BY <1>1 DEF Arrival
<1>3. f.iface \in m_ifaces => IfIp[f.iface] \in IP
  BY ArpAssumption DEF IInv, TypeOK, ArpTypeOK
<1>4. CASE IgnoreFrame(f)
  <2>1. TypeOK'
    BY <1>4, SilentStep DEF IgnoreFrame, IInv, TypeOK, ArpTypeOK
  <2>2. QED
    BY <1>1, <1>4, <2>1, HandlerMoves, SilentStep DEF IgnoreFrame
<1>5. CASE AnswerArp(f)
  <2>1. [type |-> "arp_reply", iface |-> f.iface, shost |-> f.iface, dhost |-> f.sha] \in Frame
    BY <1>1, <1>5 DEF AnswerArp, Arrival, Frame
  <2>2. wire' \in Seq(Frame) /\ FramesRouted'
    BY <1>5, <2>1, OneFrameStep DEF AnswerArp
  <2>3. TypeOK'
    BY <1>5, <2>2 DEF AnswerArp, IInv, TypeOK, ArpTypeOK
  <2>4. QED
    BY <1>1, <1>5, <2>2, <2>3, HandlerMoves DEF AnswerArp
<1>6. CASE ReceiveArpReply(f)
  <2>1. /\ f.iface \in Iface /\ f.sip \in IP /\ f.sha \in MAC
        /\ Announced(f.sip, f.sha)
    BY <1>1, <1>6 DEF ReceiveArpReply, Arrival, Announced
  <2>2. handler' = [pc |-> "insert", iface |-> f.iface, ip |-> f.sip, mac |-> f.sha]
    BY <1>6 DEF ReceiveArpReply
  <2>3. handler' \in Resolving
    BY <2>1, <2>2 DEF Resolving
  <2>4. TypeOK'
    BY <1>6, <2>3, SilentStep DEF ReceiveArpReply, IInv, TypeOK, ArpTypeOK
  <2>5. QED
    BY <1>1, <1>6, <2>1, <2>2, <2>4, HandlerMoves, SilentStep DEF ReceiveArpReply
<1>7. CASE AnswerEcho(f)
  <2>1. EchoReply(f.packet.dst, f.packet.src) \in Packet /\ f.packet.dst \in IP
    BY <1>2, <1>7 DEF AnswerEcho, ArrivesIp, EchoReply, Packet, Kind
  <2>2. QED
    BY <1>1, <1>7, <2>1, PacketTakenIn DEF AnswerEcho
<1>8. CASE RefusePort(f)
  <2>1. IcmpError("port_unreachable", f.packet.dst, f.packet.src) \in Packet /\ f.packet.dst \in IP
    BY <1>2, <1>8 DEF RefusePort, ArrivesIp, IcmpError, Packet, Kind
  <2>2. QED
    BY <1>1, <1>8, <2>1, PacketTakenIn DEF RefusePort
<1>9. CASE ReportExpired(f)
  <2>1. IfIp[f.iface] \in IP /\ IcmpError("time_exceeded", IfIp[f.iface], f.packet.src) \in Packet
    BY <1>2, <1>3, <1>9 DEF ReportExpired, ArrivesIp, ForMe, IcmpError, Packet, Kind
  <2>2. QED
    BY <1>1, <1>9, <2>1, PacketTakenIn DEF ReportExpired
<1>10. CASE ForwardIp(f)
  <2>1. IfIp[f.iface] \in IP /\ f.packet \in Packet /\ f.packet.ttl \notin {0, 1}
    BY <1>2, <1>3, <1>10 DEF ForwardIp, ArrivesIp, ForMe
  <2>2. f.packet.ttl - 1 \in 0..255
    BY <2>1 DEF Packet
  <2>3. [f.packet EXCEPT !.ttl = @ - 1] \in Packet
    BY <2>1, <2>2 DEF Packet
  <2>4. QED
    BY <1>1, <1>10, <2>1, <2>3, PacketTakenIn DEF ForwardIp
<1>11. QED
  BY <1>4, <1>5, <1>6, <1>7, <1>8, <1>9, <1>10 DEF HandlePacket
-----------------------------------------------------------------------------
(* The rest of a call *)

LEMMA LookupHitKeeps ==
    ASSUME IInv, LookupHit
    PROVE  IInv'
<1> DEFINE gw == handler.next_hop.gw
           frame == IpFrame(handler.next_hop.ifName, handler.next_hop.ifName,
                            EntryMac(gw), handler.packet)
<1>1. /\ handler \in Forwarding
      /\ RT[handler.packet.dst] = handler.next_hop
      /\ handler.next_hop \in Route
  BY HandlerShape DEF IInv, LookupHit, HandlerRouted, Forwarding
<1>2. PICK i \in DOMAIN m_cacheEntries :
          m_cacheEntries[i].ip = gw /\ EntryMac(gw) = m_cacheEntries[i].mac
  BY EntryMacFound DEF LookupHit, IInv, TypeOK, ArpTypeOK
<1>3. EntryMac(gw) \in MAC /\ Announced(gw, EntryMac(gw))
  <2>1. m_cacheEntries[i] \in ArpEntry
    BY ElementOfSeq, LenProperties DEF IInv, TypeOK, ArpTypeOK
  <2>2. QED
    BY <1>2, <2>1 DEF ArpEntry, IInv, OnlyAnnounced
<1>4. frame \in Frame
  BY <1>1, <1>3 DEF Frame, IpFrame, Forwarding, Route
<1>5. /\ frame.type = "ip" /\ frame.packet = handler.packet
      /\ frame.iface = handler.next_hop.ifName /\ frame.dhost = EntryMac(gw)
  BY DEF IpFrame
<1>6. wire' = <<frame>>
  BY DEF LookupHit
<1>7. RT[frame.packet.dst] # NoRoute
  BY <1>1, <1>5, ArpAssumption
<1> HIDE DEF frame
<1>8. wire' \in Seq(Frame) /\ FramesRouted'
  BY <1>1, <1>3, <1>4, <1>5, <1>6, <1>7, OneFrameStep
<1>9. TypeOK'
  BY <1>8 DEF LookupHit, IInv, TypeOK, ArpTypeOK
<1>10. QED
  BY <1>8, <1>9, HandlerMoves DEF LookupHit, Idle

LEMMA LookupMissKeeps ==
    ASSUME IInv, LookupMiss
    PROVE  IInv'
<1>1. handler \in Forwarding /\ RT[handler.packet.dst] = handler.next_hop
  BY HandlerShape DEF IInv, LookupMiss, HandlerRouted
<1>2. /\ handler' \in Forwarding
      /\ handler'.pc = "queue"
      /\ handler'.packet = handler.packet /\ handler'.next_hop = handler.next_hop
  BY <1>1 DEF LookupMiss, Forwarding
<1>3. TypeOK'
  BY <1>2, SilentStep DEF LookupMiss, IInv, TypeOK, ArpTypeOK
<1>4. QED
  BY <1>1, <1>2, <1>3, HandlerMoves, SilentStep DEF LookupMiss

LEMMA LookupCrashesKeeps ==
    ASSUME IInv, LookupCrashes
    PROVE  IInv'
<1>1. TypeOK'
  BY SilentStep DEF LookupCrashes, IInv, TypeOK, ArpTypeOK
<1>2. QED
  BY <1>1, HandlerMoves, SilentStep DEF LookupCrashes, IInv, HandlerRouted

\* A packet for a next hop whose address the cache does not have joins the queue.
\* requests is the list it joins, n the position of the ticker.
LEMMA QueueKeeps ==
    ASSUME IInv, crashed' \in BOOLEAN, wire' = <<>>,
           UNCHANGED <<m_cacheEntries, it, m_ifaces>>,
           NEW requests \in Seq(ArpRequest),
           Len(requests) = Len(m_arpRequests),
           \A i \in 1..Len(requests) : requests[i].ip = m_arpRequests[i].ip,
           Distinct(requests), AllRouted(requests), Fronts(requests, it),
           NEW ip \in IP, NEW pending \in PendingPacket, ~HasEntry(ip),
           RT[pending.packet.dst] = [gw |-> ip, ifName |-> pending.iface],
           m_arpRequests' = Queued(requests, ip, pending),
           held' = HeldQueued(ip, pending)
    PROVE  /\ ArpTypeOK'
           /\ UniqueRequests' /\ FrontExists' /\ QueueRouted'
           /\ FramesRouted'
           /\ \A h : HasRequest(h) => HasRequest(h)'
           /\ \A h : HasRequest(h)' /\ HasEntry(h)' => HasRequest(h) /\ HasEntry(h)
           /\ held'.ip = held.ip /\ held'.linked = held.linked
           /\ held'.packets # <<>> => held.linked \/ held.packets # <<>>
           /\ Routed(held'.packets, held'.ip)
<1>0. m_arpRequests \in Seq(ArpRequest) /\ it \in 0..(Len(m_arpRequests) + 1) /\ held \in Held
  BY DEF IInv, TypeOK, ArpTypeOK
<1>1. /\ m_arpRequests' \in Seq(ArpRequest)
      /\ Len(requests) <= Len(m_arpRequests')
      /\ Distinct(m_arpRequests')
      /\ AllRouted(m_arpRequests')
      /\ Fronts(m_arpRequests', it)
      /\ \A i \in 1..Len(m_arpRequests') :
             m_arpRequests'[i].ip = ip \/ HasRequest(m_arpRequests'[i].ip)
      /\ \A i \in 1..Len(requests) : m_arpRequests'[i].ip = requests[i].ip
  BY <1>0, QueuedProperties
<1>2. /\ DOMAIN m_arpRequests = 1..Len(m_arpRequests)
      /\ DOMAIN m_arpRequests' = 1..Len(m_arpRequests')
      /\ Len(m_arpRequests) \in Nat /\ Len(m_arpRequests') \in Nat
  BY <1>0, <1>1, LenProperties
<1>3. /\ held' \in Held
      /\ held'.ip = held.ip /\ held'.linked = held.linked
      /\ held'.packets # <<>> => held.linked \/ held.packets # <<>>
      /\ Routed(held'.packets, held'.ip)
  <2>1. held.packets \in Seq(PendingPacket) /\ Routed(held.packets, held.ip)
    BY <1>0 DEF Held, IInv, HeldByHandler
  <2>2. CASE held.ip = ip /\ held.linked
    <3>1. /\ Append(held.packets, pending) \in Seq(PendingPacket)
          /\ Routed(Append(held.packets, pending), ip)
      BY <2>1, <2>2, AppendRouted
    <3>2. QED
      BY <1>0, <2>2, <3>1 DEF HeldQueued, Held
  <2>3. CASE ~(held.ip = ip /\ held.linked)
    BY <1>0, <2>1, <2>3 DEF HeldQueued
  <2>4. QED
    BY <2>2, <2>3
<1>4. ArpTypeOK'
  <2>1. it' \in 0..(Len(m_arpRequests') + 1)
    BY <1>0, <1>1, <1>2
  <2>2. QED
    BY <1>1, <1>3, <2>1, SilentStep DEF IInv, TypeOK, ArpTypeOK
<1>5. \A h : HasRequest(h) => HasRequest(h)'
  BY <1>1, <1>2 DEF HasRequest
<1>6. \A h : HasRequest(h)' /\ HasEntry(h)' => HasRequest(h) /\ HasEntry(h)
  BY <1>1, <1>2 DEF HasRequest, HasEntry
<1>7. UniqueRequests' /\ FrontExists' /\ QueueRouted'
  BY <1>1 DEF Distinct, AllRouted, Fronts, UniqueRequests, FrontExists, QueueRouted, Routed
<1>8. QED
  BY <1>3, <1>4, <1>5, <1>6, <1>7, SilentStep

\* The queue of an IInv state in terms of lists.
LEMMA QueueAsList ==
    ASSUME IInv
    PROVE  /\ m_arpRequests \in Seq(ArpRequest)
           /\ Distinct(m_arpRequests) /\ AllRouted(m_arpRequests) /\ Fronts(m_arpRequests, it)
           /\ Len(m_arpRequests) \in Nat
           /\ DOMAIN m_arpRequests = 1..Len(m_arpRequests)
           /\ \A i \in DOMAIN m_arpRequests : m_arpRequests[i] \in ArpRequest
BY ElementOfSeq, LenProperties
   DEF IInv, TypeOK, ArpTypeOK, UniqueRequests, FrontExists, QueueRouted, Distinct, AllRouted, Fronts

LEMMA QueuePacketKeeps ==
    ASSUME IInv, QueuePacket
    PROVE  IInv'
<1> DEFINE pending == [packet |-> handler.packet, iface |-> handler.next_hop.ifName]
           gw == handler.next_hop.gw
<1>1. /\ handler \in Forwarding /\ handler.pc = "queue"
      /\ RT[handler.packet.dst] = handler.next_hop
      /\ ~HasEntry(gw)
  BY HandlerShape DEF IInv, QueuePacket, HandlerRouted
<1>2. /\ gw \in IP
      /\ pending \in PendingPacket
      /\ RT[pending.packet.dst] = [gw |-> gw, ifName |-> pending.iface]
  BY <1>1 DEF Forwarding, Route, PendingPacket
<1>3. /\ m_arpRequests' = Queued(m_arpRequests, gw, pending)
      /\ held' = HeldQueued(gw, pending)
      /\ handler' = Idle
      /\ wire' = <<>>
      /\ UNCHANGED <<m_cacheEntries, it, m_ifaces, crashed, main>>
  BY DEF QueuePacket
<1>4. crashed' \in BOOLEAN
  BY <1>3 DEF IInv, TypeOK, ArpTypeOK
<1> HIDE DEF pending, gw
<1>5. /\ ArpTypeOK'
      /\ UniqueRequests' /\ FrontExists' /\ QueueRouted'
      /\ FramesRouted'
      /\ \A h : HasRequest(h) => HasRequest(h)'
      /\ \A h : HasRequest(h)' /\ HasEntry(h)' => HasRequest(h) /\ HasEntry(h)
      /\ held'.ip = held.ip /\ held'.linked = held.linked
      /\ held'.packets # <<>> => held.linked \/ held.packets # <<>>
      /\ Routed(held'.packets, held'.ip)
  BY <1>1, <1>2, <1>3, <1>4, QueueAsList, QueueKeeps
<1>6. ~held.linked /\ held.packets = <<>>
  BY <1>1 DEF IInv, HeldByHandler
<1>7. TypeOK'
  BY <1>3, <1>5 DEF IInv, TypeOK
<1>8. NoneStranded'
  BY <1>1, <1>5 DEF IInv, NoneStranded
<1>9. HeldByHandler'
  BY <1>5, <1>6 DEF HeldByHandler, Routed
<1>10. HandlerRouted' /\ RemovalPending'
  BY <1>3 DEF HandlerRouted, RemovalPending, Idle
<1>11. OnlyAnnounced'
  BY <1>3 DEF IInv, OnlyAnnounced, Announced, Idle
<1>12. QED
  BY <1>5, <1>7, <1>8, <1>9, <1>10, <1>11 DEF IInv
\* The mapping of a reply enters the cache; the call holds the request, if any.
LEMMA InsertEntryKeeps ==
    ASSUME IInv, InsertEntry
    PROVE  IInv'
<1> DEFINE entry == [ip |-> handler.ip, mac |-> handler.mac, age |-> 0]
           ip == handler.ip
<1>1. /\ handler \in Resolving /\ handler.pc = "insert"
      /\ handler' \in Resolving /\ handler'.pc = "remove"
      /\ handler'.ip = handler.ip /\ handler'.mac = handler.mac
  BY HandlerShape DEF IInv, InsertEntry, Resolving
<1>2. /\ m_cacheEntries' = Append(m_cacheEntries, entry)
      /\ held' = IF HasRequest(ip)
                 THEN [ip |-> ip, packets |-> m_arpRequests[FindRequest(ip)].packets,
                       linked |-> TRUE]
                 ELSE Null
      /\ wire' = <<>>
      /\ UNCHANGED <<m_arpRequests, it, m_ifaces, crashed, main>>
  BY DEF InsertEntry, insertArpEntry
<1>3. /\ m_cacheEntries' \in Seq(ArpEntry)
      /\ DOMAIN m_cacheEntries' = 1..(Len(m_cacheEntries) + 1)
      /\ \A i \in 1..Len(m_cacheEntries) : m_cacheEntries'[i] = m_cacheEntries[i]
      /\ m_cacheEntries'[Len(m_cacheEntries) + 1] = entry
  <2>1. entry \in ArpEntry
    BY <1>1, ArpAssumption DEF Resolving, ArpEntry
  <2>2. m_cacheEntries \in Seq(ArpEntry)
    BY DEF IInv, TypeOK, ArpTypeOK
  <2> HIDE DEF entry
  <2>3. QED
    BY <1>2, <2>1, <2>2, AppendProperties, LenProperties
<1>4. /\ DOMAIN m_cacheEntries = 1..Len(m_cacheEntries)
      /\ Len(m_cacheEntries) \in Nat
  BY LenProperties DEF IInv, TypeOK, ArpTypeOK
<1>5. /\ held' \in Held
      /\ Routed(held'.packets, held'.ip)
      /\ HasRequest(ip) => held'.ip = ip /\ held'.linked
      /\ ~HasRequest(ip) => held'.packets = <<>> /\ ~held'.linked
  <2>1. CASE HasRequest(ip)
    <3>1. FindRequest(ip) \in DOMAIN m_arpRequests /\ m_arpRequests[FindRequest(ip)].ip = ip
      BY <2>1, FindRequestFound, QueueAsList
    <3>2. /\ m_arpRequests[FindRequest(ip)].packets \in Seq(PendingPacket)
          /\ Routed(m_arpRequests[FindRequest(ip)].packets, ip)
      BY <3>1, QueueAsList DEF AllRouted, ArpRequest
    <3>3. ip \in IP
      BY <1>1 DEF Resolving
    <3>4. QED
      BY <1>2, <2>1, <3>2, <3>3 DEF Held
  <2>2. CASE ~HasRequest(ip)
    <3>1. <<>> \in Seq(PendingPacket) /\ (CHOOSE h \in IP : TRUE) \in IP
      BY ArpAssumption, EmptySeq
    <3>2. Null \in Held /\ Routed(Null.packets, Null.ip) /\ Null.packets = <<>> /\ ~Null.linked
      BY <3>1 DEF Null, Held, Routed
    <3>3. QED
      BY <1>2, <2>2, <3>2
  <2>3. QED
    BY <2>1, <2>2
<1>6. \A h : HasRequest(h)' <=> HasRequest(h)
  BY <1>2 DEF HasRequest
<1>7. \A h : HasEntry(h)' => HasEntry(h) \/ h = ip
  BY <1>3, <1>4 DEF HasEntry
<1>8. TypeOK'
  BY <1>1, <1>2, <1>3, <1>5, SilentStep DEF IInv, TypeOK, ArpTypeOK
<1>9. UniqueRequests' /\ FrontExists' /\ QueueRouted'
  BY <1>2 DEF IInv, UniqueRequests, FrontExists, QueueRouted, Routed
<1>10. NoneStranded'
  BY <1>1, <1>6, <1>7 DEF IInv, NoneStranded
<1>11. HandlerRouted'
  BY <1>1 DEF HandlerRouted
<1>12. HeldByHandler'
  BY <1>1, <1>5, <1>6 DEF HeldByHandler, Routed
<1>13. RemovalPending'
  BY <1>1, <1>5, <1>6 DEF RemovalPending
<1>14. OnlyAnnounced'
  <2>1. Announced(handler.ip, handler.mac)
    BY <1>1 DEF IInv, OnlyAnnounced
  <2>2. QED
    BY <1>1, <1>3, <1>4, <2>1 DEF IInv, OnlyAnnounced, Announced
<1>15. QED
  BY <1>2, <1>8, <1>9, <1>10, <1>11, <1>12, <1>13, <1>14, SilentStep DEF IInv

\* The request leaves the queue, and its packets go to the address just learnt.
LEMMA RemoveAndSendKeeps ==
    ASSUME IInv, RemoveAndSend
    PROVE  IInv'
<1> DEFINE frame(i) == IpFrame(held.packets[i].iface, handler.iface, handler.mac,
                               held.packets[i].packet)
<1>1. handler \in Resolving /\ handler.pc = "remove" /\ it = 0 /\ held \in Held
  BY HandlerShape DEF IInv, RemoveAndSend, MutexFree, TypeOK, ArpTypeOK
<1>2. /\ wire' = [i \in DOMAIN held.packets |-> frame(i)]
      /\ m_arpRequests' = IF held.linked
                          THEN Without(m_arpRequests, FindRequest(held.ip))
                          ELSE m_arpRequests
      /\ held' = Null
      /\ handler' = Idle
      /\ UNCHANGED <<m_cacheEntries, it, m_ifaces, crashed, main>>
  BY DEF RemoveAndSend, removeRequest
<1>3. wire' \in Seq(Frame) /\ FramesRouted'
  <2>1. /\ held.packets \in Seq(PendingPacket)
        /\ Len(held.packets) \in Nat
        /\ DOMAIN held.packets = 1..Len(held.packets)
        /\ \A i \in DOMAIN held.packets : held.packets[i] \in PendingPacket
    BY <1>1, LenProperties, ElementOfSeq DEF Held
  <2>2. ASSUME NEW i \in DOMAIN held.packets
        PROVE  /\ frame(i) \in Frame
               /\ RT[frame(i).packet.dst] # NoRoute
               /\ frame(i).iface = RT[frame(i).packet.dst].ifName
               /\ Announced(RT[frame(i).packet.dst].gw, frame(i).dhost)
    <3>1. held.packets # <<>>
      BY <2>1
    <3>2. /\ held.ip = handler.ip
          /\ Announced(handler.ip, handler.mac)
          /\ RT[held.packets[i].packet.dst] = [gw |-> held.ip, ifName |-> held.packets[i].iface]
      BY <1>1, <2>2, <3>1 DEF IInv, HeldByHandler, OnlyAnnounced, Routed
    <3>3. held.packets[i] \in PendingPacket
      BY <2>1
    <3>4. frame(i) \in Frame
      BY <1>1, <3>3 DEF IpFrame, Frame, PendingPacket, Resolving
    <3>5. [gw |-> held.ip, ifName |-> held.packets[i].iface] \in Route
      BY <1>1, <3>3 DEF Held, PendingPacket, Route
    <3>6. RT[held.packets[i].packet.dst] # NoRoute
      BY <3>2, <3>5, ArpAssumption
    <3>7. QED
      BY <3>2, <3>4, <3>6 DEF IpFrame
  <2> HIDE DEF frame
  <2>3. wire' \in Seq(Frame)
    BY <1>2, <2>1, <2>2
  <2>4. FramesRouted'
    BY <1>2, <2>2 DEF FramesRouted, Announced
  <2>5. QED
    BY <2>3, <2>4
<1>4. /\ m_arpRequests' \in Seq(ArpRequest)
      /\ Distinct(m_arpRequests') /\ AllRouted(m_arpRequests') /\ Fronts(m_arpRequests', it)
      /\ \A h : HasRequest(h)' => HasRequest(h) /\ (held.linked => h # held.ip)
  <2>1. CASE held.linked
    <3> DEFINE f == FindRequest(held.ip)
    <3>1. f \in 1..Len(m_arpRequests) /\ m_arpRequests[f].ip = held.ip
      BY <2>1, FindRequestFound, QueueAsList DEF IInv, HeldByHandler
    <3>2. Fronts(m_arpRequests, f)
      BY <1>1, QueueAsList DEF Fronts
    <3>3. m_arpRequests' = Without(m_arpRequests, f)
      BY <1>2, <2>1
    <3> HIDE DEF f
    <3>4. /\ m_arpRequests' \in Seq(ArpRequest)
          /\ Distinct(m_arpRequests') /\ AllRouted(m_arpRequests')
          /\ \A n : Fronts(m_arpRequests', n)
          /\ \A j \in DOMAIN m_arpRequests' :
                 /\ m_arpRequests'[j].ip # m_arpRequests[f].ip
                 /\ \E k \in DOMAIN m_arpRequests : m_arpRequests'[j].ip = m_arpRequests[k].ip
      BY <3>1, <3>2, <3>3, QueueAsList, WithoutRequest
    <3>5. \A h : HasRequest(h)' => HasRequest(h) /\ h # held.ip
      BY <3>1, <3>4 DEF HasRequest
    <3>6. QED
      BY <3>4, <3>5
  <2>2. CASE ~held.linked
    BY <1>2, <2>2, QueueAsList DEF HasRequest
  <2>3. QED
    BY <2>1, <2>2
<1>5. Null \in Held /\ Null.packets = <<>> /\ ~Null.linked /\ Routed(Null.packets, Null.ip)
  <2>1. <<>> \in Seq(PendingPacket) /\ (CHOOSE h \in IP : TRUE) \in IP
    BY ArpAssumption, EmptySeq
  <2>2. QED
    BY <2>1 DEF Null, Held, Routed
<1>6. TypeOK'
  <2>1. Len(m_arpRequests') \in Nat
    BY <1>4, LenProperties
  <2>2. it' \in 0..(Len(m_arpRequests') + 1)
    BY <1>1, <1>2, <2>1
  <2>3. QED
    BY <1>2, <1>3, <1>4, <1>5, <2>2 DEF IInv, TypeOK, ArpTypeOK
<1>7. UniqueRequests' /\ FrontExists' /\ QueueRouted'
  BY <1>2, <1>4 DEF Distinct, AllRouted, Fronts, UniqueRequests, FrontExists, QueueRouted, Routed
<1>8. NoneStranded'
  <2>1. ASSUME NEW h \in IP, HasRequest(h)', HasEntry(h)'
        PROVE  FALSE
    <3>1. HasRequest(h) /\ HasEntry(h) /\ (held.linked => h # held.ip)
      BY <1>2, <1>4, <2>1 DEF HasEntry
    <3>2. h = handler.ip
      BY <3>1 DEF IInv, NoneStranded
    <3>3. held.linked /\ held.ip = handler.ip
      BY <1>1, <3>1, <3>2 DEF IInv, RemovalPending, HeldByHandler
    <3>4. QED
      BY <3>1, <3>2, <3>3
  <2>2. QED
    BY <2>1 DEF NoneStranded
<1>9. HandlerRouted' /\ RemovalPending'
  BY <1>2 DEF HandlerRouted, RemovalPending, Idle
<1>10. HeldByHandler'
  BY <1>2, <1>5 DEF HeldByHandler, Routed
<1>11. OnlyAnnounced'
  BY <1>2 DEF IInv, OnlyAnnounced, Announced, Idle
<1>12. QED
  BY <1>3, <1>6, <1>7, <1>8, <1>9, <1>10, <1>11 DEF IInv
-----------------------------------------------------------------------------
(* reset *)

\* The cache and the queue are emptied by a thread, which moves on; the call of
\* the other thread stays where it is.
LEMMA ClearsKeep ==
    ASSUME IInv, Clears,
           handler' = handler \/ (handler'.pc = "wipe" /\ handler.pc = "clear"),
           handler' \in {Idle} \cup Forwarding \cup Resolving \cup Resetting,
           main' \in [pc : {"clear", "wipe", "fill", "running"}, ports : SUBSET Iface]
    PROVE  IInv'
<1>1. /\ it = 0
      /\ m_cacheEntries' = <<>> /\ m_arpRequests' = <<>>
      /\ held' = [held EXCEPT !.linked = FALSE]
      /\ wire' = <<>>
      /\ UNCHANGED <<it, m_ifaces, crashed>>
  BY DEF Clears, clear, MutexFree
<1>2. /\ held' \in Held
      /\ held'.ip = held.ip /\ held'.packets = held.packets /\ ~held'.linked
  BY <1>1 DEF IInv, TypeOK, ArpTypeOK, Held
<1>3. /\ m_cacheEntries' \in Seq(ArpEntry) /\ m_arpRequests' \in Seq(ArpRequest)
      /\ Len(m_arpRequests') = 0
      /\ DOMAIN m_arpRequests' = {} /\ DOMAIN m_cacheEntries' = {}
  BY <1>1, EmptySeq
<1>4. TypeOK'
  BY <1>1, <1>2, <1>3, SilentStep DEF IInv, TypeOK, ArpTypeOK
<1>5. \A h : ~HasEntry(h)' /\ ~HasRequest(h)'
  BY <1>3 DEF HasEntry, HasRequest
<1>6. UniqueRequests' /\ FrontExists' /\ QueueRouted'
  BY <1>3 DEF UniqueRequests, FrontExists, QueueRouted
<1>7. NoneStranded' /\ RemovalPending'
  BY <1>5 DEF NoneStranded, RemovalPending
<1>8. HandlerRouted'
  BY <1>5 DEF IInv, HandlerRouted
<1>9. HeldByHandler'
  <2>1. Routed(held'.packets, held'.ip)
    BY <1>2 DEF IInv, HeldByHandler
  <2>2. held'.packets # <<>> => handler'.pc = "remove" /\ held'.ip = handler'.ip
    BY <1>2 DEF IInv, HeldByHandler
  <2>3. QED
    BY <1>2, <2>1, <2>2 DEF HeldByHandler, Routed
<1>10. OnlyAnnounced'
  BY <1>3 DEF IInv, OnlyAnnounced, Announced
<1>11. QED
  BY <1>1, <1>4, <1>6, <1>7, <1>8, <1>9, <1>10, SilentStep DEF IInv

LEMMA DispatchResetKeeps ==
    ASSUME IInv,
           \/ \E ports \in Ports : ResetRouter(ports)
           \/ DispatchClears
           \/ DispatchWipes
           \/ DispatchFills
    PROVE  IInv'
<1>1. ASSUME NEW ports \in Ports, ResetRouter(ports)
      PROVE  IInv'
  <2>1. handler' = [pc |-> "clear", ports |-> ports] /\ handler' \in Resetting
    BY <1>1, RouterAssumption DEF ResetRouter, Resetting
  <2>2. TypeOK'
    BY <1>1, <2>1, SilentStep DEF ResetRouter, IInv, TypeOK, ArpTypeOK
  <2>3. QED
    BY <1>1, <2>1, <2>2, HandlerMoves, SilentStep DEF ResetRouter, Idle
<1>2. CASE DispatchClears
  <2>1. handler' \in Resetting /\ handler'.pc = "wipe"
    BY <1>2, HandlerShape DEF DispatchClears, IInv, Resetting
  <2>2. QED
    BY <1>2, <2>1, ClearsKeep DEF DispatchClears, IInv, TypeOK
<1>3. CASE DispatchWipes
  <2>1. handler' \in Resetting /\ handler'.pc = "fill"
    BY <1>3, HandlerShape DEF DispatchWipes, IInv, Resetting
  <2>2. TypeOK'
    BY <1>3, <2>1, SilentStep DEF DispatchWipes, Wipes, IInv, TypeOK, ArpTypeOK
  <2>3. QED
    BY <1>3, <2>1, <2>2, HandlerMoves, SilentStep DEF DispatchWipes, Wipes
<1>4. CASE DispatchFills
  <2>1. PICK port \in handler.ports :
            /\ Fills(port)
            /\ handler' = IF handler.ports = {port}
                          THEN Idle
                          ELSE [handler EXCEPT !.ports = @ \ {port}]
    BY <1>4 DEF DispatchFills
  <2>2. handler \in Resetting /\ handler.pc = "fill"
    BY <1>4, HandlerShape DEF DispatchFills, IInv
  <2>3. handler' \in {Idle} \cup Resetting /\ handler'.pc \in {"idle", "fill"}
    BY <2>1, <2>2 DEF Resetting, Idle
  <2>4. TypeOK'
    BY <1>4, <2>1, <2>3, SilentStep DEF DispatchFills, Fills, IInv, TypeOK, ArpTypeOK
  <2>5. QED
    BY <1>4, <2>1, <2>2, <2>3, <2>4, HandlerMoves, SilentStep DEF DispatchFills, Fills
<1>5. QED
  BY <1>1, <1>2, <1>3, <1>4

LEMMA MainKeeps ==
    ASSUME IInv, MainStep
    PROVE  IInv'
<1>1. main \in [pc : {"clear", "wipe", "fill", "running"}, ports : SUBSET Iface]
  BY DEF IInv, TypeOK
<1>2. CASE MainClears
  <2>1. main' \in [pc : {"clear", "wipe", "fill", "running"}, ports : SUBSET Iface]
    BY <1>1, <1>2 DEF MainClears
  <2>2. Clears /\ handler' = handler
    BY <1>2 DEF MainClears
  <2>3. handler' \in {Idle} \cup Forwarding \cup Resolving \cup Resetting
    BY <2>2 DEF IInv, TypeOK
  <2>4. QED
    BY <2>1, <2>2, <2>3, ClearsKeep
<1>3. CASE MainWipes
  <2>1. main' \in [pc : {"clear", "wipe", "fill", "running"}, ports : SUBSET Iface]
    BY <1>1, <1>3 DEF MainWipes
  <2>2. crashed' \in BOOLEAN
    BY <1>3 DEF MainWipes, IInv, TypeOK, ArpTypeOK
  <2>3. \/ handler' = handler
        \/ /\ handler.pc \in {"insert", "remove"} /\ handler' \in Resolving
           /\ handler'.pc = handler.pc /\ handler'.ip = handler.ip /\ handler'.mac = handler.mac
    <3>1. CASE handler.pc \in {"insert", "remove"}
      BY <1>3, <3>1, HandlerShape DEF MainWipes, IInv, Resolving
    <3>2. CASE handler.pc \notin {"insert", "remove"}
      BY <1>3, <3>2 DEF MainWipes
    <3>3. QED
      BY <3>1, <3>2
  <2>4. TypeOK'
    BY <1>3, <2>1, <2>2, <2>3, SilentStep DEF MainWipes, Wipes, IInv, TypeOK, ArpTypeOK
  <2>5. /\ handler'.pc \in {"insert", "remove"} => Announced(handler'.ip, handler'.mac)
        /\ handler'.pc \in {"lookup", "queue"} => RT[handler'.packet.dst] = handler'.next_hop
        /\ handler'.pc = "queue" => ~HasEntry(handler'.next_hop.gw)
        /\ handler'.pc = "remove" <=> handler.pc = "remove"
        /\ handler.pc = "remove" => handler'.ip = handler.ip
    BY <2>3 DEF IInv, OnlyAnnounced, HandlerRouted
  <2>6. QED
    BY <1>3, <2>4, <2>5, HandlerMoves, SilentStep DEF MainWipes, Wipes
<1>4. CASE MainFills
  <2>1. PICK port \in main.ports :
            /\ Fills(port)
            /\ main' = IF main.ports = {port}
                       THEN [main EXCEPT !.pc = "running", !.ports = {}]
                       ELSE [main EXCEPT !.ports = @ \ {port}]
    BY <1>4 DEF MainFills
  <2>2. main' \in [pc : {"clear", "wipe", "fill", "running"}, ports : SUBSET Iface]
    BY <1>1, <2>1
  <2>3. handler' = handler
    BY <1>4 DEF MainFills
  <2>4. TypeOK'
    BY <2>1, <2>2, <2>3, SilentStep DEF Fills, IInv, TypeOK, ArpTypeOK
  <2>5. QED
    BY <2>1, <2>3, <2>4, HandlerMoves, SilentStep DEF Fills, IInv, OnlyAnnounced, HandlerRouted
<1>5. QED
  BY <1>2, <1>3, <1>4 DEF MainStep

-----------------------------------------------------------------------------
(* The ticker *)

\* A step of the ticker that leaves the requests at their places.  The call under
\* way, the cache and what is held do not change.
LEMMA TickerSleepsKeeps ==
    ASSUME IInv, TickerSleeps, UNCHANGED <<handler, main>>
    PROVE  IInv'
<1>1. /\ it = Len(m_arpRequests) + 1 /\ it' = 0
      /\ wire' = <<>>
      /\ UNCHANGED <<m_cacheEntries, m_arpRequests, held, m_ifaces, crashed>>
  BY DEF TickerSleeps
<1>2. TypeOK'
  <2>1. it' \in 0..(Len(m_arpRequests') + 1)
    BY <1>1, QueueAsList
  <2>2. QED
    BY <1>1, <2>1, SilentStep DEF IInv, TypeOK, ArpTypeOK
<1>3. FrontExists'
  BY <1>1, QueueAsList DEF IInv, FrontExists
<1>4. UniqueRequests' /\ QueueRouted' /\ NoneStranded'
  BY <1>1 DEF IInv, UniqueRequests, QueueRouted, Routed, NoneStranded, HasEntry, HasRequest
<1>5. HandlerRouted' /\ HeldByHandler' /\ RemovalPending' /\ OnlyAnnounced'
  BY <1>1 DEF IInv, HandlerRouted, HeldByHandler, RemovalPending, OnlyAnnounced, Announced,
     Routed, HasEntry, HasRequest
<1>6. QED
  BY <1>1, <1>2, <1>3, <1>4, <1>5, SilentStep DEF IInv

LEMMA TickerCrashesKeeps ==
    ASSUME IInv, TickerCrashes, UNCHANGED <<handler, main>>
    PROVE  IInv'
<1>1. TypeOK'
  BY SilentStep DEF TickerCrashes, IInv, TypeOK, ArpTypeOK
<1>2. QED
  BY <1>1, HandlerMoves, SilentStep DEF TickerCrashes, IInv, HandlerRouted, OnlyAnnounced

LEMMA TickerWakesKeeps ==
    ASSUME IInv, TickerWakes, UNCHANGED <<handler, main>>
    PROVE  IInv'
<1>1. PICK expired \in 0..Len(m_cacheEntries) :
          /\ \A i \in DOMAIN m_cacheEntries :
                 m_cacheEntries[i].age = SR_ARPCACHE_TO => i <= expired
          /\ m_cacheEntries' = Survivors(expired)
  BY DEF TickerWakes
<1>2. /\ it = 0 /\ it' = 1 /\ wire' = <<>>
      /\ UNCHANGED <<m_arpRequests, held, m_ifaces, crashed>>
  BY DEF TickerWakes
<1> DEFINE left == Len(m_cacheEntries) - expired
<1>3. /\ Len(m_cacheEntries) \in Nat /\ left \in Nat
      /\ DOMAIN m_cacheEntries = 1..Len(m_cacheEntries)
      /\ \A i \in DOMAIN m_cacheEntries : m_cacheEntries[i] \in ArpEntry
  BY LenProperties, ElementOfSeq DEF IInv, TypeOK, ArpTypeOK
<1>4. m_cacheEntries' = [i \in 1..left |-> [m_cacheEntries[i + expired] EXCEPT !.age = @ + 1]]
  BY <1>1 DEF Survivors
<1>5. ASSUME NEW i \in 1..left
      PROVE  /\ i + expired \in DOMAIN m_cacheEntries
             /\ m_cacheEntries'[i] \in ArpEntry
             /\ m_cacheEntries'[i].ip = m_cacheEntries[i + expired].ip
             /\ m_cacheEntries'[i].mac = m_cacheEntries[i + expired].mac
  <2>1. i + expired \in DOMAIN m_cacheEntries /\ ~(i + expired <= expired)
    BY <1>3
  <2>2. m_cacheEntries[i + expired] \in ArpEntry
    BY <1>3, <2>1
  <2>3. m_cacheEntries[i + expired].age \in 0..SR_ARPCACHE_TO
    BY <2>2 DEF ArpEntry
  <2>4. m_cacheEntries[i + expired].age # SR_ARPCACHE_TO
    BY <1>1, <2>1
  <2>5. m_cacheEntries[i + expired].age + 1 \in 0..SR_ARPCACHE_TO
    BY <2>3, <2>4, ArpAssumption
  <2>6. QED
    BY <1>4, <2>1, <2>2, <2>5 DEF ArpEntry
<1>6. m_cacheEntries' \in Seq(ArpEntry) /\ DOMAIN m_cacheEntries' = 1..left
  <2>1. DOMAIN m_cacheEntries' = 1..left /\ \A i \in 1..left : m_cacheEntries'[i] \in ArpEntry
    BY <1>4, <1>5
  <2>2. m_cacheEntries' = [i \in 1..left |-> m_cacheEntries'[i]]
    BY <1>4
  <2>3. QED
    BY <1>3, <2>1, <2>2
<1>7. TypeOK'
  <2>1. it' \in 0..(Len(m_arpRequests') + 1)
    BY <1>2, QueueAsList
  <2>2. QED
    BY <1>2, <1>6, <2>1, SilentStep DEF IInv, TypeOK, ArpTypeOK
<1>8. \A h : (HasEntry(h)' => HasEntry(h)) /\ (HasRequest(h)' <=> HasRequest(h))
  BY <1>2, <1>5, <1>6 DEF HasEntry, HasRequest
<1>9. FrontExists'
  BY <1>2, QueueAsList DEF IInv, FrontExists
<1>10. UniqueRequests' /\ QueueRouted'
  BY <1>2 DEF IInv, UniqueRequests, QueueRouted, Routed
<1>11. NoneStranded' /\ RemovalPending'
  BY <1>2, <1>8 DEF IInv, NoneStranded, RemovalPending
<1>12. HandlerRouted' /\ HeldByHandler'
  BY <1>2, <1>8 DEF IInv, HandlerRouted, HeldByHandler, Routed
<1>13. OnlyAnnounced'
  BY <1>5, <1>6 DEF IInv, OnlyAnnounced, Announced
<1>14. QED
  BY <1>2, <1>7, <1>9, <1>10, <1>11, <1>12, <1>13, SilentStep DEF IInv
\* The request scanned, and its first packet, while it has one.
LEMMA ScannedFacts ==
    ASSUME IInv, it \in DOMAIN m_arpRequests
    PROVE  /\ Scanned \in ArpRequest
           /\ Scanned.packets # <<>> =>
                  /\ Waiter \in PendingPacket
                  /\ RT[Waiter.packet.dst] = [gw |-> Scanned.ip, ifName |-> Waiter.iface]
           /\ Scanned.nTimesSent < MAX_SENT_TIME => Scanned.packets # <<>>
<1>1. Scanned \in ArpRequest /\ Routed(Scanned.packets, Scanned.ip)
  BY QueueAsList DEF Scanned, AllRouted
<1>2. Scanned.packets \in Seq(PendingPacket) /\ Scanned.nTimesSent \in 0..MAX_SENT_TIME
  BY <1>1 DEF ArpRequest
<1>3. Scanned.packets # <<>> =>
          /\ Waiter \in PendingPacket
          /\ RT[Waiter.packet.dst] = [gw |-> Scanned.ip, ifName |-> Waiter.iface]
  BY <1>1, <1>2, TailRouted DEF Waiter
<1>4. Scanned.nTimesSent < MAX_SENT_TIME => Scanned.packets # <<>>
  BY <1>2, ArpAssumption DEF IInv, FrontExists, Scanned
<1>5. QED
  BY <1>1, <1>3, <1>4

\* A step that rewrites the request scanned and keeps the list otherwise.
LEMMA ScannedRewritten ==
    ASSUME IInv, it \in DOMAIN m_arpRequests,
           NEW r \in ArpRequest, r.ip = Scanned.ip, Routed(r.packets, r.ip),
           NEW n, r.packets = <<>> => it = n /\ r.nTimesSent >= MAX_SENT_TIME,
           Fronts(m_arpRequests, it)
    PROVE  LET list == [m_arpRequests EXCEPT ![it] = r]
           IN  /\ list \in Seq(ArpRequest)
               /\ Len(list) = Len(m_arpRequests)
               /\ DOMAIN list = DOMAIN m_arpRequests
               /\ \A i \in DOMAIN list : list[i].ip = m_arpRequests[i].ip
               /\ Distinct(list) /\ AllRouted(list) /\ Fronts(list, n)
<1> DEFINE list == [m_arpRequests EXCEPT ![it] = r]
<1>1. /\ list \in Seq(ArpRequest)
      /\ Len(list) = Len(m_arpRequests)
      /\ DOMAIN list = DOMAIN m_arpRequests
      /\ \A i \in DOMAIN list : list[i] = IF i = it THEN r ELSE m_arpRequests[i]
  BY QueueAsList, ExceptSeq
<1> HIDE DEF list
<1>2. \A i \in DOMAIN list : list[i].ip = m_arpRequests[i].ip
  BY <1>1 DEF Scanned
<1>3. Distinct(list)
  BY <1>1, <1>2, QueueAsList DEF Distinct
<1>4. AllRouted(list)
  BY <1>1, QueueAsList DEF AllRouted
<1>5. Fronts(list, n)
  BY <1>1 DEF Fronts
<1>6. QED
  BY <1>1, <1>2, <1>3, <1>4, <1>5 DEF list

\* A step of the ticker after which the queue is a list of the same requests, or
\* of some of them, and the rest of the state is as before.
LEMMA ListKept ==
    ASSUME IInv,
           UNCHANGED <<m_cacheEntries, m_ifaces, crashed, handler, main>>,
           m_arpRequests' \in Seq(ArpRequest), it' \in 0..(Len(m_arpRequests') + 1),
           Distinct(m_arpRequests'), AllRouted(m_arpRequests'), Fronts(m_arpRequests', it'),
           \A h : HasRequest(h)' => HasRequest(h),
           held' \in Held, held'.ip = held.ip, held'.packets = held.packets,
           held'.linked => held.linked /\ HasRequest(held.ip)',
           held.linked /\ HasRequest(held.ip)' => held'.linked,
           wire' \in Seq(Frame), FramesRouted'
    PROVE  IInv'
<1>1. TypeOK'
  BY DEF IInv, TypeOK, ArpTypeOK
<1>2. UniqueRequests' /\ FrontExists' /\ QueueRouted'
  BY DEF Distinct, AllRouted, Fronts, UniqueRequests, FrontExists, QueueRouted, Routed
<1>3. \A h : HasEntry(h)' <=> HasEntry(h)
  BY DEF HasEntry
<1>4. NoneStranded'
  BY <1>3 DEF IInv, NoneStranded
<1>5. HandlerRouted'
  BY <1>3 DEF IInv, HandlerRouted
<1>6. HeldByHandler'
  <2>1. Routed(held'.packets, held'.ip)
    BY DEF IInv, HeldByHandler
  <2>2. held'.linked \/ held'.packets # <<>> => handler'.pc = "remove" /\ held'.ip = handler'.ip
    BY DEF IInv, HeldByHandler
  <2>3. QED
    BY <2>1, <2>2 DEF HeldByHandler, Routed
<1>7. RemovalPending'
  <2>1. ASSUME handler'.pc = "remove", HasRequest(handler.ip)', HasEntry(handler.ip)'
        PROVE  held'.linked
    <3>1. held.linked
      BY <1>3, <2>1 DEF IInv, RemovalPending
    <3>2. held.ip = handler.ip
      BY <3>1 DEF IInv, HeldByHandler
    <3>3. QED
      BY <2>1, <3>1, <3>2
  <2>2. QED
    BY <2>1 DEF RemovalPending, HasRequest, HasEntry
<1>8. OnlyAnnounced'
  BY DEF IInv, OnlyAnnounced, Announced
<1>9. QED
  BY <1>1, <1>2, <1>4, <1>5, <1>6, <1>7, <1>8 DEF IInv
LEMMA ResendRequestKeeps ==
    ASSUME IInv, ResendRequest, UNCHANGED <<handler, main>>
    PROVE  IInv'
<1> DEFINE r == [Scanned EXCEPT !.nTimesSent = @ + 1]
           frame == [type |-> "arp_request", iface |-> Waiter.iface,
                     shost |-> Waiter.iface, tip |-> Scanned.ip]
<1>1. /\ it \in DOMAIN m_arpRequests
      /\ Scanned.nTimesSent < MAX_SENT_TIME
      /\ wire' = <<frame>>
      /\ m_arpRequests' = [m_arpRequests EXCEPT ![it].nTimesSent = @ + 1]
      /\ it' = it + 1
      /\ UNCHANGED <<m_cacheEntries, held, m_ifaces, crashed>>
  BY DEF ResendRequest
<1>2. Scanned \in ArpRequest /\ Scanned.packets # <<>> /\ Waiter \in PendingPacket
  BY <1>1, ScannedFacts
<1>3. /\ r \in ArpRequest /\ r.ip = Scanned.ip /\ r.packets = Scanned.packets
  <2>1. Scanned.nTimesSent + 1 \in 0..MAX_SENT_TIME
    BY <1>1, <1>2, ArpAssumption DEF ArpRequest
  <2>2. QED
    BY <1>2, <2>1 DEF ArpRequest
<1>4. Routed(r.packets, r.ip)
  BY <1>1, <1>3, QueueAsList DEF Scanned, AllRouted
<1>5. m_arpRequests' = [m_arpRequests EXCEPT ![it] = r]
  BY <1>1 DEF Scanned
<1> HIDE DEF r
<1>6. /\ m_arpRequests' \in Seq(ArpRequest)
      /\ Len(m_arpRequests') = Len(m_arpRequests)
      /\ DOMAIN m_arpRequests' = DOMAIN m_arpRequests
      /\ \A i \in DOMAIN m_arpRequests' : m_arpRequests'[i].ip = m_arpRequests[i].ip
      /\ Distinct(m_arpRequests') /\ AllRouted(m_arpRequests') /\ Fronts(m_arpRequests', it')
  <2> DEFINE list == [m_arpRequests EXCEPT ![it] = r]
  <2>1. r.packets # <<>>
    BY <1>2, <1>3
  <2>2. /\ list \in Seq(ArpRequest)
        /\ Len(list) = Len(m_arpRequests)
        /\ DOMAIN list = DOMAIN m_arpRequests
        /\ \A i \in DOMAIN list : list[i].ip = m_arpRequests[i].ip
        /\ Distinct(list) /\ AllRouted(list)
    BY <1>1, <1>3, <1>4, <2>1, QueueAsList, ScannedRewritten
  <2>3. \A i \in DOMAIN list : list[i].packets # <<>>
    BY <1>1, <2>1, QueueAsList DEF Fronts
  <2> HIDE DEF list
  <2>4. Fronts(list, it')
    BY <2>3 DEF Fronts
  <2>5. m_arpRequests' = list
    BY <1>5 DEF list
  <2>6. QED
    BY <2>2, <2>4, <2>5
<1>7. frame \in Frame /\ frame.type = "arp_request"
  BY <1>2 DEF Frame, PendingPacket, ArpRequest
<1> HIDE DEF frame
<1>8. wire' \in Seq(Frame) /\ FramesRouted'
  BY <1>1, <1>7, OneFrameStep
<1>9. it' \in 0..(Len(m_arpRequests') + 1)
  BY <1>1, <1>6, QueueAsList
<1>10. \A h : HasRequest(h)' <=> HasRequest(h)
  BY <1>6 DEF HasRequest
<1>11. held \in Held /\ (held.linked => HasRequest(held.ip))
  BY DEF IInv, TypeOK, ArpTypeOK, HeldByHandler
<1>12. QED
  BY <1>1, <1>6, <1>8, <1>9, <1>10, <1>11, ListKept DEF HasRequest

\* The list once the first packet of the request scanned is done with.
LEMMA NextWaiterFacts ==
    ASSUME IInv, GivingUp
    PROVE  /\ NextWaiter \in Seq(ArpRequest)
           /\ Len(NextWaiter) = Len(m_arpRequests)
           /\ DOMAIN NextWaiter = DOMAIN m_arpRequests
           /\ \A i \in DOMAIN NextWaiter : NextWaiter[i].ip = m_arpRequests[i].ip
           /\ Distinct(NextWaiter) /\ AllRouted(NextWaiter) /\ Fronts(NextWaiter, it)
<1> DEFINE r == [Scanned EXCEPT !.packets = Tail(@)]
<1>1. it \in DOMAIN m_arpRequests /\ Scanned.packets # <<>> /\ Scanned.nTimesSent >= MAX_SENT_TIME
  BY DEF GivingUp
<1>2. Scanned \in ArpRequest /\ Routed(Scanned.packets, Scanned.ip)
  BY <1>1, QueueAsList DEF Scanned, AllRouted
<1>3. Tail(Scanned.packets) \in Seq(PendingPacket) /\ Routed(Tail(Scanned.packets), Scanned.ip)
  <2>1. Scanned.packets \in Seq(PendingPacket)
    BY <1>2 DEF ArpRequest
  <2>2. QED
    BY <1>1, <1>2, <2>1, TailRouted
<1>4. /\ r \in ArpRequest /\ r.ip = Scanned.ip /\ r.nTimesSent = Scanned.nTimesSent
      /\ Routed(r.packets, r.ip)
  BY <1>2, <1>3 DEF ArpRequest
<1>5. NextWaiter = [m_arpRequests EXCEPT ![it] = r]
  BY DEF NextWaiter, Scanned
<1> HIDE DEF r
<1>6. QED
  BY <1>1, <1>4, <1>5, QueueAsList, ScannedRewritten

\* The error for the packet scanned, and the route back to its source.
LEMMA ErrorRoute ==
    ASSUME IInv, GivingUp, RT[Waiter.packet.src] # NoRoute
    PROVE  /\ Unreachable \in Packet
           /\ Unreachable.dst = Waiter.packet.src
           /\ RT[Waiter.packet.src] \in Route
           /\ Waiter.iface \in Iface
<1>1. Waiter \in PendingPacket /\ Waiter.iface \in DOMAIN IfIp
  BY ScannedFacts DEF GivingUp, IInv, TypeOK, ArpTypeOK
<1>2. IfIp[Waiter.iface] \in IP /\ Waiter.packet \in Packet /\ Waiter.packet.src \in IP
  BY <1>1, ArpAssumption DEF PendingPacket, Packet
<1>3. Unreachable \in Packet /\ Unreachable.dst = Waiter.packet.src
  BY <1>2 DEF Unreachable, IcmpError, Packet, Kind
<1>4. RT[Waiter.packet.src] \in Route
  BY <1>2, ArpAssumption
<1>5. QED
  BY <1>1, <1>3, <1>4 DEF PendingPacket

LEMMA WaiterToldKeeps ==
    ASSUME IInv, WaiterTold, UNCHANGED <<handler, main>>
    PROVE  IInv'
<1> DEFINE next_hop == RT[Waiter.packet.src]
           frame == IpFrame(next_hop.ifName, Waiter.iface, EntryMac(next_hop.gw), Unreachable)
<1>1. /\ GivingUp /\ next_hop # NoRoute /\ HasEntry(next_hop.gw)
      /\ wire' = <<frame>>
      /\ m_arpRequests' = NextWaiter
      /\ UNCHANGED <<m_cacheEntries, it, held, m_ifaces, crashed>>
  BY DEF WaiterTold
<1>2. /\ Unreachable \in Packet
      /\ RT[Unreachable.dst] = next_hop
      /\ next_hop \in Route
      /\ Waiter.iface \in Iface
  BY <1>1, ErrorRoute
<1>3. PICK i \in DOMAIN m_cacheEntries :
          m_cacheEntries[i].ip = next_hop.gw /\ EntryMac(next_hop.gw) = m_cacheEntries[i].mac
  BY <1>1, EntryMacFound DEF IInv, TypeOK, ArpTypeOK
<1>4. EntryMac(next_hop.gw) \in MAC /\ Announced(next_hop.gw, EntryMac(next_hop.gw))
  <2>1. m_cacheEntries[i] \in ArpEntry
    BY ElementOfSeq, LenProperties DEF IInv, TypeOK, ArpTypeOK
  <2>2. QED
    BY <1>3, <2>1 DEF ArpEntry, IInv, OnlyAnnounced
<1> HIDE DEF next_hop
<1>5. /\ frame \in Frame
      /\ frame.packet = Unreachable /\ frame.iface = next_hop.ifName
      /\ frame.dhost = EntryMac(next_hop.gw)
  BY <1>2, <1>4 DEF IpFrame, Frame, Route
<1> HIDE DEF frame
<1>6. wire' \in Seq(Frame) /\ FramesRouted'
  BY <1>1, <1>2, <1>4, <1>5, OneFrameStep
<1>7. \A h : HasRequest(h)' <=> HasRequest(h)
  BY <1>1, NextWaiterFacts DEF HasRequest
<1>8. it' \in 0..(Len(m_arpRequests') + 1)
  BY <1>1, NextWaiterFacts DEF IInv, TypeOK, ArpTypeOK
<1>9. held \in Held /\ (held.linked => HasRequest(held.ip))
  BY DEF IInv, TypeOK, ArpTypeOK, HeldByHandler
<1>10. QED
  BY <1>1, <1>6, <1>7, <1>8, <1>9, NextWaiterFacts, ListKept DEF HasRequest

LEMMA WaiterErrorQueuedKeeps ==
    ASSUME IInv, WaiterErrorQueued, UNCHANGED <<handler, main>>
    PROVE  IInv'
<1> DEFINE next_hop == RT[Waiter.packet.src]
           error == [packet |-> Unreachable, iface |-> next_hop.ifName]
<1>1. /\ GivingUp /\ next_hop # NoRoute /\ ~HasEntry(next_hop.gw)
      /\ m_arpRequests' = Queued(NextWaiter, next_hop.gw, error)
      /\ held' = HeldQueued(next_hop.gw, error)
      /\ wire' = <<>>
      /\ UNCHANGED <<m_cacheEntries, it, m_ifaces, crashed>>
  BY DEF WaiterErrorQueued
<1>2. /\ error \in PendingPacket
      /\ next_hop.gw \in IP
      /\ RT[error.packet.dst] = [gw |-> next_hop.gw, ifName |-> error.iface]
  BY <1>1, ErrorRoute DEF Route, PendingPacket
<1>3. crashed' \in BOOLEAN
  BY <1>1 DEF IInv, TypeOK, ArpTypeOK
<1> HIDE DEF next_hop, error
<1>4. /\ NextWaiter \in Seq(ArpRequest)
      /\ Len(NextWaiter) = Len(m_arpRequests)
      /\ \A i \in 1..Len(NextWaiter) : NextWaiter[i].ip = m_arpRequests[i].ip
      /\ Distinct(NextWaiter) /\ AllRouted(NextWaiter) /\ Fronts(NextWaiter, it)
  BY <1>1, NextWaiterFacts, LenProperties
<1>5. /\ ArpTypeOK'
      /\ UniqueRequests' /\ FrontExists' /\ QueueRouted'
      /\ FramesRouted'
      /\ \A h : HasRequest(h) => HasRequest(h)'
      /\ \A h : HasRequest(h)' /\ HasEntry(h)' => HasRequest(h) /\ HasEntry(h)
      /\ held'.ip = held.ip /\ held'.linked = held.linked
      /\ held'.packets # <<>> => held.linked \/ held.packets # <<>>
      /\ Routed(held'.packets, held'.ip)
  BY <1>1, <1>2, <1>3, <1>4, QueueKeeps
<1>6. TypeOK'
  BY <1>5 DEF IInv, TypeOK
<1>7. NoneStranded' /\ RemovalPending'
  BY <1>5 DEF IInv, NoneStranded, RemovalPending, HasRequest, HasEntry
<1>8. HandlerRouted'
  BY <1>1 DEF IInv, HandlerRouted, HasEntry
<1>9. HeldByHandler'
  <2>1. held.linked => HasRequest(held.ip)'
    BY <1>5 DEF IInv, HeldByHandler
  <2>2. held'.linked => HasRequest(held.ip)'
    BY <1>5, <2>1
  <2>3. held'.linked => \E i \in DOMAIN m_arpRequests' : m_arpRequests'[i].ip = held'.ip
    BY <1>5, <2>2 DEF HasRequest
  <2>4. held'.linked \/ held'.packets # <<>> => handler'.pc = "remove" /\ held'.ip = handler'.ip
    BY <1>5 DEF IInv, HeldByHandler
  <2>5. \A k \in DOMAIN held'.packets :
            RT[held'.packets[k].packet.dst] = [gw |-> held'.ip, ifName |-> held'.packets[k].iface]
    BY <1>5 DEF Routed
  <2>6. QED
    BY <2>3, <2>4, <2>5 DEF HeldByHandler, Routed, HasRequest
<1>10. OnlyAnnounced'
  BY <1>1 DEF IInv, OnlyAnnounced, Announced
<1>11. QED
  BY <1>5, <1>6, <1>7, <1>8, <1>9, <1>10 DEF IInv

\* The request scanned leaves the list, whatever is left of its packets.
LEMMA UnlinkKeeps ==
    ASSUME IInv, it \in DOMAIN m_arpRequests, Unlink(it), wire' = <<>>,
           UNCHANGED <<m_cacheEntries, it, m_ifaces, crashed, handler, main>>
    PROVE  IInv'
<1>1. it \in 1..Len(m_arpRequests) /\ m_arpRequests' = Without(m_arpRequests, it)
  BY QueueAsList DEF Unlink
<1>2. /\ m_arpRequests' \in Seq(ArpRequest)
      /\ Len(m_arpRequests') = Len(m_arpRequests) - 1
      /\ Distinct(m_arpRequests') /\ AllRouted(m_arpRequests')
      /\ \A n : Fronts(m_arpRequests', n)
      /\ \A j \in DOMAIN m_arpRequests' :
             /\ m_arpRequests'[j].ip # m_arpRequests[it].ip
             /\ \E k \in DOMAIN m_arpRequests : m_arpRequests'[j].ip = m_arpRequests[k].ip
  <2> DEFINE w == Without(m_arpRequests, it)
  <2>1. /\ m_arpRequests \in Seq(ArpRequest)
        /\ Distinct(m_arpRequests) /\ AllRouted(m_arpRequests) /\ Fronts(m_arpRequests, it)
    BY QueueAsList
  <2>2. /\ w \in Seq(ArpRequest)
        /\ Len(w) = Len(m_arpRequests) - 1
        /\ Distinct(w) /\ AllRouted(w)
        /\ \A n : Fronts(w, n)
        /\ \A j \in DOMAIN w : /\ w[j].ip # m_arpRequests[it].ip
                              /\ \E k \in DOMAIN m_arpRequests : w[j].ip = m_arpRequests[k].ip
    BY <1>1, <2>1, WithoutRequest
  <2>3. m_arpRequests' = w
    BY <1>1
  <2> HIDE DEF w
  <2>4. QED
    BY <2>2, <2>3
<1>3. it' \in 0..(Len(m_arpRequests') + 1)
  BY <1>1, <1>2, QueueAsList
<1>4. \A h : HasRequest(h)' => HasRequest(h) /\ h # m_arpRequests[it].ip
  BY <1>2 DEF HasRequest
<1>5. \A h : HasRequest(h) /\ h # m_arpRequests[it].ip => HasRequest(h)'
  <2>1. ASSUME NEW k \in DOMAIN m_arpRequests, k # it
        PROVE  \E j \in DOMAIN m_arpRequests' : m_arpRequests'[j].ip = m_arpRequests[k].ip
    <3> DEFINE j == IF k < it THEN k ELSE k - 1
    <3>1. j \in 1..(Len(m_arpRequests) - 1) /\ k = IF j < it THEN j ELSE j + 1
      BY <1>1, <2>1, QueueAsList
    <3>2. m_arpRequests'[j] = m_arpRequests[k]
      BY <1>1, <3>1, QueueAsList, WithoutProperties
    <3>3. j \in DOMAIN m_arpRequests'
      BY <1>2, <3>1, LenProperties
    <3>4. QED
      BY <3>2, <3>3
  <2>2. QED
    BY <2>1 DEF HasRequest
<1>6. /\ held' \in Held /\ held'.ip = held.ip /\ held'.packets = held.packets
      /\ held'.linked = (held.linked /\ held.ip # m_arpRequests[it].ip)
  <2>1. held \in Held
    BY DEF IInv, TypeOK, ArpTypeOK
  <2>2. CASE held.ip = m_arpRequests[it].ip
    BY <2>1, <2>2 DEF Unlink, Held
  <2>3. CASE held.ip # m_arpRequests[it].ip
    BY <2>1, <2>3 DEF Unlink, Held
  <2>4. QED
    BY <2>2, <2>3
<1>7. held.linked => HasRequest(held.ip)
  BY DEF IInv, HeldByHandler
<1>8. wire' \in Seq(Frame) /\ FramesRouted'
  BY SilentStep
<1>9. /\ held'.linked => held.linked /\ HasRequest(held.ip)'
      /\ held.linked /\ HasRequest(held.ip)' => held'.linked
  BY <1>4, <1>5, <1>6, <1>7
<1>10. QED
  BY <1>2, <1>3, <1>4, <1>6, <1>8, <1>9, ListKept

LEMMA TickerKeeps ==
    ASSUME IInv, Ticker
    PROVE  IInv'
<1>1. UNCHANGED <<handler, main>>
  BY DEF Ticker
<1>2. CASE TickerWakes
  BY <1>1, <1>2, TickerWakesKeeps
<1>3. CASE ResendRequest
  BY <1>1, <1>3, ResendRequestKeeps
<1>4. CASE WaiterTold
  BY <1>1, <1>4, WaiterToldKeeps
<1>5. CASE WaiterErrorQueued
  BY <1>1, <1>5, WaiterErrorQueuedKeeps
<1>6. CASE WaiterUnroutable
  BY <1>1, <1>6, UnlinkKeeps DEF WaiterUnroutable, GivingUp
<1>7. CASE RequestErased
  BY <1>1, <1>7, UnlinkKeeps DEF RequestErased
<1>8. CASE TickerCrashes
  BY <1>1, <1>8, TickerCrashesKeeps
<1>9. CASE TickerSleeps
  BY <1>1, <1>9, TickerSleepsKeeps
<1>10. QED
  BY <1>2, <1>3, <1>4, <1>5, <1>6, <1>7, <1>8, <1>9 DEF Ticker, TickerStep, GiveUpStep

-----------------------------------------------------------------------------
(* The theorems *)

LEMMA InitIInv == Init => IInv
<1> SUFFICES ASSUME Init PROVE IInv
  OBVIOUS
<1>1. /\ m_cacheEntries = <<>> /\ m_arpRequests = <<>> /\ it = 0 /\ held = Null
      /\ m_ifaces = {} /\ wire = <<>> /\ crashed = FALSE
      /\ handler = Idle
      /\ main \in [pc : {"clear"}, ports : Ports]
  BY DEF Init, ArpInit
<1>2. <<>> \in Seq(PendingPacket) /\ (CHOOSE h \in IP : TRUE) \in IP
  BY ArpAssumption, EmptySeq
<1>3. Null \in Held /\ Null.packets = <<>> /\ ~Null.linked /\ Routed(Null.packets, Null.ip)
  BY <1>2 DEF Null, Held, Routed
<1>4. TypeOK
  <2>1. <<>> \in Seq(ArpEntry) /\ <<>> \in Seq(ArpRequest) /\ <<>> \in Seq(Frame)
    BY EmptySeq
  <2>2. it \in 0..(Len(m_arpRequests) + 1)
    BY <1>1, EmptySeq
  <2>3. ArpTypeOK
    BY <1>1, <1>3, <2>1, <2>2 DEF ArpTypeOK
  <2>4. main.pc \in {"clear", "wipe", "fill", "running"} /\ main.ports \in SUBSET Iface
    BY <1>1, RouterAssumption
  <2>5. main \in [pc : {"clear", "wipe", "fill", "running"}, ports : SUBSET Iface]
    BY <1>1, <2>4
  <2>6. QED
    BY <1>1, <2>3, <2>5 DEF TypeOK
<1>5. \A h : ~HasEntry(h) /\ ~HasRequest(h)
  BY <1>1 DEF HasEntry, HasRequest
<1>6. UniqueRequests /\ FrontExists /\ QueueRouted /\ FramesRouted
  BY <1>1 DEF UniqueRequests, FrontExists, QueueRouted, FramesRouted
<1>7. NoneStranded /\ RemovalPending /\ HandlerRouted
  BY <1>1, <1>5 DEF NoneStranded, RemovalPending, HandlerRouted, Idle
<1>8. HeldByHandler
  BY <1>1, <1>3 DEF HeldByHandler
<1>9. OnlyAnnounced
  BY <1>1 DEF OnlyAnnounced, Idle
<1>10. QED
  BY <1>4, <1>6, <1>7, <1>8, <1>9 DEF IInv

LEMMA NextIInv == IInv /\ [Next]_vars => IInv'
<1> SUFFICES ASSUME IInv, [Next]_vars PROVE IInv'
  OBVIOUS
<1>1. CASE Ticker
  BY <1>1, TickerKeeps
<1>2. CASE \E f \in Arrivals : HandlePacket(f)
  BY <1>2, HandlePacketKeeps
<1>3. CASE \E ports \in Ports : ResetRouter(ports)
  BY <1>3, DispatchResetKeeps
<1>4. CASE HandlerStep
  BY <1>4, InsertEntryKeeps, RemoveAndSendKeeps, LookupHitKeeps, LookupCrashesKeeps,
     LookupMissKeeps, QueuePacketKeeps, DispatchResetKeeps DEF HandlerStep
<1>5. CASE MainStep
  BY <1>5, MainKeeps
<1>6. CASE UNCHANGED vars
  <2>1. UNCHANGED <<m_cacheEntries, m_arpRequests, it, held, m_ifaces, wire, crashed, handler, main>>
    BY <1>6 DEF vars
  <2>2. TypeOK' /\ FramesRouted'
    BY <2>1 DEF IInv, TypeOK, ArpTypeOK, FramesRouted, Announced
  <2>3. QED
    BY <2>1, <2>2, HandlerMoves DEF IInv, OnlyAnnounced, HandlerRouted
<1>7. QED
  BY <1>1, <1>2, <1>3, <1>4, <1>5, <1>6 DEF Next

\* The inductive invariant holds in every execution, for every routing table,
\* traffic, number of retries and life of the cache entries.
THEOREM Invariance == Spec => []IInv
BY InitIInv, NextIInv, PTL DEF Spec

\* Types: the queue, the cache, the frames sent and the calls under way stay in
\* their sets; an ARP request is sent at most MAX_SENT_TIME times.
THEOREM TypeCorrect == Spec => []TypeOK
<1>1. IInv => TypeOK
  BY DEF IInv
<1>2. QED
  BY <1>1, Invariance, PTL

\* There is never a second request for a next hop: the first one that a search finds is
\* the only one.
THEOREM QueueSound == Spec => []UniqueRequests
<1>1. IInv => UniqueRequests
  BY DEF IInv
<1>2. QED
  BY <1>1, Invariance, PTL

\* A request of which the ticker reads the first packet has one: packets.front() is
\* defined whatever the resets have removed since.
THEOREM FrontDefined == Spec => []FrontExists
<1>1. IInv => FrontExists
  BY DEF IInv
<1>2. QED
  BY <1>1, Invariance, PTL

\* Every waiting packet waits for the next hop, and with the interface, of its route.
THEOREM WaitersRouted == Spec => []QueueRouted
<1>1. IInv => QueueRouted
  BY DEF IInv
<1>2. QED
  BY <1>1, Invariance, PTL

\* No packet is left waiting for an address that is in the cache: the critical
\* sections of lookup, queueRequest, insertArpEntry and removeRequest leave no gap
\* for the ticker and the resets.
THEOREM NothingStranded == Spec => []NoneStranded
<1>1. IInv => NoneStranded
  BY DEF IInv
<1>2. QED
  BY <1>1, Invariance, PTL

\* Every IP frame is sent on the interface of its route, to an address its next
\* hop announced.
THEOREM EveryFrameRouted == Spec => []FramesRouted
<1>1. IInv => FramesRouted
  BY DEF IInv
<1>2. QED
  BY <1>1, Invariance, PTL

=============================================================================
