------------------------- MODULE RouterWaiterProofs -------------------------
(***************************************************************************)
(* No packet is lost in the handover between the threads: the proof that   *)
(* every step keeps a waiting packet, sends it, or reports it.             *)
(***************************************************************************)
EXTENDS SimpleRouterProofs

-----------------------------------------------------------------------------
(* Packets of requests *)

Has(packets, p) == \E k \in DOMAIN packets : packets[k].packet = p

\* Packet p waits for the next hop h.
At(list, h, p) == \E i \in DOMAIN list : list[i].ip = h /\ Has(list[i].packets, p)

\* Packet p is with the call of the dispatch thread that forwards it.
InForwarding(p) == handler.pc \in {"lookup", "queue"} /\ handler.packet = p

\* Whoever holds a request that is still listed has all the packets of it, so that
\* removing it loses none.
HeldCovers == held.linked => \A p : At(m_arpRequests, held.ip, p) => Has(held.packets, p)

\* What may become of a packet in a step that is no reset.
Accounted(p) == Sent(p)' \/ Told(p)' \/ Untold(p)

LEMMA WaitingPlaces ==
    ASSUME NEW p
    PROVE  p \in Waiting <=> \/ \E h : At(m_arpRequests, h, p)
                             \/ Has(held.packets, p)
                             \/ InForwarding(p)
<1>1. p \in UNION {{m_arpRequests[i].packets[k].packet : k \in DOMAIN m_arpRequests[i].packets}
                      : i \in DOMAIN m_arpRequests}
      <=> \E h : At(m_arpRequests, h, p)
  BY DEF At, Has
<1>2. p \in {held.packets[k].packet : k \in DOMAIN held.packets} <=> Has(held.packets, p)
  BY DEF Has
<1>3. p \in (IF handler.pc \in {"lookup", "queue"} THEN {handler.packet} ELSE {})
      <=> InForwarding(p)
  BY DEF InForwarding
<1>4. QED
  BY <1>1, <1>2, <1>3 DEF Waiting

LEMMA WaitingPlacesAfter ==
    ASSUME NEW p
    PROVE  p \in Waiting' <=> \/ \E h : At(m_arpRequests', h, p)
                              \/ Has(held'.packets, p)
                              \/ InForwarding(p)'
<1>1. p \in UNION {{m_arpRequests'[i].packets[k].packet : k \in DOMAIN m_arpRequests'[i].packets}
                      : i \in DOMAIN m_arpRequests'}
      <=> \E h : At(m_arpRequests', h, p)
  BY DEF At, Has
<1>2. p \in {held'.packets[k].packet : k \in DOMAIN held'.packets} <=> Has(held'.packets, p)
  BY DEF Has
<1>3. p \in (IF handler'.pc \in {"lookup", "queue"} THEN {handler'.packet} ELSE {})
      <=> InForwarding(p)'
  BY DEF InForwarding
<1>4. QED
  BY <1>1, <1>2, <1>3 DEF Waiting

LEMMA AppendHas ==
    ASSUME NEW packets \in Seq(PendingPacket), NEW pending \in PendingPacket, NEW p
    PROVE  Has(Append(packets, pending), p) <=> Has(packets, p) \/ pending.packet = p
<1>1. /\ Append(packets, pending) \in Seq(PendingPacket)
      /\ Len(Append(packets, pending)) = Len(packets) + 1
      /\ \A k \in 1..Len(packets) : Append(packets, pending)[k] = packets[k]
      /\ Append(packets, pending)[Len(packets) + 1] = pending
  BY AppendProperties
<1>2. Len(packets) \in Nat /\ DOMAIN packets = 1..Len(packets)
  BY LenProperties
<1>3. DOMAIN Append(packets, pending) = 1..(Len(packets) + 1)
  BY <1>1, LenProperties
<1>4. 1..(Len(packets) + 1) = (1..Len(packets)) \cup {Len(packets) + 1}
  BY <1>2
<1>5. QED
  BY <1>1, <1>2, <1>3, <1>4 DEF Has

LEMMA TailHas ==
    ASSUME NEW packets \in Seq(PendingPacket), packets # <<>>, NEW p
    PROVE  Has(packets, p) <=> Has(Tail(packets), p) \/ Head(packets).packet = p
<1>1. /\ Tail(packets) \in Seq(PendingPacket)
      /\ Len(Tail(packets)) = Len(packets) - 1
      /\ \A k \in 1..Len(Tail(packets)) : Tail(packets)[k] = packets[k + 1]
  BY HeadTailProperties
<1>2. Len(packets) \in Nat \ {0} /\ DOMAIN packets = 1..Len(packets)
  BY LenProperties, EmptySeq
<1>3. DOMAIN Tail(packets) = 1..(Len(packets) - 1)
  BY <1>1, LenProperties
<1>4. Head(packets) = packets[1]
  OBVIOUS
<1>5. ASSUME Has(packets, p), Head(packets).packet # p PROVE Has(Tail(packets), p)
  <2>1. PICK k \in 1..Len(packets) : packets[k].packet = p
    BY <1>2, <1>5 DEF Has
  <2>2. k - 1 \in 1..(Len(packets) - 1) /\ (k - 1) + 1 = k
    BY <1>2, <1>4, <1>5, <2>1
  <2>3. Tail(packets)[k - 1] = packets[k]
    BY <1>1, <2>2
  <2>4. QED
    BY <1>3, <2>1, <2>2, <2>3 DEF Has
<1>6. ASSUME Has(Tail(packets), p) PROVE Has(packets, p)
  <2>1. PICK k \in 1..(Len(packets) - 1) : Tail(packets)[k].packet = p
    BY <1>3, <1>6 DEF Has
  <2>2. packets[k + 1].packet = p /\ k + 1 \in 1..Len(packets)
    BY <1>1, <1>2, <2>1
  <2>3. QED
    BY <1>2, <2>2 DEF Has
<1>7. Head(packets).packet = p => Has(packets, p)
  BY <1>2, <1>4 DEF Has
<1>8. QED
  BY <1>5, <1>6, <1>7

-----------------------------------------------------------------------------
(* Lists of requests *)

\* Rewriting the request at position i, with the same next hop.
LEMMA AtRewritten ==
    ASSUME NEW list \in Seq(ArpRequest), NEW i \in DOMAIN list,
           NEW r, r.ip = list[i].ip, NEW h, NEW p
    PROVE  At([list EXCEPT ![i] = r], h, p)
               <=> \/ h = r.ip /\ Has(r.packets, p)
                   \/ \E j \in DOMAIN list \ {i} : list[j].ip = h /\ Has(list[j].packets, p)
<1> DEFINE new == [list EXCEPT ![i] = r]
<1>1. DOMAIN new = DOMAIN list /\ new[i] = r /\ \A j \in DOMAIN list \ {i} : new[j] = list[j]
  OBVIOUS
<1> HIDE DEF new
<1>2. At(new, h, p) <=> \/ h = r.ip /\ Has(r.packets, p)
                        \/ \E j \in DOMAIN list \ {i} : list[j].ip = h /\ Has(list[j].packets, p)
  BY <1>1 DEF At
<1>3. QED
  BY <1>2 DEF new

\* Queueing adds the packet to the request for its next hop, and nothing else.
LEMMA QueuedAt ==
    ASSUME m_arpRequests \in Seq(ArpRequest),
           NEW requests \in Seq(ArpRequest), Len(requests) = Len(m_arpRequests),
           \A i \in 1..Len(requests) : requests[i].ip = m_arpRequests[i].ip,
           NEW ip \in IP, NEW pending \in PendingPacket, NEW h, NEW p
    PROVE  At(Queued(requests, ip, pending), h, p)
               <=> At(requests, h, p) \/ (h = ip /\ p = pending.packet)
<1> DEFINE q == Queued(requests, ip, pending)
           fresh == [ip |-> ip, nTimesSent |-> 0, packets |-> <<pending>>]
<1>0. /\ Len(requests) \in Nat /\ DOMAIN requests = 1..Len(requests)
      /\ \A i \in 1..Len(requests) : requests[i] \in ArpRequest
  BY LenProperties, ElementOfSeq
<1>1. CASE HasRequest(ip)
  <2> DEFINE f == FindRequest(ip)
             more == [requests[f] EXCEPT !.packets = Append(@, pending)]
  <2>1. f \in DOMAIN requests /\ requests[f].ip = ip
    BY <1>0, <1>1, FindRequestFound
  <2>2. requests[f] \in ArpRequest /\ requests[f].packets \in Seq(PendingPacket)
    BY <1>0, <2>1 DEF ArpRequest
  <2>3. more.ip = ip /\ more.packets = Append(requests[f].packets, pending)
    BY <2>1, <2>2 DEF ArpRequest
  <2>4. q = [requests EXCEPT ![f] = more]
    BY <1>1 DEF Queued
  <2> HIDE DEF more, f, q
  <2>5. At(q, h, p)
            <=> \/ h = ip /\ Has(more.packets, p)
                \/ \E j \in DOMAIN requests \ {f} : requests[j].ip = h /\ Has(requests[j].packets, p)
    <3>1. more.ip = requests[f].ip
      BY <2>1, <2>3
    <3>2. At([requests EXCEPT ![f] = more], h, p)
              <=> \/ h = more.ip /\ Has(more.packets, p)
                  \/ \E j \in DOMAIN requests \ {f} : requests[j].ip = h /\ Has(requests[j].packets, p)
      BY <2>1, <3>1, AtRewritten
    <3>3. QED
      BY <2>3, <2>4, <3>2
  <2>6. Has(more.packets, p) <=> Has(requests[f].packets, p) \/ pending.packet = p
    BY <2>2, <2>3, AppendHas
  <2>7. At(q, h, p) <=> At(requests, h, p) \/ (h = ip /\ p = pending.packet)
    BY <2>1, <2>5, <2>6 DEF At
  <2>8. QED
    BY <2>7 DEF q
<1>2. CASE ~HasRequest(ip)
  <2>1. fresh \in ArpRequest /\ fresh.ip = ip /\ fresh.packets = <<pending>>
    BY ArpAssumption DEF ArpRequest
  <2>2. q = Append(requests, fresh)
    BY <1>2 DEF Queued
  <2>3. Has(fresh.packets, p) <=> p = pending.packet
    BY <2>1 DEF Has
  <2> HIDE DEF fresh, q
  <2>4. /\ q \in Seq(ArpRequest)
        /\ Len(q) = Len(requests) + 1
        /\ \A j \in 1..Len(requests) : q[j] = requests[j]
        /\ q[Len(requests) + 1] = fresh
    BY <2>1, <2>2, AppendProperties
  <2>5. DOMAIN q = (DOMAIN requests) \cup {Len(requests) + 1}
    BY <1>0, <2>4, LenProperties
  <2>6. At(q, h, p) <=> At(requests, h, p) \/ (h = ip /\ p = pending.packet)
    BY <1>0, <2>1, <2>3, <2>4, <2>5 DEF At
  <2>7. QED
    BY <2>6 DEF q
<1>3. QED
  BY <1>1, <1>2

\* Erasing the request at position i takes its packets away, and no others.
LEMMA WithoutAt ==
    ASSUME NEW list \in Seq(ArpRequest), NEW i \in 1..Len(list), NEW h, NEW p
    PROVE  /\ At(Without(list, i), h, p) => At(list, h, p)
           /\ At(list, h, p) => \/ At(Without(list, i), h, p)
                                \/ h = list[i].ip /\ Has(list[i].packets, p)
<1> DEFINE w == Without(list, i)
<1>1. Len(list) \in Nat /\ DOMAIN list = 1..Len(list)
  BY LenProperties
<1>2. /\ w \in Seq(ArpRequest)
      /\ Len(w) = Len(list) - 1
      /\ \A j \in 1..(Len(list) - 1) : w[j] = IF j < i THEN list[j] ELSE list[j + 1]
  BY WithoutProperties
<1>3. DOMAIN w = 1..(Len(list) - 1)
  BY <1>2, LenProperties
<1> HIDE DEF w
<1>4. ASSUME At(w, h, p) PROVE At(list, h, p)
  <2>1. PICK j \in 1..(Len(list) - 1) : w[j].ip = h /\ Has(w[j].packets, p)
    BY <1>3, <1>4 DEF At
  <2>2. (IF j < i THEN j ELSE j + 1) \in DOMAIN list
    BY <1>1
  <2>3. QED
    BY <1>2, <2>1, <2>2 DEF At
<1>5. ASSUME NEW k \in DOMAIN list, k # i
      PROVE  \E j \in DOMAIN w : w[j] = list[k]
  <2> DEFINE j == IF k < i THEN k ELSE k - 1
  <2>1. j \in 1..(Len(list) - 1) /\ k = IF j < i THEN j ELSE j + 1
    BY <1>1, <1>5
  <2>2. QED
    BY <1>2, <1>3, <2>1
<1>6. At(list, h, p) => At(w, h, p) \/ (h = list[i].ip /\ Has(list[i].packets, p))
  BY <1>5 DEF At
<1>7. QED
  BY <1>4, <1>6 DEF w

\* Taking the first packet off the request that is scanned.
LEMMA NextWaiterAt ==
    ASSUME IInv, GivingUp, NEW h, NEW p
    PROVE  /\ At(NextWaiter, h, p) => At(m_arpRequests, h, p)
           /\ At(m_arpRequests, h, p) => At(NextWaiter, h, p) \/ p = Waiter.packet
<1> DEFINE rest == [Scanned EXCEPT !.packets = Tail(@)]
<1>1. it \in DOMAIN m_arpRequests /\ Scanned.packets # <<>>
  BY DEF GivingUp
<1>2. Scanned \in ArpRequest /\ Scanned.packets \in Seq(PendingPacket)
  BY <1>1, ScannedFacts DEF ArpRequest
<1>3. rest.ip = Scanned.ip /\ rest.packets = Tail(Scanned.packets)
  BY <1>2 DEF ArpRequest
<1>4. NextWaiter = [m_arpRequests EXCEPT ![it] = rest]
  BY DEF NextWaiter, Scanned
<1> HIDE DEF rest
<1>5. At(NextWaiter, h, p)
          <=> \/ h = Scanned.ip /\ Has(rest.packets, p)
              \/ \E j \in DOMAIN m_arpRequests \ {it} :
                     m_arpRequests[j].ip = h /\ Has(m_arpRequests[j].packets, p)
  <2>1. m_arpRequests \in Seq(ArpRequest) /\ rest.ip = m_arpRequests[it].ip
    BY <1>3, QueueAsList DEF Scanned
  <2>2. At([m_arpRequests EXCEPT ![it] = rest], h, p)
            <=> \/ h = rest.ip /\ Has(rest.packets, p)
                \/ \E j \in DOMAIN m_arpRequests \ {it} :
                       m_arpRequests[j].ip = h /\ Has(m_arpRequests[j].packets, p)
    BY <1>1, <2>1, AtRewritten
  <2>3. QED
    BY <1>3, <1>4, <2>2
<1>6. Has(Scanned.packets, p) <=> Has(rest.packets, p) \/ Waiter.packet = p
  BY <1>1, <1>2, <1>3, TailHas DEF Waiter
<1>7. QED
  BY <1>1, <1>5, <1>6 DEF At, Scanned

-----------------------------------------------------------------------------
(* Steps that leave all packets where they are *)

LEMMA StaysListed ==
    ASSUME UNCHANGED <<m_arpRequests, held>>, NEW p \in Waiting \ Waiting'
    PROVE  InForwarding(p) /\ ~InForwarding(p)'
BY WaitingPlaces, WaitingPlacesAfter

LEMMA CoversAfter ==
    ASSUME held'.linked => \A p : At(m_arpRequests', held'.ip, p) => Has(held'.packets, p)
    PROVE  HeldCovers'
BY DEF HeldCovers, At, Has

LEMMA CoversAsBefore ==
    ASSUME HeldCovers, UNCHANGED <<m_arpRequests, held>>
    PROVE  HeldCovers'
BY DEF HeldCovers, At, Has

\* No packet is with the dispatch thread before the step, or the same one stays.
LEMMA QuietStep ==
    ASSUME HeldCovers, UNCHANGED <<m_arpRequests, held>>,
           \/ handler.pc \notin {"lookup", "queue"}
           \/ UNCHANGED handler
    PROVE  HeldCovers' /\ \A p \in Waiting \ Waiting' : Accounted(p)
<1>1. \A p : InForwarding(p) => InForwarding(p)'
  BY DEF InForwarding
<1>2. QED
  BY <1>1, StaysListed, CoversAsBefore

LEMMA QuietTicker ==
    ASSUME HeldCovers, Ticker, TickerWakes \/ TickerCrashes \/ TickerSleeps
    PROVE  HeldCovers' /\ \A p \in Waiting \ Waiting' : Accounted(p)
BY QuietStep DEF Ticker, TickerWakes, TickerCrashes, TickerSleeps

LEMMA QuietHandler ==
    ASSUME HeldCovers,
           \/ \E f \in Arrivals : HandlePacket(f)
           \/ \E ports \in Ports : ResetRouter(ports)
           \/ LookupCrashes \/ DispatchWipes \/ DispatchFills
    PROVE  HeldCovers' /\ \A p \in Waiting \ Waiting' : Accounted(p)
<1>1. CASE \E f \in Arrivals : HandlePacket(f)
  <2>1. handler = Idle /\ UNCHANGED <<m_arpRequests, held>>
    BY <1>1 DEF HandlePacket, IgnoreFrame, AnswerArp, ReceiveArpReply, AnswerEcho, RefusePort,
       ReportExpired, ForwardIp, ArrivesIp, Arrives
  <2>2. QED
    BY <2>1, QuietStep DEF Idle
<1>2. CASE \E ports \in Ports : ResetRouter(ports)
  BY <1>2, QuietStep DEF ResetRouter, Idle
<1>3. CASE LookupCrashes
  BY <1>3, QuietStep DEF LookupCrashes
<1>4. CASE DispatchWipes
  BY <1>4, QuietStep DEF DispatchWipes, Wipes
<1>5. CASE DispatchFills
  BY <1>5, QuietStep DEF DispatchFills, Fills
<1>6. QED
  BY <1>1, <1>2, <1>3, <1>4, <1>5

LEMMA QuietMain ==
    ASSUME HeldCovers, MainWipes \/ MainFills
    PROVE  HeldCovers' /\ \A p \in Waiting \ Waiting' : Accounted(p)
<1>1. CASE MainWipes
  <2>1. /\ UNCHANGED <<m_arpRequests, held>>
        /\ handler.pc \in {"insert", "remove"} \/ UNCHANGED handler
    BY <1>1 DEF MainWipes, Wipes
  <2>2. QED
    BY <2>1, QuietStep
<1>2. CASE MainFills
  BY <1>2, QuietStep DEF MainFills, Fills
<1>3. QED
  BY <1>1, <1>2

\* A reset empties the list, and nobody holds a request that is in it.
LEMMA ClearCovers ==
    ASSUME IInv, Clears
    PROVE  HeldCovers'
<1>1. held' = [held EXCEPT !.linked = FALSE] /\ held \in Held
  BY DEF Clears, clear, IInv, TypeOK, ArpTypeOK
<1>2. ~held'.linked
  BY <1>1 DEF Held
<1>3. QED
  BY <1>2 DEF HeldCovers

-----------------------------------------------------------------------------
(* A call that forwards *)

LEMMA LookupHitTells ==
    ASSUME HeldCovers, LookupHit
    PROVE  HeldCovers' /\ \A p \in Waiting \ Waiting' : Accounted(p)
<1>1. UNCHANGED <<m_arpRequests, held>>
  BY DEF LookupHit
<1>2. \A p : handler.packet = p => Sent(p)'
  <2>1. wire' = <<IpFrame(handler.next_hop.ifName, handler.next_hop.ifName,
                          EntryMac(handler.next_hop.gw), handler.packet)>>
    BY DEF LookupHit
  <2>2. DOMAIN wire' = {1} /\ wire'[1].type = "ip" /\ wire'[1].packet = handler.packet
    BY <2>1 DEF IpFrame
  <2>3. QED
    BY <2>2 DEF Sent
<1>3. \A p \in Waiting \ Waiting' : InForwarding(p)
  BY <1>1, StaysListed
<1>4. \A p \in Waiting \ Waiting' : Sent(p)'
  BY <1>2, <1>3 DEF InForwarding
<1>5. \A p \in Waiting \ Waiting' : Accounted(p)
  BY <1>4 DEF Accounted, Sent
<1>6. QED
  BY <1>1, <1>5, CoversAsBefore

LEMMA LookupMissTells ==
    ASSUME IInv, HeldCovers, LookupMiss
    PROVE  HeldCovers' /\ \A p \in Waiting \ Waiting' : Accounted(p)
<1>1. UNCHANGED <<m_arpRequests, held>> /\ handler \in Forwarding
      /\ handler' = [handler EXCEPT !.pc = "queue"]
  BY HandlerShape DEF LookupMiss, IInv
<1>2. handler'.pc = "queue" /\ handler'.packet = handler.packet
  BY <1>1 DEF Forwarding
<1>3. \A p : InForwarding(p) => InForwarding(p)'
  BY <1>2 DEF InForwarding
<1>4. QED
  BY <1>1, <1>3, StaysListed, CoversAsBefore

\* What queueing does to the list and to whoever holds the request.
LEMMA QueueingTells ==
    ASSUME IInv, HeldCovers,
           NEW requests \in Seq(ArpRequest), Len(requests) = Len(m_arpRequests),
           \A i \in 1..Len(requests) : requests[i].ip = m_arpRequests[i].ip,
           \A h, p : At(requests, h, p) => At(m_arpRequests, h, p),
           NEW ip \in IP, NEW pending \in PendingPacket,
           m_arpRequests' = Queued(requests, ip, pending),
           held' = HeldQueued(ip, pending)
    PROVE  /\ HeldCovers'
           /\ pending.packet \in Waiting'
           /\ \A h, p : At(requests, h, p) => p \in Waiting'
           /\ \A p : Has(held.packets, p) => p \in Waiting'
<1>1. m_arpRequests \in Seq(ArpRequest) /\ held \in Held /\ held.packets \in Seq(PendingPacket)
  BY QueueAsList DEF IInv, TypeOK, ArpTypeOK, Held
<1>2. \A h, p : At(m_arpRequests', h, p)
                  <=> At(requests, h, p) \/ (h = ip /\ p = pending.packet)
  BY <1>1, QueuedAt
<1>3. held'.ip = held.ip /\ held'.linked = held.linked
  BY <1>1 DEF HeldQueued, Held
<1>4. \A p : Has(held.packets, p) => Has(held'.packets, p)
  <2>1. CASE held.ip = ip /\ held.linked
    <3>1. held'.packets = Append(held.packets, pending)
      BY <1>1, <2>1 DEF HeldQueued, Held
    <3>2. QED
      BY <1>1, <3>1, AppendHas
  <2>2. CASE ~(held.ip = ip /\ held.linked)
    BY <2>2 DEF HeldQueued
  <2>3. QED
    BY <2>1, <2>2
<1>5. held.ip = ip /\ held.linked => Has(held'.packets, pending.packet)
  <2> SUFFICES ASSUME held.ip = ip, held.linked PROVE Has(held'.packets, pending.packet)
    OBVIOUS
  <2>1. held'.packets = Append(held.packets, pending)
    BY <1>1 DEF HeldQueued, Held
  <2>2. QED
    BY <1>1, <2>1, AppendHas
<1>6. \A p : held'.linked /\ At(m_arpRequests', held'.ip, p) => Has(held'.packets, p)
  BY <1>2, <1>3, <1>4, <1>5 DEF HeldCovers
<1>7. HeldCovers'
  BY <1>6, CoversAfter
<1>8. QED
  BY <1>2, <1>4, <1>7, WaitingPlacesAfter

LEMMA QueuePacketTells ==
    ASSUME IInv, HeldCovers, QueuePacket
    PROVE  HeldCovers' /\ \A p \in Waiting \ Waiting' : Accounted(p)
<1> DEFINE pending == [packet |-> handler.packet, iface |-> handler.next_hop.ifName]
           gw == handler.next_hop.gw
<1>1. /\ handler \in Forwarding
      /\ m_arpRequests' = Queued(m_arpRequests, gw, pending)
      /\ held' = HeldQueued(gw, pending)
  BY HandlerShape DEF QueuePacket, IInv
<1>2. pending \in PendingPacket /\ gw \in IP /\ pending.packet = handler.packet
  BY <1>1 DEF Forwarding, Route, PendingPacket
<1> HIDE DEF pending, gw
<1>3. /\ HeldCovers'
      /\ pending.packet \in Waiting'
      /\ \A h, p : At(m_arpRequests, h, p) => p \in Waiting'
      /\ \A p : Has(held.packets, p) => p \in Waiting'
  BY <1>1, <1>2, QueueAsList, QueueingTells
<1>4. \A p \in Waiting : p \in Waiting'
  BY <1>2, <1>3, WaitingPlaces DEF InForwarding
<1>5. QED
  BY <1>3, <1>4

-----------------------------------------------------------------------------
(* A call that handles a reply *)

LEMMA InsertEntryTells ==
    ASSUME IInv, HeldCovers, InsertEntry
    PROVE  HeldCovers' /\ \A p \in Waiting \ Waiting' : Accounted(p)
<1>1. /\ handler.pc = "insert" /\ UNCHANGED m_arpRequests
      /\ held' = IF HasRequest(handler.ip)
                 THEN [ip |-> handler.ip,
                       packets |-> m_arpRequests[FindRequest(handler.ip)].packets,
                       linked |-> TRUE]
                 ELSE Null
  BY DEF InsertEntry, insertArpEntry
<1>2. held.packets = <<>>
  BY <1>1 DEF IInv, HeldByHandler
<1>3. \A p : ~Has(held.packets, p)
  BY <1>2 DEF Has
<1>4. \A p \in Waiting : p \in Waiting'
  BY <1>1, <1>3, WaitingPlaces, WaitingPlacesAfter DEF InForwarding
<1>5. CASE HasRequest(handler.ip)
  <2>1. /\ FindRequest(handler.ip) \in DOMAIN m_arpRequests
        /\ m_arpRequests[FindRequest(handler.ip)].ip = handler.ip
    BY <1>5, FindRequestFound, QueueAsList
  <2>2. held'.ip = handler.ip /\ held'.packets = m_arpRequests[FindRequest(handler.ip)].packets
    BY <1>1, <1>5
  <2>3. \A p : At(m_arpRequests', held'.ip, p) => Has(held'.packets, p)
    BY <1>1, <2>1, <2>2 DEF At, IInv, UniqueRequests
  <2>4. QED
    BY <1>4, <2>3 DEF HeldCovers, At, Has
<1>6. CASE ~HasRequest(handler.ip)
  <2>1. ~held'.linked
    BY <1>1, <1>6 DEF Null
  <2>2. QED
    BY <1>4, <2>1 DEF HeldCovers
<1>7. QED
  BY <1>5, <1>6

\* The packets of the request removed are those that are sent.
LEMMA RemoveAndSendTells ==
    ASSUME IInv, HeldCovers, RemoveAndSend
    PROVE  HeldCovers' /\ \A p \in Waiting \ Waiting' : Accounted(p)
<1>1. /\ handler.pc = "remove" /\ held' = Null
      /\ wire' = [i \in DOMAIN held.packets |->
                     IpFrame(held.packets[i].iface, handler.iface, handler.mac,
                             held.packets[i].packet)]
      /\ m_arpRequests' = IF held.linked
                          THEN Without(m_arpRequests, FindRequest(held.ip))
                          ELSE m_arpRequests
  BY DEF RemoveAndSend, removeRequest
<1>2. ~held'.linked
  BY <1>1 DEF Null
<1>3. \A p : Has(held.packets, p) => Sent(p)'
  <2>1. \A i \in DOMAIN held.packets :
            wire'[i].type = "ip" /\ wire'[i].packet = held.packets[i].packet
    BY <1>1 DEF IpFrame
  <2>2. DOMAIN wire' = DOMAIN held.packets
    BY <1>1
  <2>3. QED
    BY <2>1, <2>2 DEF Has, Sent
<1>4. \A h, p : At(m_arpRequests, h, p) => At(m_arpRequests', h, p) \/ Has(held.packets, p)
  <2>1. CASE held.linked
    <3>1. HasRequest(held.ip)
      BY <2>1 DEF IInv, HeldByHandler
    <3>2. /\ FindRequest(held.ip) \in 1..Len(m_arpRequests)
          /\ m_arpRequests[FindRequest(held.ip)].ip = held.ip
      BY <3>1, FindRequestFound, QueueAsList
    <3>3. ASSUME NEW h, NEW p, At(m_arpRequests, h, p), ~At(m_arpRequests', h, p)
          PROVE  Has(held.packets, p)
      <4>1. h = held.ip
        BY <1>1, <2>1, <3>2, <3>3, WithoutAt, QueueAsList
      <4>2. QED
        BY <2>1, <3>3, <4>1 DEF HeldCovers
    <3>4. QED
      BY <3>3
  <2>2. CASE ~held.linked
    BY <1>1, <2>2
  <2>3. QED
    BY <2>1, <2>2
<1>5. \A p \in Waiting \ Waiting' : Sent(p)'
  BY <1>1, <1>3, <1>4, WaitingPlaces, WaitingPlacesAfter DEF InForwarding
<1>6. QED
  BY <1>2, <1>5 DEF HeldCovers, Accounted, Sent

-----------------------------------------------------------------------------
(* The ticker *)

LEMMA ResendTells ==
    ASSUME IInv, HeldCovers, ResendRequest, UNCHANGED handler
    PROVE  HeldCovers' /\ \A p \in Waiting \ Waiting' : Accounted(p)
<1> DEFINE again == [Scanned EXCEPT !.nTimesSent = @ + 1]
<1>1. it \in DOMAIN m_arpRequests /\ UNCHANGED held
      /\ m_arpRequests' = [m_arpRequests EXCEPT ![it] = again]
  BY DEF ResendRequest, Scanned
<1>2. Scanned \in ArpRequest
  BY <1>1, ScannedFacts
<1>3. again.ip = m_arpRequests[it].ip /\ again.packets = m_arpRequests[it].packets
  BY <1>2 DEF ArpRequest, Scanned
<1> HIDE DEF again
<1>4. ASSUME NEW h, NEW p
      PROVE  At(m_arpRequests', h, p) <=> At(m_arpRequests, h, p)
  <2>1. At([m_arpRequests EXCEPT ![it] = again], h, p)
            <=> \/ h = again.ip /\ Has(again.packets, p)
                \/ \E j \in DOMAIN m_arpRequests \ {it} :
                       m_arpRequests[j].ip = h /\ Has(m_arpRequests[j].packets, p)
    <3>1. /\ m_arpRequests \in Seq(ArpRequest) /\ it \in DOMAIN m_arpRequests
          /\ again.ip = m_arpRequests[it].ip
      BY <1>1, <1>3, QueueAsList
    <3>2. QED
      BY <3>1, AtRewritten
  <2>2. QED
    BY <1>1, <1>3, <2>1 DEF At
<1>5. \A p \in Waiting : p \in Waiting'
  BY <1>1, <1>4, WaitingPlaces, WaitingPlacesAfter DEF InForwarding
<1>6. held'.linked => \A p : At(m_arpRequests', held'.ip, p) => Has(held'.packets, p)
  BY <1>1, <1>4 DEF HeldCovers
<1>7. QED
  BY <1>5, <1>6, CoversAfter

\* The interface of the packet a request is given up for.
LEMMA GivingUpFacts ==
    ASSUME IInv, GivingUp
    PROVE  /\ Waiter.iface \in Iface
           /\ Unreachable = IcmpError("host_unreachable", IfIp[Waiter.iface], Waiter.packet.src)
           /\ m_arpRequests \in Seq(ArpRequest)
           /\ NextWaiter \in Seq(ArpRequest)
           /\ Len(NextWaiter) = Len(m_arpRequests)
           /\ \A i \in 1..Len(NextWaiter) : NextWaiter[i].ip = m_arpRequests[i].ip
<1>1. Waiter.iface \in Iface
  BY ScannedFacts DEF GivingUp, PendingPacket
<1>2. QED
  BY <1>1, NextWaiterFacts, QueueAsList, LenProperties DEF Unreachable

LEMMA WaiterToldTells ==
    ASSUME IInv, HeldCovers, WaiterTold, UNCHANGED handler
    PROVE  HeldCovers' /\ \A p \in Waiting \ Waiting' : Accounted(p)
<1> DEFINE frame == IpFrame(RT[Waiter.packet.src].ifName, Waiter.iface,
                            EntryMac(RT[Waiter.packet.src].gw), Unreachable)
<1>1. GivingUp /\ m_arpRequests' = NextWaiter /\ UNCHANGED held /\ wire' = <<frame>>
  BY DEF WaiterTold
<1>2. frame.type = "ip" /\ frame.packet = Unreachable
  BY DEF IpFrame
<1> HIDE DEF frame
<1>3. DOMAIN wire' = {1} /\ wire'[1] = frame
  BY <1>1
<1>4. ASSUME NEW p, p = Waiter.packet
      PROVE  Told(p)'
  <2>1. /\ Waiter.iface \in Iface
        /\ Unreachable = IcmpError("host_unreachable", IfIp[Waiter.iface], p.src)
    BY <1>1, <1>4, GivingUpFacts
  <2>2. \E i \in Iface : \E k \in DOMAIN wire' :
            /\ wire'[k].type = "ip"
            /\ wire'[k].packet = IcmpError("host_unreachable", IfIp[i], p.src)
    BY <1>2, <1>3, <2>1
  <2>3. QED
    BY <2>2 DEF Told, Sent, IcmpError
<1>5. ASSUME NEW p \in Waiting \ Waiting'
      PROVE  p = Waiter.packet
  BY <1>1, NextWaiterAt, WaitingPlaces, WaitingPlacesAfter DEF InForwarding
<1>6. \A p \in Waiting \ Waiting' : Told(p)'
  BY <1>4, <1>5
<1>7. held'.linked => \A p : At(m_arpRequests', held'.ip, p) => Has(held'.packets, p)
  BY <1>1, NextWaiterAt DEF HeldCovers
<1>8. QED
  BY <1>6, <1>7, CoversAfter DEF Accounted

LEMMA WaiterErrorQueuedTells ==
    ASSUME IInv, HeldCovers, WaiterErrorQueued, UNCHANGED handler
    PROVE  HeldCovers' /\ \A p \in Waiting \ Waiting' : Accounted(p)
<1> DEFINE next_hop == RT[Waiter.packet.src]
           error == [packet |-> Unreachable, iface |-> next_hop.ifName]
<1>1. /\ GivingUp /\ next_hop # NoRoute
      /\ m_arpRequests' = Queued(NextWaiter, next_hop.gw, error)
      /\ held' = HeldQueued(next_hop.gw, error)
  BY DEF WaiterErrorQueued
<1>2. error \in PendingPacket /\ next_hop.gw \in IP /\ error.packet = Unreachable
  BY <1>1, ErrorRoute DEF Route, PendingPacket
<1> HIDE DEF next_hop, error
<1>3. \A h, p : At(NextWaiter, h, p) => At(m_arpRequests, h, p)
  BY <1>1, NextWaiterAt
<1>4. /\ HeldCovers'
      /\ error.packet \in Waiting'
      /\ \A h, p : At(NextWaiter, h, p) => p \in Waiting'
      /\ \A p : Has(held.packets, p) => p \in Waiting'
  BY <1>1, <1>2, <1>3, GivingUpFacts, QueueingTells
<1>5. ASSUME NEW p, p = Waiter.packet
      PROVE  Told(p)'
  <2>1. /\ Waiter.iface \in Iface
        /\ Unreachable = IcmpError("host_unreachable", IfIp[Waiter.iface], p.src)
    BY <1>1, <1>5, GivingUpFacts
  <2>2. \E i \in Iface : IcmpError("host_unreachable", IfIp[i], p.src) \in Waiting'
    BY <1>2, <1>4, <2>1
  <2>3. QED
    BY <2>2 DEF Told, IcmpError
<1>6. ASSUME NEW p \in Waiting \ Waiting'
      PROVE  p = Waiter.packet
  BY <1>1, <1>4, NextWaiterAt, WaitingPlaces, WaitingPlacesAfter DEF InForwarding
<1>7. QED
  BY <1>4, <1>5, <1>6 DEF Accounted

\* A request leaves the list with the packets it still has.
LEMMA UnlinkTells ==
    ASSUME IInv, HeldCovers, it \in DOMAIN m_arpRequests, Unlink(it), UNCHANGED handler
    PROVE  /\ HeldCovers'
           /\ \A p \in Waiting \ Waiting' : Has(Scanned.packets, p)
<1>1. /\ m_arpRequests \in Seq(ArpRequest) /\ it \in 1..Len(m_arpRequests)
      /\ m_arpRequests' = Without(m_arpRequests, it)
  BY QueueAsList DEF Unlink
<1>2. held \in Held
  BY DEF IInv, TypeOK, ArpTypeOK
<1>3. /\ held'.ip = held.ip /\ held'.packets = held.packets
      /\ held'.linked => held.linked
  BY <1>2 DEF Unlink, Held
<1>4. ASSUME NEW h, NEW p
      PROVE  /\ At(m_arpRequests', h, p) => At(m_arpRequests, h, p)
             /\ At(m_arpRequests, h, p) => At(m_arpRequests', h, p) \/ Has(Scanned.packets, p)
  BY <1>1, WithoutAt DEF Scanned
<1>5. \A p \in Waiting \ Waiting' : Has(Scanned.packets, p)
  BY <1>3, <1>4, WaitingPlaces, WaitingPlacesAfter DEF InForwarding
<1>6. held'.linked => \A p : At(m_arpRequests', held'.ip, p) => Has(held'.packets, p)
  BY <1>3, <1>4 DEF HeldCovers
<1>7. QED
  BY <1>5, <1>6, CoversAfter

LEMMA RequestErasedTells ==
    ASSUME IInv, HeldCovers, RequestErased, UNCHANGED handler
    PROVE  HeldCovers' /\ \A p \in Waiting \ Waiting' : Accounted(p)
<1>1. it \in DOMAIN m_arpRequests /\ Unlink(it) /\ Scanned.packets = <<>>
  BY DEF RequestErased
<1>2. \A p : ~Has(Scanned.packets, p)
  BY <1>1 DEF Has
<1>3. QED
  BY <1>1, <1>2, UnlinkTells

LEMMA WaiterUnroutableTells ==
    ASSUME IInv, HeldCovers, WaiterUnroutable, UNCHANGED handler
    PROVE  HeldCovers' /\ \A p \in Waiting \ Waiting' : Accounted(p)
<1>1. GivingUp /\ it \in DOMAIN m_arpRequests /\ Unlink(it) /\ RT[Waiter.packet.src] = NoRoute
  BY DEF WaiterUnroutable, GivingUp
<1>2. ASSUME NEW p, Has(Scanned.packets, p)
      PROVE  RT[p.dst].gw = Scanned.ip
  <2>1. Routed(Scanned.packets, Scanned.ip)
    BY <1>1, QueueAsList DEF AllRouted, Scanned
  <2>2. PICK k \in DOMAIN Scanned.packets : Scanned.packets[k].packet = p
    BY <1>2 DEF Has
  <2>3. RT[p.dst] = [gw |-> Scanned.ip, ifName |-> Scanned.packets[k].iface]
    BY <2>1, <2>2 DEF Routed
  <2>4. QED
    BY <2>3
<1>3. ASSUME NEW p \in Waiting \ Waiting'
      PROVE  Untold(p)
  BY <1>1, <1>2, UnlinkTells DEF Untold
<1>4. QED
  BY <1>1, <1>3, UnlinkTells DEF Accounted

LEMMA TickerTells ==
    ASSUME IInv, HeldCovers, Ticker
    PROVE  HeldCovers' /\ \A p \in Waiting \ Waiting' : Accounted(p)
<1>1. UNCHANGED handler
  BY DEF Ticker
<1>2. QED
  BY <1>1, QuietTicker, ResendTells, WaiterToldTells, WaiterErrorQueuedTells,
     WaiterUnroutableTells, RequestErasedTells DEF Ticker, TickerStep, GiveUpStep

-----------------------------------------------------------------------------
(* The theorem *)

LEMMA NextTells ==
    ASSUME IInv, HeldCovers, Next
    PROVE  /\ HeldCovers'
           /\ Clears \/ \A p \in Waiting \ Waiting' : Accounted(p)
<1>1. CASE Ticker
  BY <1>1, TickerTells
<1>2. CASE \/ \E f \in Arrivals : HandlePacket(f)
           \/ \E ports \in Ports : ResetRouter(ports)
  BY <1>2, QuietHandler
<1>3. CASE InsertEntry \/ RemoveAndSend
  BY <1>3, InsertEntryTells, RemoveAndSendTells
<1>4. CASE LookupHit \/ LookupCrashes \/ LookupMiss \/ QueuePacket
  BY <1>4, LookupHitTells, QuietHandler, LookupMissTells, QueuePacketTells
<1>5. CASE DispatchClears \/ MainClears
  BY <1>5, ClearCovers DEF DispatchClears, MainClears
<1>6. CASE DispatchWipes \/ DispatchFills \/ MainWipes \/ MainFills
  BY <1>6, QuietHandler, QuietMain
<1>7. QED
  BY <1>1, <1>2, <1>3, <1>4, <1>5, <1>6 DEF Next, HandlerStep, MainStep

LEMMA CoversInvariance == Spec => [](IInv /\ HeldCovers)
<1>1. Init => HeldCovers
  BY DEF Init, ArpInit, Null, HeldCovers
<1>2. IInv /\ HeldCovers /\ [Next]_vars => HeldCovers'
  <2>1. ASSUME IInv, HeldCovers, UNCHANGED vars PROVE HeldCovers'
    BY <2>1, CoversAsBefore DEF vars
  <2>2. QED
    BY <2>1, NextTells
<1>3. QED
  BY <1>1, <1>2, Invariance, PTL DEF Spec

\* Every packet the router has accepted is sent, or its source is told, unless a packet
\* before it in the same request has no way back, or a reset clears the queue: no
\* interleaving of the ticker, the dispatch thread and the main thread loses one.
THEOREM NoneLost == Spec => AllWaitersTold
<1>1. ASSUME IInv, HeldCovers, [Next]_vars
      PROVE  [\/ Clears
              \/ \A packet \in Waiting \ Waiting' :
                     Sent(packet)' \/ Told(packet)' \/ Untold(packet)]_vars
  BY <1>1, NextTells DEF Accounted
<1>2. QED
  BY <1>1, CoversInvariance, PTL DEF Spec, AllWaitersTold
=============================================================================
