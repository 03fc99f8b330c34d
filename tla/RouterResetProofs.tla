------------------------- MODULE RouterResetProofs -------------------------
(***************************************************************************)
(* When a null interface is met: only while the router is being reset, if  *)
(* POX reports every interface that the routing table names.               *)
(***************************************************************************)
EXTENDS SimpleRouterProofs

RouteIfaces == {RT[ip].ifName : ip \in {h \in IP : RT[h] # NoRoute}}

\* The ports a thread is filling in.
Filling == main.ports \cup (IF handler.pc = "fill" THEN handler.ports ELSE {})

\* A thread that empties the list of interfaces has all of the ports with it, so that what a
\* reset of the other thread has filled in comes again.
Refilled ==
    /\ main.pc = "running" => main.ports = {}
    /\ main.pc \in {"clear", "wipe"} => RouteIfaces \subseteq main.ports
    /\ handler.pc \in {"clear", "wipe"} => RouteIfaces \subseteq handler.ports
    /\ RouteIfaces \subseteq m_ifaces \cup Filling
    /\ CrashOnlyInReset

\* Outside of a reset all the interfaces of routes are known.
LEMMA AllKnown ==
    ASSUME Refilled, ~ResetUnderWay
    PROVE  RouteIfaces \subseteq m_ifaces
BY DEF Refilled, ResetUnderWay, Filling

\* An interface the table names, and is not known.
LEMMA NullInReset ==
    ASSUME Refilled, NEW i \in RouteIfaces, i \notin m_ifaces
    PROVE  ResetUnderWay
BY AllKnown

LEMMA TickerRefills == IInv /\ Refilled /\ Ticker => Refilled'
<1> SUFFICES ASSUME IInv, Refilled, Ticker PROVE Refilled'
  OBVIOUS
<1>1. UNCHANGED <<handler, main>>
  BY DEF Ticker
<1>2. CASE TickerCrashes
  <2>1. /\ it \in DOMAIN m_arpRequests /\ Scanned.packets # <<>> /\ Waiter.iface \notin m_ifaces
        /\ UNCHANGED m_ifaces
    BY <1>2 DEF TickerCrashes
  <2>2. Waiter \in PendingPacket /\ RT[Waiter.packet.dst] = [gw |-> Scanned.ip, ifName |-> Waiter.iface]
    BY <2>1, ScannedFacts
  <2>3. Waiter.packet.dst \in IP /\ RT[Waiter.packet.dst] # NoRoute
    <3>1. Waiter.packet.dst \in IP /\ Waiter.iface \in Iface /\ Scanned \in ArpRequest
      BY <2>1, <2>2, ScannedFacts DEF PendingPacket, Packet
    <3>2. [gw |-> Scanned.ip, ifName |-> Waiter.iface] \in Route
      BY <3>1 DEF ArpRequest, Route
    <3>3. QED
      BY <2>2, <3>1, <3>2, ArpAssumption
  <2>4. Waiter.iface \in RouteIfaces
    BY <2>2, <2>3 DEF RouteIfaces
  <2>5. ResetUnderWay
    BY <2>1, <2>4, NullInReset
  <2>6. QED
    BY <1>1, <2>1, <2>5 DEF Refilled, Filling, CrashOnlyInReset, ResetUnderWay
<1>3. CASE ~TickerCrashes
  <2>1. UNCHANGED <<m_ifaces, crashed>>
    BY <1>3 DEF Ticker, TickerStep, GiveUpStep, TickerWakes, ResendRequest, WaiterTold,
       WaiterErrorQueued, WaiterUnroutable, RequestErased, TickerSleeps
  <2>2. QED
    BY <1>1, <2>1 DEF Refilled, Filling, CrashOnlyInReset, ResetUnderWay
<1>4. QED
  BY <1>2, <1>3

\* Calls that are no reset.
LEMMA CallRefills ==
    ASSUME Refilled, UNCHANGED <<m_ifaces, crashed, main>>,
           handler.pc \notin {"clear", "wipe", "fill"}, handler'.pc \notin {"clear", "wipe", "fill"}
    PROVE  Refilled'
BY DEF Refilled, Filling, CrashOnlyInReset, ResetUnderWay

\* The first half of a forwarding ends at once, or before the lookup.
LEMMA ForwardingStarts ==
    ASSUME NEW p, NEW own, handler = Idle, forwardPacket(p, own)
    PROVE  handler'.pc \in {"idle", "lookup"}
BY DEF forwardPacket, Idle

LEMMA HandlePacketRefills == Refilled /\ (\E f \in Arrivals : HandlePacket(f)) => Refilled'
<1> SUFFICES ASSUME Refilled, NEW f \in Arrivals, HandlePacket(f) PROVE Refilled'
  OBVIOUS
<1>1. handler = Idle /\ UNCHANGED <<m_ifaces, crashed, main>>
  BY DEF HandlePacket, IgnoreFrame, AnswerArp, ReceiveArpReply, AnswerEcho, RefusePort,
     ReportExpired, ForwardIp, ArrivesIp, Arrives
<1>2. handler' = handler \/ handler'.pc \in {"idle", "insert", "lookup"}
  <2>1. CASE IgnoreFrame(f) \/ AnswerArp(f)
    BY <2>1 DEF IgnoreFrame, AnswerArp
  <2>2. CASE ReceiveArpReply(f)
    BY <2>2 DEF ReceiveArpReply
  <2>3. CASE AnswerEcho(f)
    BY <1>1, <2>3, ForwardingStarts DEF AnswerEcho
  <2>4. CASE RefusePort(f)
    BY <1>1, <2>4, ForwardingStarts DEF RefusePort
  <2>5. CASE ReportExpired(f)
    BY <1>1, <2>5, ForwardingStarts DEF ReportExpired
  <2>6. CASE ForwardIp(f)
    BY <1>1, <2>6, ForwardingStarts DEF ForwardIp
  <2>7. QED
    BY <2>1, <2>2, <2>3, <2>4, <2>5, <2>6 DEF HandlePacket
<1>3. QED
  BY <1>1, <1>2, CallRefills DEF Idle

LEMMA ForwardingRefills ==
    IInv /\ Refilled /\ (InsertEntry \/ RemoveAndSend \/ LookupHit \/ LookupMiss \/ LookupCrashes
                             \/ QueuePacket) => Refilled'
<1> SUFFICES ASSUME IInv, Refilled, InsertEntry \/ RemoveAndSend \/ LookupHit \/ LookupMiss
                                        \/ LookupCrashes \/ QueuePacket
             PROVE  Refilled'
  OBVIOUS
<1>1. TypeOK
  BY DEF IInv
<1>2. CASE InsertEntry
  <2>1. /\ handler \in Resolving /\ handler.pc = "insert"
        /\ handler' = [handler EXCEPT !.pc = "remove"]
        /\ UNCHANGED <<m_ifaces, crashed, main>>
    BY <1>1, <1>2, HandlerShape DEF InsertEntry
  <2>2. handler'.pc = "remove"
    BY <2>1 DEF Resolving
  <2>3. QED
    BY <2>1, <2>2, CallRefills
<1>3. CASE RemoveAndSend \/ LookupHit \/ QueuePacket
  <2>1. /\ handler.pc \in {"remove", "lookup", "queue"} /\ handler'.pc = "idle"
        /\ UNCHANGED <<m_ifaces, crashed, main>>
    BY <1>3 DEF RemoveAndSend, LookupHit, QueuePacket, Idle
  <2>2. QED
    BY <2>1, CallRefills
<1>4. CASE LookupMiss
  <2>1. /\ handler \in Forwarding /\ handler.pc = "lookup"
        /\ handler' = [handler EXCEPT !.pc = "queue"]
        /\ UNCHANGED <<m_ifaces, crashed, main>>
    BY <1>1, <1>4, HandlerShape DEF LookupMiss
  <2>2. handler'.pc = "queue"
    BY <2>1 DEF Forwarding
  <2>3. QED
    BY <2>1, <2>2, CallRefills
<1>5. CASE LookupCrashes
  <2>1. /\ handler.pc = "lookup" /\ handler.next_hop.ifName \notin m_ifaces
        /\ UNCHANGED <<m_ifaces, handler, main>>
    BY <1>5 DEF LookupCrashes
  <2>2. /\ handler.packet \in Packet /\ handler.next_hop \in Route
        /\ RT[handler.packet.dst] = handler.next_hop
    BY <1>1, <2>1, HandlerShape DEF IInv, HandlerRouted, Forwarding
  <2>3. handler.next_hop.ifName \in RouteIfaces
    BY <2>2, ArpAssumption DEF RouteIfaces, Packet
  <2>4. ResetUnderWay
    BY <2>1, <2>3, NullInReset
  <2>5. QED
    BY <2>1, <2>4 DEF Refilled, Filling, CrashOnlyInReset, ResetUnderWay
<1>6. QED
  BY <1>2, <1>3, <1>4, <1>5

LEMMA DispatchRefills ==
    ASSUME \A ports \in Ports : RouteIfaces \subseteq ports,
           RouteIfaces \subseteq DOMAIN IfIp,
           IInv, Refilled, ~crashed,
           \/ \E ports \in Ports : ResetRouter(ports)
           \/ DispatchClears \/ DispatchWipes \/ DispatchFills
    PROVE  Refilled'
<1>1. TypeOK
  BY DEF IInv
<1>2. ASSUME NEW ports \in Ports, ResetRouter(ports)
      PROVE  Refilled'
  <2>1. /\ handler.pc = "idle" /\ handler'.pc = "clear" /\ handler'.ports = ports
        /\ UNCHANGED <<m_ifaces, crashed, main>>
    BY <1>2 DEF ResetRouter, Idle
  <2>2. QED
    BY <2>1 DEF Refilled, Filling, CrashOnlyInReset, ResetUnderWay
<1>3. CASE DispatchClears
  <2>1. /\ handler.pc = "clear" /\ handler' = [handler EXCEPT !.pc = "wipe"]
        /\ UNCHANGED <<m_ifaces, crashed, main>> /\ handler \in Resetting
    BY <1>1, <1>3, HandlerShape DEF DispatchClears, Clears
  <2>2. handler'.pc = "wipe" /\ handler'.ports = handler.ports
    BY <2>1 DEF Resetting
  <2>3. QED
    BY <2>1, <2>2 DEF Refilled, Filling, CrashOnlyInReset, ResetUnderWay
<1>4. CASE DispatchWipes
  <2>1. /\ handler.pc = "wipe" /\ handler' = [handler EXCEPT !.pc = "fill"]
        /\ m_ifaces' = {} /\ UNCHANGED <<crashed, main>> /\ handler \in Resetting
    BY <1>1, <1>4, HandlerShape DEF DispatchWipes, Wipes
  <2>2. handler'.pc = "fill" /\ handler'.ports = handler.ports
    BY <2>1 DEF Resetting
  <2>3. QED
    BY <2>1, <2>2 DEF Refilled, Filling, CrashOnlyInReset, ResetUnderWay
<1>5. CASE DispatchFills
  <2>1. PICK port \in handler.ports :
           /\ handler.pc = "fill" /\ m_ifaces' = m_ifaces \cup ({port} \cap DOMAIN IfIp)
           /\ handler' = IF handler.ports = {port} THEN Idle
                         ELSE [handler EXCEPT !.ports = @ \ {port}]
           /\ UNCHANGED <<crashed, main>>
    BY <1>5 DEF DispatchFills, Fills
  <2>2. handler \in Resetting
    BY <1>1, <2>1, HandlerShape
  <2>3. \/ handler.ports = {port} /\ handler'.pc = "idle"
        \/ handler'.pc = "fill" /\ handler'.ports = handler.ports \ {port}
    BY <2>1, <2>2 DEF Resetting, Idle
  <2>4. RouteIfaces \subseteq m_ifaces' \cup Filling'
    BY <2>1, <2>3 DEF Refilled, Filling
  <2>5. QED
    BY <2>1, <2>3, <2>4 DEF Refilled, CrashOnlyInReset
<1>6. QED
  BY <1>2, <1>3, <1>4, <1>5

LEMMA MainRefills ==
    ASSUME RouteIfaces \subseteq DOMAIN IfIp, IInv, Refilled, ~crashed, MainStep
    PROVE  Refilled'
<1>1. TypeOK /\ main \in [pc : {"clear", "wipe", "fill", "running"}, ports : SUBSET Iface]
  BY DEF IInv, TypeOK
<1>2. CASE MainClears
  <2>1. /\ main.pc = "clear" /\ main' = [main EXCEPT !.pc = "wipe"]
        /\ UNCHANGED <<m_ifaces, crashed, handler>>
    BY <1>2 DEF MainClears, Clears
  <2>2. main'.pc = "wipe" /\ main'.ports = main.ports
    BY <1>1, <2>1
  <2>3. QED
    BY <2>1, <2>2 DEF Refilled, Filling, CrashOnlyInReset, ResetUnderWay
<1>3. CASE MainWipes
  <2>1. /\ main.pc = "wipe" /\ main' = [main EXCEPT !.pc = "fill"] /\ m_ifaces' = {}
        /\ \/ UNCHANGED handler
           \/ /\ handler.pc \in {"insert", "remove"}
              /\ \E i \in Iface : handler' = [handler EXCEPT !.iface = i]
    BY <1>3 DEF MainWipes, Wipes
  <2>2. main'.pc = "fill" /\ main'.ports = main.ports
    BY <1>1, <2>1
  <2>3. \/ UNCHANGED handler
        \/ handler'.pc \in {"insert", "remove"}
    BY <1>1, <2>1, HandlerShape DEF Resolving
  <2>4. QED
    BY <2>1, <2>2, <2>3 DEF Refilled, Filling, CrashOnlyInReset, ResetUnderWay
<1>4. CASE MainFills
  <2>1. PICK port \in main.ports :
           /\ main.pc = "fill" /\ m_ifaces' = m_ifaces \cup ({port} \cap DOMAIN IfIp)
           /\ main' = IF main.ports = {port} THEN [main EXCEPT !.pc = "running", !.ports = {}]
                      ELSE [main EXCEPT !.ports = @ \ {port}]
           /\ UNCHANGED <<crashed, handler>>
    BY <1>4 DEF MainFills, Fills
  <2>2. \/ main.ports = {port} /\ main'.pc = "running" /\ main'.ports = {}
        \/ main'.pc = "fill" /\ main'.ports = main.ports \ {port}
    BY <1>1, <2>1
  <2>3. RouteIfaces \subseteq m_ifaces' \cup Filling'
    BY <2>1, <2>2 DEF Refilled, Filling
  <2>4. QED
    BY <2>1, <2>2, <2>3 DEF Refilled, CrashOnlyInReset
<1>5. QED
  BY <1>2, <1>3, <1>4 DEF MainStep

LEMMA NextRefills ==
    ASSUME \A ports \in Ports : RouteIfaces \subseteq ports,
           RouteIfaces \subseteq DOMAIN IfIp
    PROVE  IInv /\ Refilled /\ [Next]_vars => Refilled'
<1> SUFFICES ASSUME IInv, Refilled, [Next]_vars PROVE Refilled'
  OBVIOUS
<1>1. CASE ~crashed /\ Ticker
  BY <1>1, TickerRefills
<1>2. CASE \E f \in Arrivals : HandlePacket(f)
  BY <1>2, HandlePacketRefills
<1>3. CASE ~crashed /\ \E ports \in Ports : ResetRouter(ports)
  BY <1>3, DispatchRefills
<1>4. CASE ~crashed /\ HandlerStep
  BY <1>4, ForwardingRefills, DispatchRefills DEF HandlerStep
<1>5. CASE ~crashed /\ MainStep
  BY <1>5, MainRefills
<1>6. CASE UNCHANGED vars
  BY <1>6 DEF vars, Refilled, Filling, CrashOnlyInReset, ResetUnderWay
<1>7. QED
  BY <1>1, <1>2, <1>3, <1>4, <1>5, <1>6 DEF Next

\* A null interface is used only while some thread resets the router, as long as POX
\* reports each interface the routing table names (main.cpp:108-111, simple-router.cpp's
\* findIfaceByName after every lookup).
THEOREM CrashesOnlyInReset ==
    ASSUME \A ports \in Ports : RouteIfaces \subseteq ports,
           RouteIfaces \subseteq DOMAIN IfIp
    PROVE  Spec => []CrashOnlyInReset
<1>1. Init => Refilled
  <2> SUFFICES ASSUME Init PROVE Refilled
    OBVIOUS
  <2>2. main \in [pc : {"clear"}, ports : Ports] /\ handler = Idle /\ crashed = FALSE
    BY DEF Init, ArpInit
  <2>3. main.pc = "clear" /\ main.ports \in Ports
    BY <2>2
  <2>4. handler.pc = "idle"
    BY <2>2 DEF Idle
  <2>5. QED
    BY <2>2, <2>3, <2>4 DEF Refilled, Filling, CrashOnlyInReset
<1>2. IInv /\ Refilled /\ [Next]_vars => Refilled'
  BY NextRefills
<1>3. Refilled => CrashOnlyInReset
  BY DEF Refilled
<1>4. QED
  BY <1>1, <1>2, <1>3, Invariance, PTL DEF Spec
=============================================================================
