--------------------------- MODULE MCSimpleRouter ---------------------------
(***************************************************************************)
(* The router with two interfaces: a subnet with host h2 behind e2, and a  *)
(* default route to the gateway g behind e1, on the way to host h1.  The   *)
(* default route matches the router's own address r1 too, as in RTABLE.    *)
(***************************************************************************)
EXTENDS RouterDelivery

CONSTANTS h1, h2, h3, g, r1, r2, m1, m2, e1, e2, none, ff

Addresses == {h1, h2, g, r1, r2}
InterfaceAddress == [i \in {e1, e2} |-> IF i = e1 THEN r1 ELSE r2]

Via(gw, i) == [gw |-> gw, ifName |-> i]
Routes == [ip \in Addresses |-> IF ip \in {h2, r2} THEN Via(ip, e2) ELSE Via(g, e1)]

\* Without a default route; h3 is an address no entry matches.
LocalAddresses == {h1, h2, h3, g, r1, r2}
LocalRoutes ==
    [ip \in LocalAddresses |->
        CASE ip \in {h2, r2} -> Via(ip, e2)
          [] ip \in {h1, g, r1} -> Via(g, e1)
          [] ip = h3 -> none]

IpArrival(i, src, dst, ttl, kind) ==
    [type |-> "ip", iface |-> i, dhost |-> i, correct |-> TRUE,
     packet |-> [src |-> src, dst |-> dst, ttl |-> ttl, kind |-> kind]]

Reply(i, sip, sha) ==
    [type |-> "arp_reply", iface |-> i, dhost |-> i, tip |-> InterfaceAddress[i],
     sip |-> sip, sha |-> sha]

\* Traffic between h1 and h2, each reachable or silent.
Transit == {IpArrival(e1, h1, h2, 2, "tcp_udp"), IpArrival(e2, h2, h1, 2, "tcp_udp")}
Replies == {Reply(e1, g, m1), Reply(e2, h2, m2)}
TransitTraffic == Transit \cup Replies

\* Packets the router answers itself, one from a stranger to whom there is no route, and
\* frames it ignores.
LocalTraffic ==
    {IpArrival(e2, h2, r1, 2, "icmp"),
     IpArrival(e1, h1, r2, 2, "tcp_udp"),
     IpArrival(e2, h2, h1, 1, "tcp_udp"),
     IpArrival(e1, h3, h2, 2, "tcp_udp"),
     IpArrival(e1, h1, r1, 2, "other"),
     [IpArrival(e1, h1, h2, 2, "icmp") EXCEPT !.correct = FALSE],
     [type |-> "arp_request", iface |-> e1, dhost |-> ff, tip |-> r1, sha |-> m1],
     [type |-> "arp_request", iface |-> e2, dhost |-> e2, tip |-> r2, sha |-> m2]}
        \cup Replies

\* h2 pings the router.
EchoTraffic == {IpArrival(e2, h2, r2, 2, "icmp"), Reply(e2, h2, m2)}

BothPorts == {{e1, e2}}
SomePorts == {{e1, e2}, {e2}}
=============================================================================
