--------------------------- MODULE MCRoutingTable ---------------------------
(***************************************************************************)
(* Addresses of two octets of two bits, every prefix length from 0 to 4,   *)
(* files of up to three lines.                                             *)
(***************************************************************************)
EXTENDS RoutingTable

CONSTANTS e1, e2, bad

\* dest/n through a gateway.
RouteLine(dest, gw, n, i) == <<dest, gw, 1..n, i>>

\* Nested prefixes of one address, a default route, lines without all the words
\* and a line with a wrong one.
Nested == {RouteLine({1, 3}, {}, n, e2) : n \in 1..4}
Default == RouteLine({}, {2}, 0, e1)
Blank == <<>>
Short == <<{1}, {2}>>
Wrong == <<{1}, bad, {1}, e1>>

SomeLines == Nested \cup {Default, Blank, Short, Wrong}
SomeFiles == UNION {[1..n -> SomeLines] : n \in 0..3}

\* The first line may be blank: what load reads then may be anything.
SomeGarbage == {[k \in 1..4 |-> bad], <<{1}, {}, {1}, e1>>}
=============================================================================
