------------------------------ MODULE UdpEcho ------------------------------
(***************************************************************************)
(* The UDP exercise (hw1/udp): clients that send 0, 1, ..., Last and then  *)
(* wait for as many replies, and a server that numbers every datagram it   *)
(* gets and sends it back.  Datagrams overtake each other, may be lost and *)
(* may arrive twice.                                                       *)
(***************************************************************************)
EXTENDS Integers, Sequences

CONSTANTS
    Client,
    Last,               \* 50
    MaxCopies           \* bound: datagrams that arrive once more

ASSUME EchoAssumption ==
    /\ Last \in Nat
    /\ MaxCopies \in Nat

VARIABLES
    seq_num,            \* of the server: datagrams answered
    sent,               \* of each client: datagrams sent
    received,           \* of each client: the replies printed, in order
    requests, replies,  \* datagrams on their way
    lost,               \* some datagram was lost
    copies              \* arrivals of a datagram that is to arrive again

vars == <<seq_num, sent, received, requests, replies, lost, copies>>

Datagram == [client : Client, i : 0..Last]
Reply == [client : Client, i : 0..Last, seq : Nat]

-----------------------------------------------------------------------------
\* Mutant: one datagram more is sent.
SendOneMore(c) ==
    /\ sent[c] <= Last + 1
    /\ requests' = requests \cup {[client |-> c, i |-> sent[c]]}
    /\ sent' = [sent EXCEPT ![c] = @ + 1]
    /\ UNCHANGED <<seq_num, received, replies, lost, copies>>

\* The first loop of main in client.c.
Send(c) ==
    /\ sent[c] <= Last
    /\ requests' = requests \cup {[client |-> c, i |-> sent[c]]}
    /\ sent' = [sent EXCEPT ![c] = @ + 1]
    /\ UNCHANGED <<seq_num, received, replies, lost, copies>>

\* Mutant: seq_num is not incremented.
EchoUnnumbered(d) ==
    /\ d \in requests
    /\ \/ requests' = requests \ {d} /\ UNCHANGED copies
       \/ copies < MaxCopies /\ copies' = copies + 1 /\ UNCHANGED requests
    /\ replies' = replies \cup {[client |-> d.client, i |-> d.i, seq |-> seq_num]}
    /\ UNCHANGED <<seq_num, sent, received, lost>>

\* A turn of the loop of echo in server.c.
Echo(d) ==
    /\ d \in requests
    /\ \/ requests' = requests \ {d} /\ UNCHANGED copies
       \/ copies < MaxCopies /\ copies' = copies + 1 /\ UNCHANGED requests
    /\ replies' = replies \cup {[client |-> d.client, i |-> d.i, seq |-> seq_num]}
    /\ seq_num' = seq_num + 1
    /\ UNCHANGED <<sent, received, lost>>

\* Mutants: one reply less, and one more, than datagrams sent.
ExpectsLess(c) == sent[c] = Last + 1 /\ Len(received[c]) < Last
ExpectsMore(c) == sent[c] = Last + 1 /\ Len(received[c]) <= Last + 1

\* Waits for one reply more: the second loop of client.c.
Expects(c) == sent[c] = Last + 1 /\ Len(received[c]) <= Last

Receive(r) ==
    /\ r \in replies
    /\ Expects(r.client)
    /\ \/ replies' = replies \ {r} /\ UNCHANGED copies
       \/ copies < MaxCopies /\ copies' = copies + 1 /\ UNCHANGED replies
    /\ received' = [received EXCEPT ![r.client] = Append(@, r)]
    /\ UNCHANGED <<seq_num, sent, requests, lost>>

Lose ==
    /\ \/ \E d \in requests : requests' = requests \ {d} /\ UNCHANGED replies
       \/ \E r \in replies : replies' = replies \ {r} /\ UNCHANGED requests
    /\ lost' = TRUE
    /\ UNCHANGED <<seq_num, sent, received, copies>>

-----------------------------------------------------------------------------
Init ==
    /\ seq_num = 0
    /\ sent = [c \in Client |-> 0]
    /\ received = [c \in Client |-> <<>>]
    /\ requests = {}
    /\ replies = {}
    /\ lost = FALSE
    /\ copies = 0

Next ==
    \/ \E c \in Client : Send(c)
    \/ \E d \in requests : Echo(d)
    \/ \E r \in replies : Receive(r)
    \/ Lose

Spec == Init /\ [][Next]_vars

\* The programs run, and a datagram that is not lost arrives.
FairSpec ==
    /\ Spec
    /\ \A c \in Client : WF_vars(Send(c))
    /\ \A d \in Datagram : WF_vars(Echo(d))
    /\ WF_vars(\E r \in replies : Receive(r))

-----------------------------------------------------------------------------
TypeOK ==
    /\ seq_num \in Nat
    /\ sent \in [Client -> 0..(Last + 1)]
    /\ received \in [Client -> Seq(Reply)]
    /\ requests \subseteq Datagram
    /\ replies \subseteq Reply
    /\ lost \in BOOLEAN
    /\ copies \in 0..MaxCopies

Printed(c) == {received[c][k] : k \in DOMAIN received[c]}
Replies == replies \cup UNION {Printed(c) : c \in Client}

\* A sequence number names one arrival at the server, whichever client it is from:
\* two replies with the same number are copies of one (server.c:45-52).
NumberNamesOne ==
    /\ \A r, s \in Replies : r.seq = s.seq => r = s
    /\ \A r \in Replies : r.seq < seq_num

\* What a client has printed is its own, and no more than it waits for; only what it has
\* sent is answered.
OwnReplies ==
    /\ \A c \in Client :
           /\ Len(received[c]) <= Last + 1
           /\ \A r \in Printed(c) : r.client = c
    /\ \A d \in requests \cup Replies : d.i < sent[d.client]

\* As long as nothing arrives twice, a datagram is on its way, or answered by one reply
\* that is on its way or printed once.
AnsweredOnce ==
    copies = 0 =>
        /\ \A d \in requests : \A r \in Replies : ~(d.client = r.client /\ d.i = r.i)
        /\ \A r, s \in Replies : r.client = s.client /\ r.i = s.i => r = s
        /\ \A c \in Client :
               /\ replies \cap Printed(c) = {}
               /\ \A k, l \in DOMAIN received[c] : received[c][k] = received[c][l] => k = l

\* The inductive invariant.
IInv == TypeOK /\ NumberNamesOne /\ OwnReplies /\ AnsweredOnce

Done(c) == sent[c] = Last + 1 /\ ~Expects(c)

\* A client that ends has printed a reply to each of its datagrams, as long as none
\* arrives twice: the count of client.c:79 leaves no room for losses.
DoneHasAll ==
    \A c \in Client :
        Done(c) => \/ {r.i : r \in Printed(c)} = 0..Last
                   \/ copies > 0

\* Every client ends, however its datagrams and those of the others are reordered
\* and repeated, unless some datagram is lost: then one may wait for ever.
ClientsEnd == \A c \in Client : <>(Done(c) \/ lost)
=============================================================================
