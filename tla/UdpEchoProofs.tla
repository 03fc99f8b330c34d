--------------------------- MODULE UdpEchoProofs ---------------------------
(***************************************************************************)
(* Proofs about the UDP exercise, for any clients and any number of        *)
(* datagrams and of copies.                                                *)
(***************************************************************************)
EXTENDS UdpEcho, FiniteSetTheorems, SequenceTheorems, TLAPS

-----------------------------------------------------------------------------
(* The replies there are *)

\* A reply is on its way, or some client has printed it.
LEMMA RepliesAre ==
    \A r : r \in Replies <=>
               \/ r \in replies
               \/ \E c \in Client : \E k \in DOMAIN received[c] : r = received[c][k]
BY DEF Replies, Printed

LEMMA RepliesTypes ==
    ASSUME TypeOK
    PROVE  Replies \subseteq Reply
<1>1. \A c \in Client : received[c] \in Seq(Reply)
  BY DEF TypeOK
<1>2. \A c \in Client : \A k \in DOMAIN received[c] : received[c][k] \in Reply
  BY <1>1, ElementOfSeq, LenProperties
<1>3. QED
  BY <1>2, RepliesAre DEF TypeOK

\* With fewer replies the invariant still holds.
LEMMA FewerKeep ==
    ASSUME IInv, TypeOK', UNCHANGED <<seq_num, sent, received, copies>>,
           replies' \subseteq replies, requests' \subseteq requests
    PROVE  IInv'
<1>1. \A c : Printed(c)' = Printed(c)
  BY DEF Printed
<1>2. Replies' \subseteq Replies
  BY <1>1 DEF Replies
<1>3. NumberNamesOne'
  BY <1>2 DEF IInv, NumberNamesOne
<1>4. OwnReplies'
  BY <1>1, <1>2 DEF IInv, OwnReplies
<1>5. AnsweredOnce'
  BY <1>1, <1>2 DEF IInv, AnsweredOnce
<1>6. QED
  BY <1>3, <1>4, <1>5 DEF IInv

-----------------------------------------------------------------------------
(* Each step preserves the invariant *)

LEMMA InitIInv == Init => IInv
<1> SUFFICES ASSUME Init PROVE IInv
  OBVIOUS
<1>1. TypeOK
  <2>1. <<>> \in Seq(Reply) /\ 0 \in 0..(Last + 1) /\ 0 \in 0..MaxCopies
    BY EchoAssumption, EmptySeq
  <2>2. QED
    BY <2>1 DEF Init, TypeOK
<1>2. \A c \in Client : Printed(c) = {} /\ Len(received[c]) = 0 /\ DOMAIN received[c] = {}
  <2>1. SUFFICES ASSUME NEW c \in Client
                 PROVE  Printed(c) = {} /\ Len(received[c]) = 0 /\ DOMAIN received[c] = {}
    OBVIOUS
  <2>2. received[c] = <<>>
    BY DEF Init
  <2>3. Len(<<>>) = 0 /\ DOMAIN <<>> = {}
    OBVIOUS
  <2>4. QED
    BY <2>2, <2>3 DEF Printed
<1>3. Replies = {}
  BY <1>2 DEF Init, Replies
<1>4. OwnReplies
  BY <1>2, <1>3, EchoAssumption DEF Init, OwnReplies
<1>5. QED
  BY <1>1, <1>2, <1>3, <1>4 DEF Init, IInv, NumberNamesOne, AnsweredOnce

LEMMA SendKeeps ==
    ASSUME IInv, NEW c \in Client, Send(c)
    PROVE  IInv'
<1> DEFINE new == [client |-> c, i |-> sent[c]]
<1>1. /\ sent[c] <= Last /\ requests' = requests \cup {new}
      /\ sent' = [sent EXCEPT ![c] = @ + 1]
      /\ UNCHANGED <<seq_num, received, replies, lost, copies>>
  BY DEF Send
<1>2. TypeOK /\ Last \in Nat
  BY EchoAssumption DEF IInv
<1>3. /\ sent[c] \in 0..Last
      /\ \A a \in Client : sent[a] \in 0..(Last + 1) /\ sent'[a] = IF a = c THEN sent[a] + 1 ELSE sent[a]
  BY <1>1, <1>2 DEF TypeOK
<1>4. new \in Datagram
  BY <1>3 DEF Datagram
<1>5. TypeOK'
  BY <1>1, <1>2, <1>3, <1>4 DEF TypeOK
<1>6. Replies' = Replies /\ \A a : Printed(a)' = Printed(a)
  BY <1>1 DEF Replies, Printed
<1>7. \A r \in Replies : r.client \in Client /\ r.i \in 0..Last
  BY <1>2, RepliesTypes DEF Reply
<1>8. OwnReplies'
  <2>1. \A d \in requests \cup Replies : d.client \in Client /\ d.i \in 0..Last /\ d.i < sent[d.client]
    BY <1>2, <1>7 DEF IInv, OwnReplies, TypeOK, Datagram
  <2>2. \A d \in requests \cup Replies : d.i < sent'[d.client]
    BY <1>2, <1>3, <2>1
  <2>3. new.i < sent'[new.client]
    BY <1>3
  <2>4. QED
    BY <1>1, <1>6, <2>2, <2>3 DEF IInv, OwnReplies
<1>9. AnsweredOnce'
  <2>1. \A r \in Replies : ~(new.client = r.client /\ new.i = r.i)
    BY <1>3, <1>7 DEF IInv, OwnReplies
  <2>2. QED
    BY <1>1, <1>6, <2>1 DEF IInv, AnsweredOnce
<1>10. QED
  BY <1>1, <1>5, <1>6, <1>8, <1>9 DEF IInv, NumberNamesOne

LEMMA EchoKeeps ==
    ASSUME IInv, NEW d \in requests, Echo(d)
    PROVE  IInv'
<1> DEFINE new == [client |-> d.client, i |-> d.i, seq |-> seq_num]
<1>1. /\ \/ requests' = requests \ {d} /\ UNCHANGED copies
         \/ copies < MaxCopies /\ copies' = copies + 1 /\ UNCHANGED requests
      /\ replies' = replies \cup {new} /\ seq_num' = seq_num + 1
      /\ UNCHANGED <<sent, received, lost>>
  BY DEF Echo
<1>2. TypeOK /\ MaxCopies \in Nat /\ seq_num \in Nat /\ copies \in 0..MaxCopies
  BY EchoAssumption DEF IInv, TypeOK
<1>3. d \in Datagram /\ new \in Reply
  BY <1>2 DEF TypeOK, Datagram, Reply
<1>4. /\ \A a : Printed(a)' = Printed(a)
      /\ Replies' = Replies \cup {new}
  BY <1>1 DEF Replies, Printed
<1>5. TypeOK'
  <2>1. copies' \in 0..MaxCopies /\ seq_num' \in Nat /\ requests' \subseteq requests
    BY <1>1, <1>2
  <2>2. QED
    BY <1>1, <1>2, <1>3, <2>1 DEF TypeOK
<1>6. \A r \in Replies : r.seq \in Nat /\ r.seq < seq_num
  <2>1. \A r \in Replies : r.seq \in Nat
    BY <1>2, RepliesTypes DEF Reply
  <2>2. QED
    BY <2>1 DEF IInv, NumberNamesOne
<1>7. NumberNamesOne'
  BY <1>1, <1>2, <1>4, <1>6 DEF IInv, NumberNamesOne
<1>8. OwnReplies'
  BY <1>1, <1>4 DEF IInv, OwnReplies
<1>9. AnsweredOnce'
  <2>1. SUFFICES ASSUME copies' = 0 PROVE AnsweredOnce'
    BY DEF AnsweredOnce
  <2>2. copies = 0 /\ requests' = requests \ {d}
    BY <1>1, <1>2, <2>1
  <2>3. \A e \in requests' : ~(e.client = new.client /\ e.i = new.i)
    BY <1>2, <1>3, <2>2 DEF TypeOK, Datagram
  <2>4. \A r \in Replies : ~(new.client = r.client /\ new.i = r.i)
    BY <2>2 DEF IInv, AnsweredOnce
  <2>5. \A a \in Client : Printed(a) \subseteq Replies
    BY DEF Replies
  <2>6. \A a \in Client : new \notin Printed(a)
    BY <2>4, <2>5
  <2>7. QED
    BY <1>1, <1>4, <2>2, <2>3, <2>4, <2>6 DEF IInv, AnsweredOnce
<1>10. QED
  BY <1>5, <1>7, <1>8, <1>9 DEF IInv

LEMMA ReceiveKeeps ==
    ASSUME IInv, NEW r \in replies, Receive(r)
    PROVE  IInv'
<1> DEFINE c == r.client
<1>1. /\ Expects(c)
      /\ \/ replies' = replies \ {r} /\ UNCHANGED copies
         \/ copies < MaxCopies /\ copies' = copies + 1 /\ UNCHANGED replies
      /\ received' = [received EXCEPT ![c] = Append(@, r)]
      /\ UNCHANGED <<seq_num, sent, requests, lost>>
  BY DEF Receive
<1>2. /\ TypeOK /\ MaxCopies \in Nat /\ Last \in Nat /\ copies \in 0..MaxCopies
      /\ received \in [Client -> Seq(Reply)]
  BY EchoAssumption DEF IInv, TypeOK
<1>3. r \in Reply /\ c \in Client /\ received[c] \in Seq(Reply) /\ Len(received[c]) \in Nat
  BY <1>2, LenProperties DEF TypeOK, Reply
<1> HIDE DEF c
<1>4. /\ received'[c] = Append(received[c], r)
      /\ \A a \in Client : a # c => received'[a] = received[a]
  BY <1>1, <1>2, <1>3
<1>5. /\ received'[c] \in Seq(Reply) /\ Len(received'[c]) = Len(received[c]) + 1
      /\ DOMAIN received[c] = 1..Len(received[c])
      /\ DOMAIN received'[c] = 1..(Len(received[c]) + 1)
      /\ \A k \in 1..Len(received[c]) : received'[c][k] = received[c][k]
      /\ received'[c][Len(received[c]) + 1] = r
  BY <1>3, <1>4, AppendProperties, LenProperties
<1>6. TypeOK'
  <2>1. copies' \in 0..MaxCopies /\ replies' \subseteq replies
    BY <1>1, <1>2
  <2>2. received' \in [Client -> Seq(Reply)]
    BY <1>1, <1>2, <1>4, <1>5
  <2>3. QED
    BY <1>1, <1>2, <2>1, <2>2 DEF TypeOK
<1>7. /\ Printed(c)' = Printed(c) \cup {r}
      /\ \A a \in Client : a # c => Printed(a)' = Printed(a)
  <2>1. \A k : k \in DOMAIN received'[c] <=> k \in DOMAIN received[c] \/ k = Len(received[c]) + 1
    BY <1>3, <1>5
  <2>2. Printed(c)' = Printed(c) \cup {r}
    BY <1>3, <1>5, <2>1 DEF Printed
  <2>3. QED
    BY <1>4, <2>2 DEF Printed
<1>8. Replies' \subseteq Replies
  BY <1>1, <1>3, <1>7 DEF Replies
<1>9. NumberNamesOne'
  BY <1>1, <1>8 DEF IInv, NumberNamesOne
<1>10. OwnReplies'
  <2>1. Len(received'[c]) <= Last + 1
    BY <1>1, <1>2, <1>3, <1>5 DEF Expects
  <2>2. QED
    BY <1>1, <1>3, <1>4, <1>7, <1>8, <2>1 DEF IInv, OwnReplies, c
<1>11. AnsweredOnce'
  <2>1. SUFFICES ASSUME copies' = 0 PROVE AnsweredOnce'
    BY DEF AnsweredOnce
  <2>2. copies = 0 /\ replies' = replies \ {r}
    BY <1>1, <1>2, <2>1
  <2>3. \A a \in Client : replies' \cap Printed(a)' = {}
    BY <1>7, <2>2 DEF IInv, AnsweredOnce
  <2>4. r \notin Printed(c)
    BY <1>3, <2>2 DEF IInv, AnsweredOnce
  <2>5. ASSUME NEW k \in DOMAIN received'[c], NEW l \in DOMAIN received'[c],
               received'[c][k] = received'[c][l]
        PROVE  k = l
    <3>1. \A m \in 1..Len(received[c]) : received'[c][m] \in Printed(c)
      BY <1>5 DEF Printed
    <3>2. CASE k \in 1..Len(received[c]) /\ l \in 1..Len(received[c])
      BY <1>3, <1>5, <2>2, <2>5, <3>2 DEF IInv, AnsweredOnce
    <3>3. CASE k = Len(received[c]) + 1 \/ l = Len(received[c]) + 1
      BY <1>3, <1>5, <2>4, <2>5, <3>1, <3>3
    <3>4. QED
      BY <1>3, <1>5, <3>2, <3>3
  <2>6. \A a \in Client : \A k, l \in DOMAIN received'[a] : received'[a][k] = received'[a][l] => k = l
    BY <1>4, <2>2, <2>5 DEF IInv, AnsweredOnce
  <2>7. QED
    BY <1>1, <1>8, <2>2, <2>3, <2>6 DEF IInv, AnsweredOnce
<1>12. QED
  BY <1>6, <1>9, <1>10, <1>11 DEF IInv

LEMMA LoseKeeps == IInv /\ Lose => IInv'
<1> SUFFICES ASSUME IInv, Lose PROVE IInv'
  OBVIOUS
<1>1. /\ replies' \subseteq replies /\ requests' \subseteq requests /\ lost' = TRUE
      /\ UNCHANGED <<seq_num, sent, received, copies>>
  BY DEF Lose
<1>2. TypeOK'
  BY <1>1 DEF IInv, TypeOK
<1>3. QED
  BY <1>1, <1>2, FewerKeep

LEMMA NextIInv == IInv /\ [Next]_vars => IInv'
<1> SUFFICES ASSUME IInv, [Next]_vars PROVE IInv'
  OBVIOUS
<1>1. CASE Next
  BY <1>1, SendKeeps, EchoKeeps, ReceiveKeeps, LoseKeeps DEF Next
<1>2. CASE UNCHANGED vars
  <2>1. TypeOK'
    BY <1>2 DEF vars, IInv, TypeOK
  <2>2. QED
    BY <1>2, <2>1, FewerKeep DEF vars
<1>3. QED
  BY <1>1, <1>2

-----------------------------------------------------------------------------
(* The theorems *)

\* Every state the exercise reaches satisfies the inductive invariant.
THEOREM Invariance == Spec => []IInv
<1>1. QED
  BY InitIInv, NextIInv, PTL DEF Spec

\* Two replies with the same sequence number are copies of one (server.c:45-52).
THEOREM NumbersNameOne == Spec => []NumberNamesOne
<1>1. IInv => NumberNamesOne
  BY DEF IInv
<1>2. QED
  BY <1>1, Invariance, PTL

\* As many replies as datagrams, none of them for the same datagram, leave none out.
LEMMA AllAnswered ==
    ASSUME IInv, NEW c \in Client, Done(c), copies = 0
    PROVE  {r.i : r \in Printed(c)} = 0..Last
<1>1. Last \in Nat /\ received[c] \in Seq(Reply)
  BY EchoAssumption DEF IInv, TypeOK
<1>2. Len(received[c]) = Last + 1 /\ DOMAIN received[c] = 1..(Last + 1)
  <2>1. Len(received[c]) \in Nat /\ DOMAIN received[c] = 1..Len(received[c])
    BY <1>1, LenProperties
  <2>2. Len(received[c]) <= Last + 1 /\ ~(Len(received[c]) <= Last)
    BY DEF IInv, OwnReplies, Done, Expects
  <2>3. QED
    BY <1>1, <2>1, <2>2
<1> DEFINE f == [k \in 1..(Last + 1) |-> received[c][k].i]
<1>3. \A k \in 1..(Last + 1) : f[k] \in 0..Last /\ received[c][k] \in Printed(c)
  <2>1. \A k \in 1..(Last + 1) : received[c][k] \in Reply
    BY <1>1, <1>2, ElementOfSeq
  <2>2. QED
    BY <1>2, <2>1 DEF Reply, Printed
<1>4. \A k, l \in 1..(Last + 1) : f[k] = f[l] => k = l
  <2>1. SUFFICES ASSUME NEW k \in 1..(Last + 1), NEW l \in 1..(Last + 1), f[k] = f[l]
                 PROVE  k = l
    OBVIOUS
  <2>2. received[c][k] \in Replies /\ received[c][l] \in Replies
    BY <1>3 DEF Replies
  <2>3. received[c][k].client = c /\ received[c][l].client = c
    BY <1>3 DEF IInv, OwnReplies
  <2>4. received[c][k] = received[c][l]
    BY <2>1, <2>2, <2>3 DEF IInv, AnsweredOnce
  <2>5. QED
    BY <1>2, <2>4 DEF IInv, AnsweredOnce
<1>5. \A j \in 0..Last : \E k \in 1..(Last + 1) : f[k] = j
  <2>1. SUFFICES ASSUME NEW j \in 0..Last, \A k \in 1..(Last + 1) : f[k] # j
                 PROVE  FALSE
    OBVIOUS
  <2> DEFINE S == 1..(Last + 1)
             T == (0..Last) \ {j}
  <2>2. IsFiniteSet(S) /\ Cardinality(S) = Last + 1
    BY <1>1, FS_Interval
  <2>3. IsFiniteSet(0..Last) /\ Cardinality(0..Last) = Last + 1
    BY <1>1, FS_Interval
  <2>4. IsFiniteSet(T) /\ Cardinality(T) = Last
    <3>1. IsFiniteSet(T) /\ Cardinality(T) = (Last + 1) - 1
      BY <2>3, FS_RemoveElement
    <3>2. QED
      BY <1>1, <3>1
  <2>5. f \in [S -> T] /\ Cardinality(T) < Cardinality(S)
    BY <1>1, <1>3, <2>1, <2>2, <2>4
  <2> HIDE DEF f, S, T
  <2>6. \E x, y \in S : x # y /\ f[x] = f[y]
    BY <2>2, <2>4, <2>5, FS_PigeonHole
  <2>7. QED
    BY <1>4, <2>6 DEF S
<1>6. Printed(c) = {received[c][k] : k \in 1..(Last + 1)}
  BY <1>2 DEF Printed
<1>7. QED
  BY <1>3, <1>5, <1>6

\* A client that ends has a reply to each of its datagrams, unless some datagram has
\* arrived twice (the count of client.c:79).
THEOREM DoneMeansAll == Spec => []DoneHasAll
<1>1. IInv => DoneHasAll
  BY AllAnswered DEF IInv, TypeOK, DoneHasAll
<1>2. QED
  BY <1>1, Invariance, PTL
=============================================================================
