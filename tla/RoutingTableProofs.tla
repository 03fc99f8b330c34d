------------------------- MODULE RoutingTableProofs -------------------------
(***************************************************************************)
(* Proofs about the routing table, for every file and every width of an    *)
(* address.                                                                *)
(***************************************************************************)
EXTENDS RoutingTable, SequenceTheorems, WellFoundedInduction, TLAPS

-----------------------------------------------------------------------------
(* Addresses and lengths *)

\* A set of natural numbers that is not empty has a smallest element.
LEMMA Smallest ==
    ASSUME NEW S \in SUBSET Nat, S # {}
    PROVE  \E n \in S : \A m \in S : n <= m
<1> DEFINE R == {pair \in Nat \X Nat : pair[1] < pair[2]}
<1>1. IsWellFoundedOn(R, Nat)
  BY NatLessThanWellFounded DEF OpToRel
<1> HIDE DEF R
<1>2. PICK n \in S : \A m \in S : ~(<<m, n>> \in R)
  BY <1>1, WFMin
<1>3. \A m \in S : ~(m < n)
  BY <1>2 DEF R
<1>4. QED
  BY <1>3

LEMMA WidthNat == Width \in Nat /\ BITS \in 1..Width
<1>1. BYTES \in Nat /\ BYTES >= 1 /\ BITS \in Nat /\ BITS >= 1
  BY TableAssumption
<1>2. BYTES * BITS \in Nat /\ BYTES * BITS >= BITS
  BY <1>1
<1>3. QED
  BY <1>1, <1>2 DEF Width

\* Bit k of an address is one of the powers below Width.
LEMMA PowerInWidth ==
    ASSUME NEW k \in 1..Width
    PROVE  Power(k) \in 0..(Width - 1)
<1> DEFINE q == (k - 1) \div BITS
           r == (k - 1) % BITS
<1>1. BYTES \in Nat /\ BITS \in Nat /\ BITS >= 1 /\ Width = BYTES * BITS /\ Width \in Nat
  BY TableAssumption, WidthNat DEF Width
<1>2. q \in Nat /\ r \in 0..(BITS - 1) /\ k - 1 = BITS * q + r
  BY <1>1
<1> HIDE DEF q, r
<1>3. q * BITS = BITS * q /\ q * BITS \in Nat
  BY <1>1, <1>2
<1>4. q * BITS <= k - 1
  BY <1>1, <1>2, <1>3
<1>5. q < BYTES
  <2>1. SUFFICES ASSUME q >= BYTES PROVE FALSE
    BY <1>1, <1>2
  <2>2. q * BITS >= BYTES * BITS
    BY <1>1, <1>2, <2>1
  <2>3. QED
    BY <1>1, <1>3, <1>4, <2>2
<1>6. q * BITS + BITS <= BYTES * BITS
  <2>1. q + 1 <= BYTES
    BY <1>1, <1>2, <1>5
  <2>2. (q + 1) * BITS <= BYTES * BITS
    BY <1>1, <1>2, <2>1
  <2>3. (q + 1) * BITS = q * BITS + BITS
    BY <1>1, <1>2
  <2>4. QED
    BY <2>2, <2>3
<1>7. q * BITS + (BITS - 1 - r) \in 0..(Width - 1)
  BY <1>1, <1>2, <1>3, <1>6
<1>8. QED
  BY <1>7 DEF Power, q, r

LEMMA AddressValue ==
    ASSUME NEW address \in Address
    PROVE  s_addr(address) \in Value
BY PowerInWidth DEF s_addr, Address, Value

\* There is one number of shifts that Length is.
LEMMA LengthIs ==
    ASSUME NEW mask \in Value
    PROVE  /\ Length(mask) \in 0..Width
           /\ \A p \in mask : p + Length(mask) >= Width
           /\ \A m \in 0..(Length(mask) - 1) : \E p \in mask : p + m < Width
<1> DEFINE S == {n \in Nat : \A p \in mask : p + n >= Width}
<1>1. Width \in Nat /\ \A p \in mask : p \in Nat
  BY WidthNat DEF Value
<1>2. Width \in S
  BY <1>1
<1>3. PICK n \in S : \A m \in S : n <= m
  BY <1>2, Smallest
<1>4. n \in 0..Width /\ \A p \in mask : p + n >= Width
  BY <1>1, <1>2, <1>3
<1>5. \A m \in 0..(n - 1) : \E p \in mask : p + m < Width
  BY <1>1, <1>3
<1>6. QED
  BY <1>4, <1>5 DEF Length

-----------------------------------------------------------------------------
(* The invariant *)

LEMMA InitIInv == Init => IInv
<1> SUFFICES ASSUME Init PROVE IInv
  OBVIOUS
<1>1. file \in Seq(Seq(Word)) /\ buffers \in Buffers
  BY TableAssumption DEF Init
<1>2. m_entries \in Seq(Entry) /\ Len(m_entries) = 0
  BY EmptySeq DEF Init
<1>3. ip \in Value /\ longest \in -1..Width
  BY WidthNat DEF Init, Value, NoneYet
<1>4. TypeOK
  BY <1>1, <1>2, <1>3 DEF Init, TypeOK
<1>5. QED
  BY <1>4 DEF Init, IInv, ScanBest, ThrowsIfNone, FirstOfLongest

\* Before the table is loaded, and until an address is looked up, types are all there is.
LEMMA NoLookup ==
    ASSUME TypeOK, pc \notin {"lookup", "found", "thrown"}
    PROVE  IInv
BY DEF IInv, ScanBest, ThrowsIfNone, FirstOfLongest

LEMMA LoadLineKeeps == IInv /\ LoadLine => IInv'
<1> SUFFICES ASSUME IInv, LoadLine PROVE IInv'
  OBVIOUS
<1> DEFINE entry == [dest |-> s_addr(buffers'[1]), gw |-> s_addr(buffers'[2]),
                     mask |-> s_addr(buffers'[3]), ifName |-> buffers'[4]]
<1>1. TypeOK
  BY DEF IInv
<1>2. /\ pc = "load" /\ pc' = pc /\ file # <<>> /\ file' = Tail(file)
      /\ buffers' = Scan(Head(file)) /\ \A k \in 1..3 : Converts(buffers'[k])
      /\ m_entries' = Append(m_entries, entry)
      /\ UNCHANGED <<ip, pos, longest, longest_entry>>
  BY DEF LoadLine, Unloaded
<1>3. file \in Seq(Seq(Word)) /\ buffers \in [1..4 -> Word] /\ m_entries \in Seq(Entry)
  BY <1>1 DEF TypeOK, Buffers
<1>4. Head(file) \in Seq(Word) /\ file' \in Seq(Seq(Word))
  BY <1>2, <1>3, HeadTailProperties
<1>5. buffers' \in Buffers
  BY <1>2, <1>3, <1>4, ElementOfSeq DEF Scan, Buffers
<1>6. entry \in Entry
  <2>1. \A k \in 1..3 : buffers'[k] \in Address
    BY <1>2, <1>5 DEF Buffers, Word, Converts
  <2>2. \A k \in 1..3 : s_addr(buffers'[k]) \in Value
    BY <2>1, AddressValue
  <2>3. buffers'[4] \in Word
    BY <1>5 DEF Buffers
  <2>4. QED
    BY <2>2, <2>3 DEF Entry
<1> HIDE DEF entry
<1>7. m_entries' \in Seq(Entry) /\ Len(m_entries') = Len(m_entries) + 1
  BY <1>2, <1>3, <1>6, AppendProperties
<1>8. pos' \in 1..(Len(m_entries') + 1)
  BY <1>1, <1>2, <1>3, <1>7, LenProperties DEF TypeOK
<1>9. TypeOK'
  BY <1>1, <1>2, <1>4, <1>5, <1>7, <1>8 DEF TypeOK
<1>10. QED
  BY <1>2, <1>9 DEF IInv, ScanBest, ThrowsIfNone, FirstOfLongest

LEMMA LoadEndsKeeps == IInv /\ (LoadFails \/ CannotRead \/ LoadDone) => IInv'
<1> SUFFICES ASSUME IInv, LoadFails \/ CannotRead \/ LoadDone PROVE IInv'
  OBVIOUS
<1>1. TypeOK
  BY DEF IInv
<1>2. /\ pc' \in {"failed", "ready"}
      /\ UNCHANGED <<file, m_entries, ip, pos, longest, longest_entry>>
      /\ buffers' = buffers \/ (file # <<>> /\ buffers' = Scan(Head(file)))
  BY DEF LoadFails, CannotRead, LoadDone, Unloaded
<1>3. buffers' \in Buffers
  <2>1. file \in Seq(Seq(Word)) /\ buffers \in [1..4 -> Word]
    BY <1>1 DEF TypeOK, Buffers
  <2>2. file # <<>> => Head(file) \in Seq(Word)
    BY <2>1, HeadTailProperties
  <2>3. QED
    BY <1>2, <2>1, <2>2, ElementOfSeq DEF Scan, Buffers
<1>4. TypeOK'
  BY <1>1, <1>2, <1>3 DEF TypeOK
<1>5. QED
  BY <1>2, <1>4 DEF IInv, ScanBest, ThrowsIfNone, FirstOfLongest

LEMMA LookupKeeps == IInv /\ (\E address \in Value : Lookup(address)) => IInv'
<1> SUFFICES ASSUME IInv, NEW address \in Value, Lookup(address) PROVE IInv'
  OBVIOUS
<1>1. /\ pc' = "lookup" /\ ip' = address /\ pos' = 1 /\ longest' = NoneYet
      /\ longest_entry' = <<>> /\ UNCHANGED <<file, buffers, m_entries>>
  BY DEF Lookup
<1>2. TypeOK'
  <2>1. Len(m_entries) \in Nat /\ -1 \in -1..Width
    BY LenProperties, WidthNat DEF IInv, TypeOK
  <2>2. QED
    BY <1>1, <2>1 DEF IInv, TypeOK, NoneYet
<1>3. QED
  BY <1>1, <1>2 DEF IInv, ScanBest, ThrowsIfNone, FirstOfLongest

\* What the two steps of the loop start from.
LEMMA Scans ==
    ASSUME IInv, Scanning
    PROVE  /\ m_entries[pos] \in Entry
           /\ Length(m_entries[pos].mask) \in 0..Width
           /\ pos \in 1..Len(m_entries) /\ Len(m_entries) \in Nat
           /\ longest \in -1..Width
<1>1. m_entries \in Seq(Entry) /\ longest \in -1..Width
  BY DEF IInv, TypeOK
<1>2. pos \in 1..Len(m_entries) /\ Len(m_entries) \in Nat
  BY <1>1, LenProperties DEF Scanning
<1>3. m_entries[pos] \in Entry
  BY <1>1, <1>2, ElementOfSeq
<1>4. m_entries[pos].mask \in Value
  BY <1>3 DEF Entry
<1>5. QED
  BY <1>1, <1>2, <1>3, <1>4, LengthIs

LEMMA TakeEntryKeeps == IInv /\ TakeEntry => IInv'
<1> SUFFICES ASSUME IInv, TakeEntry PROVE IInv'
  OBVIOUS
<1>1. /\ Scanning /\ Better(m_entries[pos]) /\ longest' = Length(m_entries[pos].mask)
      /\ longest_entry' = m_entries[pos] /\ pos' = pos + 1 /\ pc = "lookup"
      /\ UNCHANGED <<file, buffers, m_entries, pc, ip>>
  BY DEF TakeEntry, Scanning
<1>2. /\ m_entries[pos] \in Entry
      /\ longest' \in 0..Width
      /\ pos \in 1..Len(m_entries) /\ Len(m_entries) \in Nat
      /\ longest \in -1..Width
  BY <1>1, Scans
<1>3. TypeOK'
  <2>1. pos' \in 1..(Len(m_entries) + 1) /\ longest' \in -1..Width
    BY <1>1, <1>2
  <2>2. QED
    BY <1>1, <1>2, <2>1 DEF IInv, TypeOK
<1>4. ScanBest'
  <2>1. Matches(m_entries[pos], ip) /\ longest' > longest /\ pos \in 1..(pos' - 1)
    BY <1>1, <1>2 DEF Better
  <2>2. \A j \in 1..(pos - 1) : Matches(m_entries[j], ip) => Length(m_entries[j].mask) <= longest
    BY <1>1 DEF IInv, ScanBest
  <2>3. \A j \in 1..(pos - 1) : Length(m_entries[j].mask) \in 0..Width
    <3>1. \A j \in 1..(pos - 1) : m_entries[j] \in Entry
      BY <1>2, ElementOfSeq DEF IInv, TypeOK
    <3>2. QED
      BY <3>1, LengthIs DEF Entry
  <2>4. ASSUME NEW j \in 1..(pos' - 1), Matches(m_entries[j], ip)
        PROVE  /\ Length(m_entries[j].mask) <= longest'
               /\ j < pos => Length(m_entries[j].mask) < longest'
    <3>1. CASE j = pos
      BY <1>1, <1>2, <3>1
    <3>2. CASE j # pos
      <4>1. j \in 1..(pos - 1)
        BY <1>1, <1>2, <3>2
      <4>2. Length(m_entries[j].mask) \in 0..Width /\ Length(m_entries[j].mask) <= longest
        BY <2>2, <2>3, <2>4, <4>1
      <4>3. QED
        BY <1>2, <2>1, <4>2
    <3>3. QED
      BY <3>1, <3>2
  <2>5. QED
    BY <1>1, <2>1, <2>4 DEF ScanBest, Matches
<1>5. QED
  BY <1>1, <1>3, <1>4 DEF IInv, ThrowsIfNone, FirstOfLongest

LEMMA SkipEntryKeeps == IInv /\ SkipEntry => IInv'
<1> SUFFICES ASSUME IInv, SkipEntry PROVE IInv'
  OBVIOUS
<1>1. /\ Scanning /\ ~Better(m_entries[pos]) /\ pos' = pos + 1 /\ pc = "lookup"
      /\ UNCHANGED <<file, buffers, m_entries, pc, ip, longest, longest_entry>>
  BY DEF SkipEntry, Scanning
<1>2. /\ Length(m_entries[pos].mask) \in 0..Width
      /\ pos \in 1..Len(m_entries) /\ Len(m_entries) \in Nat
      /\ longest \in -1..Width
  BY <1>1, Scans
<1>3. TypeOK'
  <2>1. pos' \in 1..(Len(m_entries) + 1)
    BY <1>1, <1>2
  <2>2. QED
    BY <1>1, <2>1 DEF IInv, TypeOK
<1>4. Matches(m_entries[pos], ip) => Length(m_entries[pos].mask) <= longest
  BY <1>1, <1>2 DEF Better
<1>5. \A j \in 1..(pos' - 1) : j = pos \/ j \in 1..(pos - 1)
  BY <1>1, <1>2
<1>6. ScanBest'
  <2>1. CASE longest = NoneYet /\ \A j \in 1..(pos - 1) : ~Matches(m_entries[j], ip)
    <3>1. ~Matches(m_entries[pos], ip)
      BY <1>2, <1>4, <2>1 DEF NoneYet
    <3>2. QED
      BY <1>1, <1>5, <2>1, <3>1 DEF ScanBest, Matches
  <2>2. CASE \E i \in 1..(pos - 1) :
               /\ Matches(m_entries[i], ip)
               /\ longest_entry = m_entries[i] /\ longest = Length(m_entries[i].mask)
               /\ \A j \in 1..(pos - 1) :
                      Matches(m_entries[j], ip) =>
                          /\ Length(m_entries[j].mask) <= longest
                          /\ j < i => Length(m_entries[j].mask) < longest
    <3>1. PICK i \in 1..(pos - 1) :
               /\ Matches(m_entries[i], ip)
               /\ longest_entry = m_entries[i] /\ longest = Length(m_entries[i].mask)
               /\ \A j \in 1..(pos - 1) :
                      Matches(m_entries[j], ip) =>
                          /\ Length(m_entries[j].mask) <= longest
                          /\ j < i => Length(m_entries[j].mask) < longest
      BY <2>2
    <3>2. i \in 1..(pos' - 1) /\ ~(pos < i)
      BY <1>1, <1>2
    <3>3. \A j \in 1..(pos' - 1) :
              Matches(m_entries[j], ip) =>
                  /\ Length(m_entries[j].mask) <= longest
                  /\ j < i => Length(m_entries[j].mask) < longest
      BY <1>4, <1>5, <3>1, <3>2
    <3>4. QED
      BY <1>1, <3>1, <3>2, <3>3 DEF ScanBest, Matches
  <2>3. QED
    BY <1>1, <2>1, <2>2 DEF IInv, ScanBest
<1>7. QED
  BY <1>1, <1>3, <1>6 DEF IInv, ThrowsIfNone, FirstOfLongest

\* The loop has been through all of the entries.
LEMMA Scanned ==
    ASSUME IInv, pc = "lookup", pos = Len(m_entries) + 1
    PROVE  1..(pos - 1) = DOMAIN m_entries
<1>1. m_entries \in Seq(Entry)
  BY DEF IInv, TypeOK
<1>2. Len(m_entries) \in Nat /\ DOMAIN m_entries = 1..Len(m_entries)
  BY <1>1, LenProperties
<1>3. QED
  BY <1>2

LEMMA ReturnKeeps == IInv /\ Return => IInv'
<1> SUFFICES ASSUME IInv, Return PROVE IInv'
  OBVIOUS
<1>1. /\ pc = "lookup" /\ pos = Len(m_entries) + 1 /\ longest # NoneYet /\ pc' = "found"
      /\ longest_entry' = IF longest_entry.gw = {}
                          THEN [longest_entry EXCEPT !.gw = ip] ELSE longest_entry
      /\ UNCHANGED <<file, buffers, m_entries, ip, pos, longest>>
  BY DEF Return, NoneYet
<1>2. PICK i \in DOMAIN m_entries :
         /\ Matches(m_entries[i], ip)
         /\ longest_entry = m_entries[i] /\ longest = Length(m_entries[i].mask)
         /\ \A j \in DOMAIN m_entries :
                Matches(m_entries[j], ip) =>
                    /\ Length(m_entries[j].mask) <= longest
                    /\ j < i => Length(m_entries[j].mask) < longest
  BY <1>1, Scanned DEF IInv, ScanBest
<1>3. m_entries[i] \in Entry /\ ip \in Value
  BY <1>2, ElementOfSeq, LenProperties DEF IInv, TypeOK
<1>4. longest_entry' \in Entry /\ AnswerOf(m_entries[i])'
  BY <1>1, <1>2, <1>3 DEF Entry, AnswerOf
<1>5. TypeOK'
  BY <1>1, <1>4 DEF IInv, TypeOK
<1>6. ThrowsIfNone' /\ FirstOfLongest'
  BY <1>1, <1>2, <1>4 DEF ThrowsIfNone, FirstOfLongest, Matches
<1>7. QED
  BY <1>1, <1>5, <1>6 DEF IInv, ScanBest

LEMMA ThrowKeeps == IInv /\ Throw => IInv'
<1> SUFFICES ASSUME IInv, Throw PROVE IInv'
  OBVIOUS
<1>1. /\ pc = "lookup" /\ pos = Len(m_entries) + 1 /\ longest = -1 /\ pc' = "thrown"
      /\ UNCHANGED <<file, buffers, m_entries, ip, pos, longest, longest_entry>>
  BY DEF Throw
<1>2. TypeOK'
  BY <1>1 DEF IInv, TypeOK
<1>3. m_entries \in Seq(Entry) /\ 1..(pos - 1) = DOMAIN m_entries
  BY <1>1, Scanned DEF IInv, TypeOK
<1>4. \A i \in DOMAIN m_entries : Length(m_entries[i].mask) \in 0..Width
  <2>1. \A i \in DOMAIN m_entries : m_entries[i] \in Entry
    BY <1>3, ElementOfSeq, LenProperties
  <2>2. QED
    BY <2>1, LengthIs DEF Entry
<1>5. \A i \in DOMAIN m_entries : ~Matches(m_entries[i], ip)
  <2>1. \A i \in DOMAIN m_entries : longest # Length(m_entries[i].mask)
    BY <1>1, <1>4, WidthNat
  <2>2. QED
    BY <1>1, <1>3, <2>1 DEF IInv, ScanBest
<1>6. QED
  BY <1>1, <1>2, <1>5 DEF IInv, ScanBest, ThrowsIfNone, FirstOfLongest, Matches

LEMMA NextIInv == IInv /\ [Next]_vars => IInv'
<1> SUFFICES ASSUME IInv, [Next]_vars PROVE IInv'
  OBVIOUS
<1>1. CASE Next
  BY <1>1, LoadLineKeeps, LoadEndsKeeps, LookupKeeps, TakeEntryKeeps, SkipEntryKeeps,
     ReturnKeeps, ThrowKeeps DEF Next, Load, Loop
<1>2. CASE UNCHANGED vars
  BY <1>2 DEF vars, IInv, TypeOK, ScanBest, ThrowsIfNone, FirstOfLongest, AnswerOf, Matches
<1>3. QED
  BY <1>1, <1>2

-----------------------------------------------------------------------------
(* The theorems *)

\* The table and the loop of lookup satisfy the inductive invariant, whatever the file.
THEOREM Invariance == Spec => []IInv
<1>1. QED
  BY InitIInv, NextIInv, PTL DEF Spec

\* lookup throws for exactly the addresses that no entry matches (routing-table.cpp:36-67).
THEOREM ThrowsExactly == Spec => []ThrowsIfNone
<1>1. IInv => ThrowsIfNone
  BY DEF IInv
<1>2. QED
  BY <1>1, Invariance, PTL

\* lookup returns the first of the matching entries whose mask takes most shifts.
THEOREM ReturnsFirstOfLongest == Spec => []FirstOfLongest
<1>1. IInv => FirstOfLongest
  BY DEF IInv
<1>2. QED
  BY <1>1, Invariance, PTL

\* Within the first octet, Length puts prefixes in their order: a prefix of n bits ends at
\* the power BITS - n.
LEMMA LongerInOctet ==
    ASSUME NEW m \in 0..Width, NEW n \in 0..Width, n < m, n < BITS
    PROVE  Length(s_addr(1..n)) < Length(s_addr(1..m))
<1> DEFINE short == s_addr(1..n)
           long == s_addr(1..m)
           least == Width - BITS + n
<1>1. Width \in Nat /\ BITS \in 1..Width /\ least \in Nat
  BY WidthNat
<1>2. short \in Value /\ long \in Value
  <2>1. 1..n \in Address /\ 1..m \in Address
    BY <1>1 DEF Address
  <2>2. QED
    BY <2>1, AddressValue
<1>3. \A k \in 1..(n + 1) : Power(k) = BITS - k
  <2>1. SUFFICES ASSUME NEW k \in 1..(n + 1) PROVE Power(k) = BITS - k
    OBVIOUS
  <2>2. BITS \in Nat /\ BITS > 0 /\ k - 1 \in 0..(BITS - 1)
    BY <1>1
  <2>3. (k - 1) \div BITS = 0 /\ (k - 1) % BITS = k - 1
    BY <2>2
  <2>4. QED
    BY <1>1, <2>3 DEF Power
<1>4. Length(short) <= least
  <2>1. \A p \in short : p + least >= Width
    <3>1. SUFFICES ASSUME NEW k \in 1..n PROVE Power(k) + least >= Width
      BY DEF s_addr
    <3>2. QED
      BY <1>1, <1>3
  <2>2. Length(short) \in 0..Width /\ \A t \in 0..(Length(short) - 1) : \E p \in short : p + t < Width
    BY <1>2, LengthIs
  <2>3. \A p \in short : p \in Nat
    BY <1>2 DEF Value
  <2>4. QED
    BY <1>1, <2>1, <2>2, <2>3
<1>5. Length(long) > least
  <2>1. Power(n + 1) \in long /\ Power(n + 1) = BITS - (n + 1)
    BY <1>1, <1>3 DEF s_addr
  <2>2. Length(long) \in 0..Width /\ Power(n + 1) + Length(long) >= Width
    BY <1>2, <2>1, LengthIs
  <2>3. QED
    BY <1>1, <2>1, <2>2
<1>6. Length(short) \in Nat /\ Length(long) \in Nat
  BY <1>1, <1>2, LengthIs
<1>7. QED
  BY <1>1, <1>4, <1>5, <1>6

\* As long as no prefix is longer than an octet, the answer of lookup is the longest match.
THEOREM LongestMatchInOctet == Spec => []LongestInOctet
<1>1. IInv => LongestInOctet
  <2>1. SUFFICES ASSUME IInv, pc = "found", NEW i \in DOMAIN m_entries,
                        NEW m \in 0..Width, NEW n \in 0..Width,
                        Matches(m_entries[i], ip), IsPrefix(m_entries[i].mask, m),
                        IsPrefix(longest_entry.mask, n), ~(m <= n \/ n >= BITS)
                 PROVE  FALSE
    BY DEF LongestInOctet
  <2>2. PICK best \in DOMAIN m_entries :
           /\ AnswerOf(m_entries[best])
           /\ Length(m_entries[i].mask) <= Length(m_entries[best].mask)
    BY <2>1 DEF IInv, FirstOfLongest
  <2>3. Length(s_addr(1..m)) <= Length(s_addr(1..n))
    BY <2>1, <2>2 DEF AnswerOf, IsPrefix
  <2>4. n < m /\ n < BITS
    BY <2>1, WidthNat
  <2>5. Length(s_addr(1..n)) < Length(s_addr(1..m))
    BY <2>4, LongerInOctet
  <2>6. Length(s_addr(1..m)) \in Int /\ Length(s_addr(1..n)) \in Int
    <3>1. 1..m \in Address /\ 1..n \in Address
      BY WidthNat DEF Address
    <3>2. QED
      BY <3>1, WidthNat, AddressValue, LengthIs
  <2>7. QED
    BY <2>3, <2>5, <2>6
<1>2. QED
  BY <1>1, Invariance, PTL
=============================================================================
