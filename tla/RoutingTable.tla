---------------------------- MODULE RoutingTable ----------------------------
(***************************************************************************)
(* The routing table (hw2/code/routing-table.cpp): load reads it from a    *)
(* file line by line, and lookup scans it for each packet.  SimpleRouter   *)
(* takes what lookup answers as its constant RT.                           *)
(*                                                                         *)
(* An address in a file is the set of its bits that are 1, numbered from 1 *)
(* in the order they are written: 1 is the highest bit of the first octet. *)
(* A uint32_t is the set of the powers of two it is made of.  The two      *)
(* numberings meet in inet_aton, which puts the first octet at the lowest  *)
(* address, where a little-endian machine has the lowest powers.           *)
(***************************************************************************)
EXTENDS Integers, Sequences

CONSTANTS
    BYTES,              \* 4: octets of an address
    BITS,               \* 8: bits of an octet
    Ifaces,             \* names of interfaces
    Bad,                \* a word inet_aton does not convert
    Files,              \* the files load may be given, each a sequence of lines
    Garbage             \* what load's buffers may hold before the first sscanf

Width == BYTES * BITS
Address == SUBSET (1..Width)
Value == SUBSET (0..(Width - 1))

\* The words sscanf finds on a line: dest, gw, mask, iface, or the first of them.
Word == Ifaces \cup {Bad} \cup Address
Buffers == [1..4 -> Word]

ASSUME TableAssumption ==
    /\ BYTES \in Nat \ {0}
    /\ BITS \in Nat \ {0}
    /\ Files \subseteq Seq(Seq(Word))
    /\ Garbage \subseteq Buffers

Entry == [dest : Value, gw : Value, mask : Value, ifName : Word]

VARIABLES
    file,               \* the lines still to be read
    buffers,            \* dest, gw, mask and iface of load, kept from line to line
    m_entries,
    pc,                 \* "load", "failed", "ready", "lookup", "found" or "thrown"
    ip, pos,            \* lookup: its argument, and the entry its loop is at
    longest, longest_entry

vars == <<file, buffers, m_entries, pc, ip, pos, longest, longest_entry>>

-----------------------------------------------------------------------------
(* load *)

\* Mutant: bits are counted from 0.
PowerFromZero(k) == (k \div BITS) * BITS + (BITS - 1 - (k % BITS))

\* inet_aton on a little-endian machine: bit k of the address is this power.
Power(k) == ((k - 1) \div BITS) * BITS + (BITS - 1 - ((k - 1) % BITS))
s_addr(address) == {Power(k) : k \in address}

\* sscanf leaves alone the buffers the line has no word for.
Scan(line) == [k \in 1..4 |-> IF k \in DOMAIN line THEN line[k] ELSE buffers[k]]

Unloaded == UNCHANGED <<ip, pos, longest, longest_entry>>

\* inet_aton returns other than 0.
Converts(word) == word \notin Ifaces \cup {Bad}

LoadLine ==
    /\ pc = "load"
    /\ file # <<>>
    /\ buffers' = Scan(Head(file))
    /\ \A k \in 1..3 : Converts(buffers'[k])
    /\ m_entries' = Append(m_entries,
                           [dest |-> s_addr(buffers'[1]), gw |-> s_addr(buffers'[2]),
                            mask |-> s_addr(buffers'[3]), ifName |-> buffers'[4]])
    /\ file' = Tail(file)
    /\ UNCHANGED pc
    /\ Unloaded

\* return false: the lines before are in the table, but the router stops.
LoadFails ==
    /\ pc = "load"
    /\ file # <<>>
    /\ buffers' = Scan(Head(file))
    /\ \E k \in 1..3 : ~Converts(buffers'[k])
    /\ pc' = "failed"
    /\ UNCHANGED <<file, m_entries>>
    /\ Unloaded

CannotRead ==
    /\ pc = "load"
    /\ m_entries = <<>>
    /\ pc' = "failed"
    /\ UNCHANGED <<file, buffers, m_entries>>
    /\ Unloaded

LoadDone ==
    /\ pc = "load"
    /\ file = <<>>
    /\ pc' = "ready"
    /\ UNCHANGED <<file, buffers, m_entries>>
    /\ Unloaded

-----------------------------------------------------------------------------
(* lookup *)

Matches(entry, address) == address \cap entry.mask = entry.dest \cap entry.mask

\* How many times mask <<= 1 is done before mask, an int of Width bits, is 0.
Length(mask) ==
    CHOOSE n \in 0..Width :
        /\ \A p \in mask : p + n >= Width
        /\ \A m \in 0..(n - 1) : \E p \in mask : p + m < Width

\* The initial value of longest; a default route, of length 0, is above it.
NoneYet == -1

Lookup(address) ==
    /\ pc \in {"ready", "found", "thrown"}
    /\ pc' = "lookup"
    /\ ip' = address
    /\ pos' = 1
    /\ longest' = NoneYet
    /\ longest_entry' = <<>>
    /\ UNCHANGED <<file, buffers, m_entries>>

Scanning == pc = "lookup" /\ pos \in DOMAIN m_entries

\* Mutant: the first match is taken.
FirstMatch(entry) == Matches(entry, ip) /\ longest = -1

\* Mutant: a length of 0 does not count, as if longest were 0 at first.
BetterThanZero(entry) == Matches(entry, ip) /\ Length(entry.mask) > longest /\ entry.mask # {}

\* Mutant: >= instead of >.
BetterOrEqual(entry) == Matches(entry, ip) /\ Length(entry.mask) >= longest
Better(entry) == Matches(entry, ip) /\ Length(entry.mask) > longest

TakeEntry ==
    /\ Scanning
    /\ Better(m_entries[pos])
    /\ longest' = Length(m_entries[pos].mask)
    /\ longest_entry' = m_entries[pos]
    /\ pos' = pos + 1
    /\ UNCHANGED <<file, buffers, m_entries, pc, ip>>

SkipEntry ==
    /\ Scanning
    /\ ~Better(m_entries[pos])
    /\ pos' = pos + 1
    /\ UNCHANGED <<file, buffers, m_entries, pc, ip, longest, longest_entry>>

\* A gateway of 0.0.0.0 is the destination itself.
Return ==
    /\ pc = "lookup"
    /\ pos = Len(m_entries) + 1
    /\ longest # -1
    /\ pc' = "found"
    /\ longest_entry' = IF longest_entry.gw = {}
                        THEN [longest_entry EXCEPT !.gw = ip]
                        ELSE longest_entry
    /\ UNCHANGED <<file, buffers, m_entries, ip, pos, longest>>

Throw ==
    /\ pc = "lookup"
    /\ pos = Len(m_entries) + 1
    /\ longest = -1
    /\ pc' = "thrown"
    /\ UNCHANGED <<file, buffers, m_entries, ip, pos, longest, longest_entry>>

-----------------------------------------------------------------------------
Init ==
    /\ file \in Files
    /\ buffers \in Garbage
    /\ m_entries = <<>>
    /\ pc = "load"
    /\ ip = {}
    /\ pos = 1
    /\ longest = NoneYet
    /\ longest_entry = <<>>

Load == LoadLine \/ LoadFails \/ CannotRead \/ LoadDone
Loop == TakeEntry \/ SkipEntry \/ Return \/ Throw

Next == Load \/ Loop \/ \E address \in Value : Lookup(address)

Spec == Init /\ [][Next]_vars

-----------------------------------------------------------------------------
(* Properties *)

TypeOK ==
    /\ file \in Seq(Seq(Word))
    /\ buffers \in Buffers
    /\ m_entries \in Seq(Entry)
    /\ pc \in {"load", "failed", "ready", "lookup", "found", "thrown"}
    /\ ip \in Value
    /\ pos \in 1..(Len(m_entries) + 1)
    /\ longest \in -1..Width
    /\ longest_entry \in Entry \cup {<<>>}

\* lookup throws for exactly the addresses no entry matches (routing-table.hpp:46),
\* the entry of length 0, the default route, included.
ThrowsIfNone ==
    /\ pc = "thrown" => \A i \in DOMAIN m_entries : ~Matches(m_entries[i], ip)
    /\ pc = "found" => \E i \in DOMAIN m_entries : Matches(m_entries[i], ip)

\* The entry an answer was made of: same interface and mask, and its gateway or,
\* when it has none, the destination.
AnswerOf(e) ==
    /\ e.dest = longest_entry.dest /\ e.mask = longest_entry.mask
    /\ e.ifName = longest_entry.ifName
    /\ longest_entry.gw = IF e.gw = {} THEN ip ELSE e.gw

\* The answer is the first of the matching entries whose computed length is the
\* largest: an entry loaded later never takes the place of an equal one, so a line
\* load repeats because the next one is blank changes no answer.
FirstOfLongest ==
    pc = "found" =>
        \E i \in DOMAIN m_entries :
            /\ Matches(m_entries[i], ip)
            /\ AnswerOf(m_entries[i])
            /\ \A j \in DOMAIN m_entries :
                   Matches(m_entries[j], ip) =>
                       /\ Length(m_entries[j].mask) <= Length(m_entries[i].mask)
                       /\ j < i => Length(m_entries[j].mask) < Length(m_entries[i].mask)

\* What the loop of lookup has found among the entries before pos: the first of the
\* longest, or none.
ScanBest ==
    pc = "lookup" =>
        \/ longest = NoneYet /\ \A j \in 1..(pos - 1) : ~Matches(m_entries[j], ip)
        \/ \E i \in 1..(pos - 1) :
               /\ Matches(m_entries[i], ip)
               /\ longest_entry = m_entries[i] /\ longest = Length(m_entries[i].mask)
               /\ \A j \in 1..(pos - 1) :
                      Matches(m_entries[j], ip) =>
                          /\ Length(m_entries[j].mask) <= longest
                          /\ j < i => Length(m_entries[j].mask) < longest

\* The inductive invariant.
IInv == TypeOK /\ ScanBest /\ ThrowsIfNone /\ FirstOfLongest

\* Prefixes as the file writes them: mask is that of the first n bits.
IsPrefix(mask, n) == mask = s_addr(1..n)

\* What lookup answers is the longest match as long as no prefix is longer than an
\* octet; of two longer ones neither is preferred.
LongestInOctet ==
    pc = "found" =>
        \A i \in DOMAIN m_entries : \A m, n \in 0..Width :
            /\ Matches(m_entries[i], ip)
            /\ IsPrefix(m_entries[i].mask, m) /\ IsPrefix(longest_entry.mask, n)
            => m <= n \/ n >= BITS

\* lookup finds the entry by "longest-prefix match" (routing-table.hpp:43-44): no
\* matching entry has a longer prefix than the answer.
LongestPrefix ==
    pc = "found" =>
        \A i \in DOMAIN m_entries : \A m, n \in 0..Width :
            /\ Matches(m_entries[i], ip)
            /\ IsPrefix(m_entries[i].mask, m) /\ IsPrefix(longest_entry.mask, n)
            => m <= n
=============================================================================
