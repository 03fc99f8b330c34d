# Networks2024 in TLA+

The repository holds the programs of a networks course: a software **router**
driven by a POX controller (`hw2/code`), an **FTP server** and an **FTP client**
(`hw1/server`, `hw1/client`), and a **UDP echo** exercise (`hw1/udp`).  This
directory models them in TLA+, checks the models with TLC, and proves with TLAPS the
safety properties of the router, of its routing table, of a session of the FTP server, of
an FTP client together with its session, and of UDP echo.

## 1. The system

### Router (`hw2/code`)

Three threads share the state of a `SimpleRouter`:

| thread | what it runs | source |
|---|---|---|
| dispatch thread of Ice | `handlePacket`, `resetRouter`, one call at a time | `core/main.cpp:32-42`, `simple-router.cpp` |
| ticker of the ARP cache | one tick per second, `m_mutex` held for all of it | `arp-cache.cpp:30-193, 303-323` |
| main thread | loads the table, registers with POX, resets the router once | `core/main.cpp:80-111` |

State: the cache `m_cacheEntries` and the requests `m_arpRequests` with the packets
they hold back (guarded by `m_mutex`, taken anew by every method of `ArpCache`), the
interfaces `m_ifaces` (no lock) and the routing table (constant once loaded).

What is hard: `forwardPacket` looks an address up and queues the packet in two
critical sections; `handlePacket` inserts an ARP reply and removes the request in
two, and then uses a request that it alone holds; the ticker resends, gives up, and
puts ICMP errors into the list it is walking; resets come at any time from two
threads, and the first may overlap the first calls.

What makes it correct: a packet is never stranded, lost or sent to the wrong
neighbour by any interleaving; there is one request per next hop; the ticker returns;
every request ends; the answer of the routing table is the longest match.

### FTP server (`hw1/server`)

The listener forks a *control process* for each connection.  It reads commands
(`get_msg`), answers them (`handle_request`) and forks a *DTP* child for each
transfer; it then polls the control connection and a pipe on which the child says
how the transfer went (`DTP`, 213-574).  ABOR and QUIT kill the child with SIGTERM.

What is hard: the child ends, is killed or dies of SIGPIPE while the parent handles
ABOR, a result or a lost client; the listening socket, the mode and the restart
position have to follow every refused, failed and finished transfer; segments that
hold half a line or two lines.

### FTP client (`hw1/client`)

The main process reads commands from standard input (`main`, 1205-1223), sends them and
waits for the replies (`handle_request`); `get` and `put` are commands that issue SIZE,
PASV, REST and RETR or STOR.  A reply of 1xx to RETR, STOR or LIST makes it fork a child
(`DTP`, 316-598), which accepts or opens the data connection and moves the file, while
the main process waits in `waitpid`, and then for the second reply.

^C goes to both processes.  The child ignores SIGINT; the main process, while it waits,
handles it (`handle_abor_main`): SIGTERM makes the child hold still and read a verdict from the
pipe (`handle_abor_DTP`), ABOR goes to the server, and what the server replies decides whether
the child ends or goes on.

What is hard: ^C at any moment, again while the child is held, and as the transfer ends by
itself; replies that must be counted on every path; a client that exits while it has a
child; restart position and mode, which client and server each keep for themselves.

### How the FTP programs interact

| | from the client | from the server |
|---|---|---|
| control connection | commands, close, reset by unread replies | 220, replies, close, reset by unread commands |
| data connection, PORT | accepts | connects, with the address of PORT |
| data connection, PASV | connects | accepts, on the port of 227 |
| end of a file | closing the data connection | closing the data connection |

What makes the two correct together: after each command both have read all the other said;
they agree on mode and position; "226" with a child that ended well means that all has
arrived; when either goes, both sessions and both children end.

### UDP echo (`hw1/udp`)

A client sends 0 to 50 and waits for 51 replies; the server numbers each datagram it
gets and sends it back.

### Not modelled

Header layouts, checksums, printing and dumps (`core/utils`, `core/protocol`,
`core/interface`, `core/dumper`), Ice and POX, the graders and topology scripts, the
traceroute exercise: no state of their own to keep correct.  `PROJECT.json` lists every component with its status.

## 2. The modules

| module | models |
|---|---|
| `ArpCache` | `arp-cache.cpp`: the operations on cache and queue, and a tick of the ticker as steps made with the mutex held (`it # 0`) |
| `SimpleRouter` | `simple-router.cpp` and the start in `core/main.cpp`: EXTENDS `ArpCache`, adds the dispatch thread (`handler`) and the main thread (`main`), the specification and its properties |
| `MCSimpleRouter` | two interfaces, a subnet behind `e2`, a default route behind `e1`, several traffics |
| `SimpleRouterProofs` | the theorems about the router: its inductive invariant and what follows from it |
| `RouterWaiterProofs` | EXTENDS `SimpleRouterProofs`: no packet is lost between the threads |
| `RouterResetProofs` | EXTENDS `SimpleRouterProofs`: when a null interface is met |
| `RoutingTable`, `MCRoutingTable` | `routing-table.cpp`: `load` line by line, `lookup` entry by entry |
| `RoutingTableProofs` | the theorems about loading and looking up |
| `FtpServer`, `MCFtpServer` | one session of `server.c`: control process, child, pipe, signal, the two connections |
| `PacketDelivery` | abstract: what a router promises for the packets it has to send (`arp-cache.hpp:22-42`) |
| `RouterDelivery` | EXTENDS `SimpleRouter`, INSTANCE `PacketDelivery`: the refinement mapping |
| `FtpServerProofs` | the theorems about a session of the server |
| `FtpClient`, `MCFtpClient` | `client.c`: main process, child, pipe, SIGTERM and ^C, in front of any server |
| `FtpTransfer`, `MCFtpTransfer` | a client, the listener (`server.c:1376-1421`) and the session it forks, composed over the two connections: INSTANCE of `FtpServer` and of `FtpClient` |
| `FtpClientProofs` | the types of the client, in front of any server |
| `FtpTransferProofs` | INSTANCE of `FtpServerProofs` and of `FtpClientProofs`: the theorems about client and server together |
| `UdpEcho`, `MCUdpEcho` | `hw1/udp`: clients, server and network |
| `UdpEchoProofs` | the theorems about UDP echo |

`SimpleRouter` takes what `RoutingTable::lookup` answers as the constant function
`RT`: the table does not change while the router runs, and `lookup` has no side effect.

### State and actions of the router

`handler.pc` says where the call of the dispatch thread is, between two critical
sections: `insert` and `remove` for an ARP reply, `lookup` and `queue` for a packet
to be sent, `clear`, `wipe` and `fill` for a reset.  `held` is the `shared_ptr` that
`insertArpEntry` returned; it is the same object as the one in the list while
`held.linked`, and what the ticker adds to one is added to both (`HeldQueued`).
`wire` is what the last step gave to `sendPacket`, and is empty after the others, so
that the frames of a step can be compared with the state.

Abstractions:

- A hardware address of the router is the interface it belongs to; a payload is
  left out.  An ICMP message keeps its kind and addresses.  `correct` stands for the
  checks of length and checksum; an ICMP packet for the router with a wrong ICMP
  checksum is dropped like one of an unknown protocol.
- A null `shared_ptr<ArpRequest>` is an object without packets that is not linked:
  `removeRequest` of it removes nothing, and there is nothing to send.
- Time is counted in ticks.  `now - timeSent > seconds(1)` always holds when the
  ticker looks, since it sleeps for a second between two looks.  An entry expires at
  the latest when it has seen `SR_ARPCACHE_TO` ticks, and may expire earlier, since
  a tick may be late.
- Packets of a request given up are dropped one by one as the loop passes them; in
  the code the list goes at the end.  Nobody sees the difference, since the mutex is
  held.
- `findIfaceByName` and the use of the pointer are one step in `forwardPacket` and in
  the ticker; a reset in between is the same as one before (the dispatch thread
  cannot reset while it forwards), except for the main thread's, which `MainWipes`
  makes fail or read garbage for the handlers that keep a pointer across a critical
  section.
- Bounds: no packet arrives while `MaxPending` packets wait and no ARP reply while
  the cache has `MaxCache` entries.

### The router as a PacketDelivery

`PacketDelivery` knows packets, not queues or next hops: `buffer` is the bag of packets the
router still has to send, `hand` those of them the dispatch thread is working on, `sent`
what the last step sent.  A packet is accepted, and then delivered, reported to its source,
forgotten if there is no way back to it, or cleared by a reset.  `RouterDelivery` maps the
queued packets of all requests and the request held by the handler (one object in memory,
counted once while it is linked) to `buffer`, and the held packets and the packet of
`forwardPacket` to `hand`.  All other steps of the three threads stutter or `Search`.

The code does not implement the promise as the comment states it (`OnceSpec`, run
`RouterTwice`): a request may be given up while the handler holds it.  `Spec` adds that one case,
`ReportTooEarly`, and is what the router does implement (`Delivery`).  `Delivery` is checked with traffic all of
which has a way back; the stranger without one is in `RouterLocal`.

### State and actions of the routing table

An address in the file is the set of its 1 bits; `s_addr` is what `inet_aton` makes of
it on a little-endian machine, a set of powers of two.  `Length` counts the left
shifts of the mask as an `int` (the bits shifted out are lost, which is what
compilers make of it).  The buffers of `load` survive from line to line, so a blank
or short line repeats words of an earlier one; before the first line they hold
anything (`Garbage`).

### State and actions of the FTP server

`ctl` is the position of the control process, `dtp` that of the child.  A segment is
a complete line or the first part of one; a read returns any number of the segments
that have arrived, and what follows the first line of a text is lost (`FirstLine`), except
that `sscanf` may take the next line for a missing parameter or leave the `\r` on one
(`ParsedArgs`), as in `parse_request`.  A parameter is a class: `good`, `bad` (a path that is not
accepted, a number below zero, an address that is none), `zero` or `wide` (a number that is no
`int`); `Number` gives the number, as `strtol` reads it, and `atoi` what is left of that in an `int`, with
`IntMax` scaled down.  NLST is LIST with another `ls` and is folded into it.  `Answers` gives the codes with which a command
may be refused or answered without effect, one arm for each verb, with the tests in the
order of the code; commands that change the session are actions of their own.  `link` and `peer` are the control and
the data connection as a writer finds them: up, closed by the other end, or broken
(the next write raises SIGPIPE).  A file is a number of blocks, of which `left` are still to be
sent or to come.  The file system answers as it likes, also while a file moves: a read may
fail with blocks left (`SentAll`), a write of a block be lost (`ReceiveBlock`).  The code looks
at neither; `ferror` remembers it, so that properties can tell an error of the disk from one of
the transfer.

### State and actions of the FTP client

`main` is where the main process is, `child` where the child is: `armed` has SIGTERM handled and
its copy of the writing end of the pipe still open (`client.c:339-346`); `heldArmed`,
`heldOpening` and `heldMoving` are a child inside `handle_abor_DTP`.  The child's copy of the
control connection, which it closes between the same lines, is taken to go with that of the main
process.  `GetMsg` takes the class of a reply (its
first digit, all that the code looks at), or fails: after a reset the buffer of the caller is
used uninitialised, so that any class may be found.  `GetMsgFails` stands for the timeout and for the
close of the server, which both end in `exit_connection`.  `script` holds the commands
that `get` or `put` have still to issue; `position` is a number, read with `%lld` where the server
has `atoi`; it and `accepting` are `offset` and
`data_listen_socket`.  `signal()` blocks a signal while its handler runs: a ^C during
`handle_abor_main` is one that comes after it, and a second SIGTERM waits in `sigterm`, so
that `close_DTP` never runs.

### The composition

Each action of `FtpTransfer` is an action of one program together with what it does to the
environment of the other; neither module's assumptions about its environment are taken on
trust: `EnvironmentsMet` checks that every step of the composition is a step of
`FtpServer!Spec` and of `FtpClient!Spec`.  `inbox` is shared, `answers` takes the replies;
`conn` and `flight` are the data connection: who has it, and the blocks on it (at most
`Window`).  A connection made to a listening socket is `queued` until it is accepted,
and reset when that socket is closed; the end that closes is seen at the other side by
`CloseArrives`, later.  Lines come whole.

Left out: `poll` failing, lines longer than the buffer, reuse of process numbers
(`dtp_pid` is not reset), the contents and names of files; at the client, the progress
display, the search for a free port, which ends, and errors of its own disk: the results of
`fwrite` (`client.c:418`) and `fread` (`client.c:494`) are not looked at there either, so that
"arrived" below means taken off the connection.

## 3. What TLC checks

All the configurations say `CHECK_DEADLOCK FALSE`: a router that has crashed, a
session that has ended, a table that failed to load and clients that are done really
stop.

### Runs that pass

| run | shows |
|---|---|
| `RouterTransit` | transit traffic, neighbours that answer or not, resets at any moment: types, one request per next hop, `packets.front()` exists, nothing stranded or misrouted, null interfaces only during resets; the threads together keep the promise of `PacketDelivery` (`Delivery`); the ticker returns, requests end, calls return |
| `RouterLocal` | echo, port unreachable, time exceeded, ignored frames, no default route, a stranger without a way back, and a POX that reports only some of the ports: the ICMP messages are routed and delivered too (`IInv`, `AllWaitersTold`), until a missing interface stops the router |
| `TableLookup` | every file of up to three lines over nested prefixes of 0 to 4 bits, blank, short and wrong lines, every address |
| `FtpSessions` | every command in every order; transfers in both modes and directions, aborted, hung up on, failing at each step |
| `FtpHangup` | lines in two segments and commands behind one another; under fairness a lost client ends session and child, and an abort ends |
| `FtpTransfers` | a user who logs in, chooses a mode, transfers by hand, with REST, `get` and `put`, and presses ^C twice, against the real server: the two stay in step, agree on mode and on a position that is an `int`, 226 means that all has come off the connection and, unless the server's disk failed, that nothing is left to send or receive; a client that goes takes everything with it, but for the child that is `Stuck` (below), and each command ends |
| `UdpEchoes` | two clients on a network that reorders, loses and repeats: numbers are distinct, a client that ends has every reply, and all end unless something is lost |

`IInv` is the inductive invariant of the proofs of section 4, in `RouterTransit`,
`RouterLocal`, `TableLookup`, `FtpHangup`, `FtpTransfers` and `UdpEchoes`; it contains the
type invariant.

### Runs that find a disagreement

| run | the code | the documentation |
|---|---|---|
| `RouterPing` | the give-up loop appends to the list it walks when the way back is the next hop that failed; the mutex is never released (`arp-cache.cpp:134`) | called every second (`arp-cache.hpp:130`) |
| `RouterTwice` | the ticker gives a request up between `insertArpEntry` and `removeRequest`: the sources are told that their packets are unreachable, and the packets are delivered (`simple-router.cpp:234-260`) | reported and removed, or sent and removed (`arp-cache.hpp:25-42`) |
| `TableLongest` | masks longer than /8 all have length 32 (`routing-table.cpp:47`) | longest-prefix match (`routing-table.hpp:44`) |
| `FtpSigpipe` | a child killed by SIGPIPE writes no result, and only POLLIN is looked at (`server.c:314, 542`) | results come through the pipe (`server.c:262-265`) |
| `ClientHangs` | a client that loses its server during an abort waits for a child that has SIGTERM blocked and waits for the client (`client.c:31-34, 257`) | the child is sure to exit (`client.c:33, 247`); the client closes (`hw1/report.md:96`) |

### Differences that the actions show and no run is spent on

Three of them limit what the properties can say, and each property names its exception:

- A read of a file that fails (a directory, an I/O error) is taken for the end of the file, and a
  block that `fwrite` does not write for one that it has (`SentAll`, `ReceiveBlock`,
  `server.c:312, 377`): 226 follows in both cases, though 0 is for a normal end and 1 for an
  abnormal one (`server.c:262-263`).  `CompleteIsAll` and `CompleteArrived` speak of `ferror`.
- REST with a number that is no `int`, such as 2^32 + 1: the client skips what it says, the server
  what `atoi` leaves of it, and answers 350 (`server.c:1292`, `client.c:949`), though REST is to
  bring the two positions in line (`hw1/report.md:84`; `server.c:304` exits when the server cannot
  begin where the client believes).  `NeverAhead` speaks of positions up to `IntMax`.
- A SIGTERM that comes after the child has called `signal` and before it has closed its writing end
  of the pipe holds it (`ClosesPipe`, `client.c:339-347`); when the main process then dies, by a
  second ^C or by SIGPIPE, the read never ends, though children are closed before a process ends
  (`hw1/report.md:108`).  `GoneEndsAll` speaks of `Stuck`.

Router:
- `break` drops the packets behind one without a route back (`WaiterUnroutable`,
  `arp-cache.cpp:114-117`), though all are to be reported (`arp-cache.hpp:29-30`);
  `AllWaitersTold` exempts them (`Untold`).
- The ticker's ICMP error leaves one interface with the hardware address of another
  (`WaiterTold`, `arp-cache.cpp:139`).
- The ticker may send an ARP request between `insertArpEntry` and `removeRequest`,
  which `simple-router.cpp:235` means to avoid.

Server:
- Half a line and then silence: the second read has no timeout (`server.c:139`), though a
  silent client is to be disconnected (`report.md:38`).
- A refused restart position is kept, below zero, until the next command (`Rest`, `server.c:1292`).
  `RestLifetime` exempts REST itself: it says that the position goes with the command after, which
  is a RETR or a STOR that fails in `fseek`, or another that resets it.
- The data socket stays open when `fork` fails (`ForkFails`, `server.c:567`), so that a client
  that receives waits for ever; and so does the control connection when the listener's fails
  (`CannotFork`, `server.c:1418-1420`), until the client times out.
- An ABOR that comes when the transfer has ended is taken for QUIT and ends the session
  (`server.c:816`).

Client:
- A command that sends nothing (a wrong `get`, a port in use) resets the client's restart position
  (`client.c:806-808`) and not the server's: the server may skip what the client does not.  The
  other direction, which damages the file, is excluded by `NeverAhead` for positions that are an
  `int`, and is the second case above for others.
- `get` opens the local file to append before it asks for REST (`client.c:1024`); when REST is
  refused it appends the whole file.
- `get` and `put` leave `file` open in the main process, and the next RETR or STOR by hand
  uses it (`client.c:381`).
- An abort the server does not approve is to let the child go on (`report.md`, 2.1); a child
  that waits in `accept_with_timeout` fails instead, since `poll` is not restarted (`Resumes`).
- `DTP` looks at the end of the child only and returns 0 though the second reply is 451 or 426;
  a child killed by ^C before it ignores SIGINT counts as one that ended well (`WEXITSTATUS`).
- A refused PASV returns 0 (`client.c:919`), so that `get` and `put` go on.
- A close of standard input repeats the last command (`fgets`, `client.c:1211`).

### Bounds, and why they are enough

*Router.*  Two interfaces and three next hops give every pairing of the interface a
packet came by, the one it leaves by and the one its error leaves by.  Two waiting
packets are the least for which one request holds several, and for which an error
can join another request; two cache entries the least for a duplicate.  Two
transmissions (`MAX_SENT_TIME = 2`) separate the first, the last and giving up, and a
life of one tick makes entries expire between any two steps.  The safety properties are proved for all values.

*Table.*  Two octets of two bits have prefixes shorter than, equal to and longer than
an octet; three lines are two candidates and a line that repeats one.

*FTP, each alone.*  One or two unread segments: a command during a transfer and one behind it. One
or two blocks: a transfer can be cut in the middle.  Numbers of replies are not bounded,
since each command starts a new count.

*FTP, composed.*  `MaxInterrupts = 2` is the least for ^C on a child that has resumed; two unread
commands are ABOR behind a transfer, two unread replies what an aborted transfer sends.  Two
blocks with a window of one let the sender be ahead of the receiver and be cut in the
middle.  `UserInputs` has one command for each thing the client does differently.

*Numbers.*  `IntMax = 1` leaves an `int` four values.  `wide` is a number that `atoi` turns into one
below zero (server alone) or into a smaller position, like 2^32 + 1 (composed).

*UDP.*  Two clients, two datagrams each, one repetition anywhere.

### Fairness

*Router* (`FairSpec`).  The ticker is weakly fair: it never waits for another thread
for long, as no method of `ArpCache` blocks with the mutex held.  The calls and the main
thread are strongly fair: `std::mutex` promises no order, but the ticker sleeps for a
second after each tick with the mutex free, so whoever waits for it gets it, though it
is not free all the time.  Nothing is assumed of arrivals or of POX.

*FTP server.*  Both processes are weakly fair.  Each turn of the poll loop looks at the
pipe after the control connection, so a result is taken however much the client
sends: strong fairness of `TakeResult`.  A child that moves data to or from an open
connection waits for its peer, of which nothing is assumed.

*FTP client and composition.*  As long as some process of the two programs can go on, or a close can arrive,
one of these happens (`WF_vars(System)`): they are scheduled by their kernels, and none of their
loops is without end.  The user is not fair: he need not type, nor press ^C.  A timeout is
a step that may come at any time.

*UDP.*  The programs run, and a datagram that is not lost arrives.

## 4. What is proved

Each theorem holds for all values of the constants that the assumptions of the modules
allow; TLC evaluates these assumptions in the runs.

### The router (`ArpAssumption`, `RouterAssumption`)

| theorem | module | statement |
|---|---|---|
| `Invariance` | `SimpleRouterProofs` | `Spec => []IInv` |
| `TypeCorrect` | | `Spec => []TypeOK` |
| `QueueSound` | | `Spec => []UniqueRequests` |
| `FrontDefined` | | `Spec => []FrontExists` |
| `WaitersRouted` | | `Spec => []QueueRouted` |
| `NothingStranded` | | `Spec => []NoneStranded` |
| `EveryFrameRouted` | | `Spec => []FramesRouted` |
| `NoneLost` | `RouterWaiterProofs` | `Spec => AllWaitersTold` |
| `CrashesOnlyInReset` | `RouterResetProofs` | `Spec => []CrashOnlyInReset` |

None of the state properties is inductive.  `NoneStranded`, for instance, needs that a
packet about to be queued has no entry in the cache: true because the dispatch thread
is the only one that inserts (`HandlerRouted`); and that the request found by
`insertArpEntry` is still the one in the list, or gone, when it is removed
(`HeldByHandler`, `RemovalPending`).  `FramesRouted` needs that every queued packet
waits in the request of its own next hop (`QueueRouted`), the held one included, and
that each entry of the cache came from a reply (`OnlyAnnounced`).  `IInv` is the
conjunction of them.

`NoneLost` needs one fact more: `removeRequest` takes a request off the list, and only what the
caller holds is sent, so whoever holds a listed request must have all the packets of it, those
the ticker has queued meanwhile included (`HeldCovers`).  The proof describes each operation
by the packets that wait for a next hop after it (`QueuedAt`, `WithoutAt`, `NextWaiterAt`), and
has one lemma for each action.

`CrashesOnlyInReset` has two assumptions of its own: every list of ports POX reports has
the interfaces the routing table names, and so has IP_CONFIG.  `RouterLocal` has ports for
which the first fails, and does crash.  Its invariant is `Refilled`: what one thread wipes out
is in what it will fill in, or in what the other thread has still to fill in.

### The routing table (`TableAssumption`)

| theorem of `RoutingTableProofs` | statement |
|---|---|
| `Invariance` | `Spec => []IInv` |
| `ThrowsExactly` | `Spec => []ThrowsIfNone` |
| `ReturnsFirstOfLongest` | `Spec => []FirstOfLongest` |
| `LongestMatchInOctet` | `Spec => []LongestInOctet` |

`ScanBest` says what the loop of `lookup` has after each entry: the first of the longest
matches so far.  That the length of a mask is defined needs that the shifted mask becomes 0: the
shifts have a least number that does it, found with the well-founded order of the naturals, and the
powers of two stay within the width of the word.

### A session of the FTP server (`ServerAssumption`)

| theorem of `FtpServerProofs` | statement |
|---|---|
| `Invariance` | `Spec => []IInv` |
| `TypeCorrect` | `Spec => []TypeOK` |
| `TransferLeavesNothing` | `Spec => []NothingLeft` |
| `SocketFollowsMode` | `Spec => []ListensIfPassive` |
| `RepliesCounted` | `Spec => []AnsweredOnce` |
| `CompleteMeansAll` | `Spec => []CompleteIsAll`: 150 and 226 leave nothing to receive, and nothing to send unless a read failed |
| `ChildNotLeft` | `Spec => []NoOrphan` |
| `RestForgotten` | `Spec => RestLifetime` |

The invariant follows the control process from one position to the next: how many replies it
has given to the command it is at (`RepliesFollow`), what the result in the pipe says of the
blocks that were moved (`ResultFits`), and that the listening socket is closed while a
transfer runs (`SocketClosed`).  `AnsweredOnce` speaks of the end of a command only, and
`CompleteIsAll` of the reply 226; both depend on what the child did several steps earlier.

### The FTP client (`ClientConstants`)

`TypeCorrect` of `FtpClientProofs` is `ClientConstants /\ Spec => []TypeOK`: whatever a server
sends and the user types, every variable of the client keeps its type.  It is proved for the
proofs about the composition, whose constants satisfy `ClientConstants`: the user types commands
of the client and codes are numbers.

### Client and server composed (`TransferAssumption`, `AlphabetAssumption`)

The second assumption makes no restriction on the programs: it says that the server may get all
that the client sends and the client all that the server answers, and that the bounds on what is
unread (`MaxInbox`, `MaxAnswers`) are at least 2.  The proof shows that no more than two commands
or two replies are ever unread, so that the bounds cut nothing off.

| theorem of `FtpTransferProofs` | statement |
|---|---|
| `Invariance` | `Spec => []IInv` |
| `TypeCorrect` | `Spec => []TypeOK` |
| `ClientAndServerInStep` | `Spec => []InStep` |
| `ModesNeverDisagree` | `Spec => []ModesAgree` |
| `ClientNeverAhead` | `Spec => []NeverAhead`: a position that is an `int` is skipped by the client only if by the server, for any `Number` and `IntMax` |
| `CompleteHasArrived` | `Spec => CompleteArrived`: 226 to a child that ended well leaves nothing on the connection, and nothing to move unless the server's disk failed |
| `ComponentsImplemented` | `Spec => EnvironmentsMet` |

`ComponentsImplemented` comes first in the argument: each step of the composition is a step of
the server's specification and a step of the client's, or leaves it alone (`StepsMet`).  So
`Server!IInv`, proved for every client, and the types of the client, proved for every server,
hold here without another proof, and are conjuncts of `IInv`.

The conjunct that carries the rest is `Dialogue`: for each place of the client, the places where
the server can be, with the commands and the number of replies between them.  `InStep` is its
line for the prompt.  It is not inductive alone: that a server which is busy has a client waiting
for it needs `Unforked` and `Ends`, and that the client knows what a reply was for needs the
invariant of the server (`RepliesFollow`).  `ModeFollows` and `PositionFollows` say what each side
knows of mode and position on the way from a reply to the command that uses it; they give
`ModesAgree` and `NeverAhead`.  `OneConnection` says that a data connection belongs to one
transfer.

`CompleteHasArrived` needs a second invariant on top, `Arrival`, because the reply 226 and the end
of the client's child come from two processes that never speak to each other:

- `Counted` and `SameCommand`: the reply is that of the command the client has issued;
- `ClosedEnds`: what the client closes it has no child for any more, and a server that has seen
  the end of a STOR had then, as blocks left to read, what was on the connection; so 226 says
  that these have been read (`ResultFits`);
- `Received` and `OpenedOnce`: a child that ended well after RETR or LIST left nothing on the
  connection, and with PORT the server does not connect a second time;
- `AbortKills`: an abort also ends in 226.  By then 426, which came first, has told the child that
  waits for the verdict to fail, or the child had failed, so that its code is not 0; this is what
  keeps the 226 of an abort from passing for that of a complete transfer;
- `CompleteFollows`: what is known when 226 is the next reply and there was no abort.

### UDP echo (`EchoAssumption`)

| theorem of `UdpEchoProofs` | statement |
|---|---|
| `Invariance` | `Spec => []IInv` |
| `NumbersNameOne` | `Spec => []NumberNamesOne` |
| `DoneMeansAll` | `Spec => []DoneHasAll` |

`OwnReplies` says that a reply to a client answers a datagram of this client, `AnsweredOnce`
that a datagram has one number as long as nothing has arrived twice.  `DoneHasAll` is then counting:
as many different replies as there are datagrams (`FS_PigeonHole`).

### Only model-checked

- All liveness, which is out of the prover's reach, as is everything about ENABLED.
- The refinement `Delivery`: its mapping counts packets in bags, folded over the queue, and
  what a fold computes needs an induction the provers cannot use.  `NoneLost` is the part of it
  that says that nothing disappears.
- `ExitEnds` of `FtpClient`, `GoneEndsAll` and `CommandEnds` of the composition: they are
  liveness.  That `inbox` and `answers` stay short is part of `IInv`.

## 5. Plan

Done: every module of section 2, with the proofs above.

Left, in the order of what each would add:

1. The refinement `Delivery`, action by action, with a mapping that counts packets by their
   places in the queue rather than by a fold.
2. Several sessions on one listener, whose ended children are not waited for
   (`server.c:1414`).
