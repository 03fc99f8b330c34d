----------------------------- MODULE FtpServer -----------------------------
(***************************************************************************)
(* One session of the FTP server (hw1/server/server.c): the control        *)
(* process that reads commands and answers them, the child it forks for    *)
(* each data transfer (DTP), the pipe between them and SIGTERM.  The other *)
(* ends, a client on the control connection and a peer on the data         *)
(* connection, do what they please.                                        *)
(*                                                                         *)
(* Of a path the model keeps whether path_check and path_convert accept    *)
(* it; what the file system then answers, reads and writes included, is    *)
(* open.  A file is the number of blocks that are left to move.            *)
(***************************************************************************)
EXTENDS Integers, Sequences

CONSTANTS
    Requests,           \* what the client may send
    Number,             \* the number a parameter is, as strtol takes it
    IntMax,             \* the largest int
    SplitLines,         \* a line may arrive in two segments
    MaxInbox,           \* bound: segments the server has not read
    MaxBlocks           \* bound: blocks of a file

Verb == {"QUIT", "ABOR", "USER", "PASS", "SYST", "TYPE", "SIZE", "PWD", "CWD", "MKD",
         "RMD", "PORT", "PASV", "RETR", "STOR", "LIST", "REST", "other"}

\* The parameter: none, or the one expected (anonymous, I, a path in the root, a
\* number above zero), zero, a number no int holds, or another one.
Numeral == {"good", "zero", "wide", "bad"}
Request == [verb : Verb, arg : {"none"} \cup Numeral]

ASSUME ServerAssumption ==
    /\ Requests \subseteq Request
    /\ Number \in [Numeral -> Int]
    /\ IntMax \in Nat
    /\ SplitLines \in BOOLEAN
    /\ MaxInbox \in Nat
    /\ MaxBlocks \in Nat

VARIABLES
    ctl,                \* what the control process is doing
    status,             \* enum user_status
    offset,             \* restart position
    listening,          \* data_listen_socket # -1
    data_socket,        \* the control process has a data connection open
    request,            \* the command it is working on
    sentence,           \* the first line in what read_with_timeout has read
    midline,            \* what it has read ends in the middle of a line
    replies,            \* codes sent for that command
    link,               \* control connection: "up", "fin" or "broken"
    inbox,              \* segments sent by the client and not read
    dtp,                \* the child: "none", "opening", "moving", "exiting" or "dead"
    term,               \* SIGTERM is pending for the child
    pipe,               \* codes in the pipe
    peer,               \* data connection: "none", "open", "fin", "reset" or "broken"
    left,               \* blocks still to move
    ferror              \* error indicator of the child's stream, file or pfile

ctlVars == <<ctl, status, offset, listening, data_socket, request, sentence, midline, replies>>
dtpVars == <<dtp, term, pipe, left, ferror>>
netVars == <<link, inbox, peer>>
vars == <<ctl, status, offset, listening, data_socket, request, sentence, midline, replies,
          link, inbox, dtp, term, pipe, peer, left, ferror>>

\* The first segment of a line; the request is the segment that completes it.
Part == [verb |-> "part"]
NoRequest == [verb |-> "none"]

-----------------------------------------------------------------------------
(* send_msg *)

\* To a client that has closed, a first message is lost and breaks the connection,
\* at once or later; on a broken one SIGPIPE kills the process.
Send(code, next) ==
    IF link = "broken"
    THEN /\ ctl' = "exited"
         /\ UNCHANGED <<replies, link>>
    ELSE /\ ctl' = next
         /\ replies' = Append(replies, code)
         /\ link' \in IF link = "fin" THEN {"fin", "broken"} ELSE {link}

-----------------------------------------------------------------------------
(* get_msg: poll with a timeout, then read until the text ends with \r\n *)

\* What parse_request makes of a line with others behind it, by sscanf and %[^\n]: its
\* parameter keeps the \r, and without one the next line is taken for it.
ParsedArgs(line) ==
    IF \/ line.verb \in {"QUIT", "ABOR", "PASS", "SYST", "PWD", "PASV", "other"}
       \/ line.verb \in {"REST", "PORT", "STOR", "MKD"} /\ line.arg # "none"
    THEN {line.arg}
    ELSE IF line.arg = "none" THEN Numeral ELSE {"bad"}

Followed(line) == {[line EXCEPT !.arg = arg] : arg \in ParsedArgs(line)}

\* The first line in what has been read with these n segments, if there is one; the
\* lines behind it are lost.
FirstLine(n) ==
    IF sentence # NoRequest \/ \A i \in 1..n : inbox[i] = Part
    THEN {sentence}
    ELSE LET first == {i \in 1..n : inbox[i] # Part /\ \A j \in 1..(i - 1) : inbox[j] = Part}
         IN  UNION {IF i = n THEN {inbox[i]} ELSE Followed(inbox[i]) : i \in first}

\* One read returns n of the segments that have arrived.
Reads(n) ==
    /\ n \in DOMAIN inbox
    /\ inbox' = SubSeq(inbox, n + 1, Len(inbox))
    /\ midline' = (inbox[n] = Part)

\* The text read is not complete: read is called again, without a timeout.
ReadPart ==
    /\ ctl \in {"reading", "transfer"}
    /\ \E n \in DOMAIN inbox : Reads(n) /\ sentence' \in FirstLine(n)
    /\ midline'
    /\ UNCHANGED <<ctl, status, offset, listening, data_socket, request, replies, link, peer,
                   dtpVars>>

ReadCommand ==
    /\ ctl = "reading"
    /\ \E n \in DOMAIN inbox : Reads(n) /\ request' \in FirstLine(n)
    /\ ~midline'
    /\ ctl' = "handling"
    /\ sentence' = NoRequest
    /\ replies' = <<>>
    /\ UNCHANGED <<status, offset, listening, data_socket, link, peer, dtpVars>>

\* exit_connection, when TIMEOUT_MS_READ has passed or the client has closed.  The
\* timeout is that of the poll before the first read.
SessionEnds ==
    /\ ctl = "reading"
    /\ inbox = <<>>
    /\ ~midline \/ link # "up"
    /\ ctl' = "exited"
    /\ UNCHANGED <<status, offset, listening, data_socket, request, sentence, midline, replies,
                   dtpVars, netVars>>

-----------------------------------------------------------------------------
(* handle_request: commands that are answered and change nothing *)

LoggedIn == status \in {"PASS", "PORT", "PASV"}
HasMode == status \in {"PORT", "PASV"}
Is(verbs) == ctl = "handling" /\ request.verb \in verbs
Without == request.arg = "none"

\* The message at the end of handle_request.
Unhandled == IF LoggedIn THEN 500 ELSE 530

\* The codes a command may get when it is not carried out, or has no effect on the
\* session.  {} says that it is carried out.
Answers ==
    LET Asking(codes) == IF Without THEN {501} ELSE codes
        LoggedInFor(codes) == IF LoggedIn THEN codes ELSE {Unhandled}
        ModeFor(codes) == IF HasMode THEN codes ELSE {425}
        Path(good, bad) == IF request.arg = "good" THEN good ELSE bad
    IN  CASE request.verb = "SYST" -> {215}
          [] request.verb = "other" -> {502}
          [] request.verb \in {"QUIT", "ABOR"} -> {}
          [] request.verb = "USER" ->
                Asking(IF status = "CONNECTED" THEN Path({}, {530}) ELSE {Unhandled})
          [] request.verb = "PASS" -> IF status = "USER" THEN {} ELSE {Unhandled}
          [] request.verb \in {"RETR", "STOR"} -> Asking(ModeFor(Path({}, {451, 550})))
          [] request.verb = "LIST" ->
                ModeFor(IF request.arg \in {"wide", "bad"} THEN {451, 500, 550} ELSE {})
          [] request.verb = "REST" -> Asking(ModeFor({}))
          [] request.verb = "PORT" -> Asking(LoggedInFor({}))
          [] request.verb = "PASV" -> LoggedInFor({})
          [] request.verb = "PWD" -> LoggedInFor({257})
          [] request.verb = "TYPE" -> LoggedInFor(Asking(Path({200}, {504})))
          [] request.verb = "SIZE" -> LoggedInFor(Asking(Path({213, 451, 500}, {451, 550})))
          [] request.verb = "CWD" -> Asking(LoggedInFor(Path({250, 550}, {550})))
          [] request.verb = "MKD" -> Asking(LoggedInFor(Path({257, 550}, {451, 550})))
          [] request.verb = "RMD" -> Asking(LoggedInFor(Path({250, 550}, {451, 550})))

Carries(verbs) == Is(verbs) /\ Answers = {}

NoTransfer == UNCHANGED <<dtp, term, pipe, peer, left, ferror, inbox, sentence, midline>>

\* Mutant: RETR and STOR that are refused keep the restart position.
OnlyAnsweredKeeping ==
    /\ ctl = "handling"
    /\ \E code \in Answers : Send(code, "reading")
    /\ offset' = IF request.verb \in {"RETR", "STOR"} THEN offset ELSE 0
    /\ request' = NoRequest
    /\ UNCHANGED <<status, listening, data_socket>>
    /\ NoTransfer

\* Whatever the command, the restart position is reset: at the top for those other
\* than RETR and STOR, in their branches for these.
OnlyAnswered ==
    /\ ctl = "handling"
    /\ \E code \in Answers : Send(code, "reading")
    /\ offset' = 0
    /\ request' = NoRequest
    /\ UNCHANGED <<status, listening, data_socket>>
    /\ NoTransfer

-----------------------------------------------------------------------------
(* handle_request: commands that change the session *)

\* QUIT, and ABOR when no transfer is running.
Quit ==
    /\ Carries({"QUIT", "ABOR"})
    /\ Send(221, "exited")
    /\ listening' = (listening /\ status # "PASV")
    /\ offset' = 0
    /\ request' = NoRequest
    /\ UNCHANGED <<status, data_socket>>
    /\ NoTransfer

LogIn ==
    /\ \/ Carries({"USER"}) /\ Send(331, "reading") /\ status' = "USER"
       \/ Carries({"PASS"}) /\ Send(230, "reading") /\ status' = "PASS"
    /\ offset' = 0
    /\ request' = NoRequest
    /\ UNCHANGED <<listening, data_socket>>
    /\ NoTransfer

\* Mutant: the socket PASV opened is not closed.
PortKeepsListening ==
    /\ Carries({"PORT"})
    /\ Send(200, "reading")
    /\ status' = "PORT"
    /\ offset' = 0
    /\ request' = NoRequest
    /\ UNCHANGED <<listening, data_socket>>
    /\ NoTransfer

Port ==
    /\ Carries({"PORT"})
    /\ Send(200, "reading")
    /\ listening' = FALSE
    /\ status' = "PORT"
    /\ offset' = 0
    /\ request' = NoRequest
    /\ UNCHANGED data_socket
    /\ NoTransfer

Pasv ==
    /\ Carries({"PASV"})
    /\ Send(227, "reading")
    /\ listening' = TRUE
    /\ status' = "PASV"
    /\ offset' = 0
    /\ request' = NoRequest
    /\ UNCHANGED data_socket
    /\ NoTransfer

\* What is left of a long in an int.
atoi(n) == ((n + IntMax + 1) % (2 * (IntMax + 1))) - (IntMax + 1)

\* The position is stored before it is checked.
Rest ==
    /\ Carries({"REST"})
    /\ offset' = atoi(Number[request.arg])
    /\ Send(IF offset' < 0 THEN 501 ELSE 350, "reading")
    /\ request' = NoRequest
    /\ UNCHANGED <<status, listening, data_socket>>
    /\ NoTransfer

\* DTP up to the data connection.
StartTransfer ==
    /\ Carries({"RETR", "STOR", "LIST"})
    /\ Send(150, "opening")
    /\ offset' = IF request.verb = "LIST" THEN 0 ELSE offset
    /\ UNCHANGED <<status, listening, data_socket, request>>
    /\ NoTransfer

-----------------------------------------------------------------------------
(* DTP: the control process *)

\* Back in handle_request and then in the loop of main.
Finished ==
    /\ offset' = 0
    /\ status' = "PASS"
    /\ request' = NoRequest

\* Nobody connects within TIMEOUT_MS_ACCEPT, or connect fails.
OpenFails ==
    /\ ctl = "opening"
    /\ Send(425, "reading")
    /\ listening' = FALSE
    /\ Finished
    /\ UNCHANGED data_socket
    /\ NoTransfer

PipeFails ==
    /\ ctl = "opening"
    /\ Send(500, "reading")
    /\ listening' = FALSE
    /\ Finished
    /\ UNCHANGED data_socket
    /\ NoTransfer

\* The data connection stays open in the control process.
ForkFails ==
    /\ ctl = "opening"
    /\ Send(500, "reading")
    /\ listening' = FALSE
    /\ data_socket' = TRUE
    /\ Finished
    /\ NoTransfer

\* The child has the connection, and a pipe of its own.
Forks ==
    /\ ctl = "opening"
    /\ ctl' = "transfer"
    /\ listening' = FALSE
    /\ dtp' = "opening"
    /\ term' = FALSE
    /\ pipe' = <<>>
    /\ peer' = "open"
    /\ left' \in 0..MaxBlocks
    /\ ferror' = FALSE
    /\ UNCHANGED <<status, offset, data_socket, request, sentence, midline, replies, link, inbox>>

\* kill(dtp_pid, SIGTERM)
Kill == term' = (dtp # "dead")

\* Mutant: 426 is sent before the kill.
HearCommandReplyFirst ==
    /\ ctl = "transfer"
    /\ \E n \in DOMAIN inbox :
           /\ Reads(n)
           /\ \E line \in FirstLine(n) :
              IF line.verb \in {"ABOR", "QUIT"}
              THEN Send(426, "aborting") /\ IF link = "broken" THEN UNCHANGED term ELSE Kill
              ELSE UNCHANGED <<term, ctl, replies, link>>
    /\ ~midline'
    /\ sentence' = NoRequest
    /\ UNCHANGED <<status, offset, listening, data_socket, request, dtp, pipe, left, ferror,
                   peer>>

\* The poll loop reads a command: anything but ABOR and QUIT is dropped.
HearCommand ==
    /\ ctl = "transfer"
    /\ \E n \in DOMAIN inbox :
           /\ Reads(n)
           /\ \E line \in FirstLine(n) :
              IF line.verb \in {"ABOR", "QUIT"}
              THEN Kill /\ Send(426, "aborting")
              ELSE UNCHANGED <<term, ctl, replies, link>>
    /\ ~midline'
    /\ sentence' = NoRequest
    /\ UNCHANGED <<status, offset, listening, data_socket, request, dtp, pipe, left, ferror,
                   peer>>

\* Mutant: break is missing.
AbortGoesOn ==
    /\ ctl = "aborting"
    /\ dtp = "dead"
    /\ dtp' = "none"
    /\ Send(226, "transfer")
    /\ UNCHANGED <<status, offset, listening, data_socket, request, sentence, midline,
                   inbox, term, pipe, peer, left, ferror>>

\* waitpid after the kill.
AbortDone ==
    /\ ctl = "aborting"
    /\ dtp = "dead"
    /\ dtp' = "none"
    /\ Send(226, "reaping")
    /\ UNCHANGED <<status, offset, listening, data_socket, request, sentence, midline,
                   inbox, term, pipe, peer, left, ferror>>

\* Mutant: the loop goes on when read returns 0.
ClientGoneUnseen ==
    /\ ctl = "transfer"
    /\ inbox = <<>>
    /\ link # "up"
    /\ UNCHANGED vars

\* The poll loop sees that the client has closed: exit_connection.  When the read
\* fails instead, the old text it then parses may be an ABOR, whose reply kills.
ClientGone ==
    /\ ctl = "transfer"
    /\ inbox = <<>>
    /\ link # "up"
    /\ Kill
    /\ ctl' \in {"exiting"} \cup (IF link = "broken" THEN {"exited"} ELSE {})
    /\ UNCHANGED <<status, offset, listening, data_socket, request, sentence, midline, replies,
                   dtp, pipe, left, ferror, netVars>>

Exit ==
    /\ ctl = "exiting"
    /\ dtp = "dead"
    /\ dtp' = "none"
    /\ ctl' = "exited"
    /\ UNCHANGED <<status, offset, listening, data_socket, request, sentence, midline, replies,
                   term, pipe, left, ferror, netVars>>

\* The child has written how the transfer went.
TakeResult ==
    /\ ctl = "transfer"
    /\ ~midline
    /\ pipe # <<>>
    /\ pipe' = Tail(pipe)
    /\ Send(CASE Head(pipe) = 0 -> 226 [] Head(pipe) = 1 -> 451 [] Head(pipe) = 2 -> 426,
            "reaping")
    /\ UNCHANGED <<status, offset, listening, data_socket, request, sentence, midline,
                   inbox, dtp, term, peer, left, ferror>>

\* Mutant: the child is not waited for.
FinishAtOnce ==
    /\ ctl = "reaping"
    /\ ctl' = "reading"
    /\ pipe' = <<>>
    /\ Finished
    /\ UNCHANGED <<listening, data_socket, sentence, midline, replies, dtp, term, left, ferror,
                   netVars>>

\* The pipe is closed, with what is left in it, and the child waited for: nobody has
\* the data connection any more.
Finish ==
    /\ ctl = "reaping"
    /\ dtp \in {"none", "dead"}
    /\ dtp' = "none"
    /\ ctl' = "reading"
    /\ pipe' = <<>>
    /\ peer' = "none"
    /\ left' = 0
    /\ ferror' = FALSE
    /\ Finished
    /\ UNCHANGED <<listening, data_socket, sentence, midline, replies, term, link, inbox>>

-----------------------------------------------------------------------------
(* DTP: the child *)

childFrame == <<ctlVars, link, inbox, term>>

Writes(code) ==
    /\ pipe' = Append(pipe, code)
    /\ dtp' = "exiting"

\* fopen, popen or fseek fails; fseek does for a position below zero.
ChildCannotOpen ==
    /\ dtp = "opening"
    /\ Writes(1)
    /\ UNCHANGED <<peer, left, ferror>>
    /\ UNCHANGED childFrame

ChildOpens ==
    /\ dtp = "opening"
    /\ offset >= 0
    /\ dtp' = "moving"
    /\ UNCHANGED <<pipe, peer, left, ferror>>
    /\ UNCHANGED childFrame

Moving(verbs) == dtp = "moving" /\ request.verb \in verbs
Sends == Moving({"RETR", "LIST"})

\* Mutant: one block too many.
SendBlockPastEnd ==
    /\ Sends
    /\ left >= 0
    /\ peer \in {"open", "fin"}
    /\ left' = left - 1
    /\ peer' \in IF peer = "fin" THEN {"fin", "broken"} ELSE {peer}
    /\ UNCHANGED <<dtp, pipe, ferror>>
    /\ UNCHANGED childFrame

\* A block is written; the answer to one written after the peer has closed is a
\* reset, which comes at once or later.
SendBlock ==
    /\ Sends
    /\ left > 0
    /\ peer \in {"open", "fin"}
    /\ left' = left - 1
    /\ peer' \in IF peer = "fin" THEN {"fin", "broken"} ELSE {peer}
    /\ UNCHANGED <<dtp, pipe, ferror>>
    /\ UNCHANGED childFrame

\* Mutant: an error of write ends the loop as the end of the file does.
SendFailsUnseen ==
    /\ Sends
    /\ left > 0
    /\ peer = "reset"
    /\ Writes(0)
    /\ UNCHANGED <<peer, left, ferror>>
    /\ UNCHANGED childFrame

\* The peer has reset the connection: write returns -1.
SendFails ==
    /\ Sends
    /\ left > 0
    /\ peer = "reset"
    /\ Writes(2)
    /\ UNCHANGED <<peer, left, ferror>>
    /\ UNCHANGED childFrame

\* The peer had closed before the reset came: SIGPIPE, whose default is to kill.
SendKills ==
    /\ Sends
    /\ left > 0
    /\ peer = "broken"
    /\ dtp' = "dead"
    /\ UNCHANGED <<pipe, peer, left, ferror>>
    /\ UNCHANGED childFrame

\* fread or fgets returns nothing: at the end of the file, or because it fails, as it
\* does on a directory; nobody asks which.
SentAll ==
    /\ Sends
    /\ Writes(0)
    /\ \/ left = 0 /\ UNCHANGED ferror
       \/ left > 0 /\ ferror' = TRUE
    /\ UNCHANGED <<peer, left>>
    /\ UNCHANGED childFrame

\* A block is read; what fwrite says of it is not looked at.
ReceiveBlock ==
    /\ Moving({"STOR"})
    /\ left > 0
    /\ peer \in {"open", "fin"}
    /\ left' = left - 1
    /\ ferror' \in {ferror, TRUE}
    /\ UNCHANGED <<dtp, pipe, peer>>
    /\ UNCHANGED childFrame

\* All that came before the peer closed is read; or the peer has reset.
ReceiveEnds ==
    /\ Moving({"STOR"})
    /\ \/ peer = "fin" /\ left = 0 /\ Writes(0)
       \/ peer = "reset" /\ Writes(2)
    /\ UNCHANGED <<peer, left, ferror>>
    /\ UNCHANGED childFrame

ChildExits ==
    /\ dtp = "exiting"
    /\ dtp' = "dead"
    /\ UNCHANGED <<pipe, peer, left, ferror>>
    /\ UNCHANGED childFrame

\* Mutant: the handler returns.
close_DTP_returns ==
    /\ term
    /\ dtp \in {"opening", "moving", "exiting"}
    /\ term' = FALSE
    /\ UNCHANGED <<ctlVars, dtp, pipe, left, ferror, netVars>>

\* close_DTP: exit without a word to the control process.
close_DTP ==
    /\ term
    /\ dtp \in {"opening", "moving", "exiting"}
    /\ dtp' = "dead"
    /\ UNCHANGED <<pipe, peer, left, ferror>>
    /\ UNCHANGED childFrame

-----------------------------------------------------------------------------
(* The client and its end of the data connection *)

HalfSent == IF inbox = <<>> THEN midline ELSE inbox[Len(inbox)] = Part

ClientSends ==
    /\ link = "up"
    /\ Len(inbox) < MaxInbox
    /\ \E segment \in Requests \cup (IF SplitLines /\ ~HalfSent THEN {Part} ELSE {}) :
           inbox' = Append(inbox, segment)
    /\ UNCHANGED <<ctlVars, dtpVars, link, peer>>

\* The client closes or resets the connection.
ClientCloses ==
    /\ link = "up"
    /\ link' \in {"fin", "broken"}
    /\ UNCHANGED <<ctlVars, dtpVars, inbox, peer>>

\* A peer that closes has sent all it will.
PeerCloses ==
    /\ peer = "open"
    /\ peer' \in {"fin", "reset"}
    /\ IF request.verb = "STOR" /\ dtp # "dead" THEN left' \in 0..left ELSE UNCHANGED left
    /\ UNCHANGED <<ctlVars, dtp, term, pipe, ferror, link, inbox>>

-----------------------------------------------------------------------------
(* The specification *)

\* main has forked the process and the greeting is sent.
Init ==
    /\ ctl = "reading"
    /\ status = "CONNECTED"
    /\ offset = 0
    /\ listening = FALSE
    /\ data_socket = FALSE
    /\ request = NoRequest
    /\ sentence = NoRequest
    /\ midline = FALSE
    /\ replies = <<220>>
    /\ link = "up"
    /\ inbox = <<>>
    /\ dtp = "none"
    /\ term = FALSE
    /\ pipe = <<>>
    /\ peer = "none"
    /\ left = 0
    /\ ferror = FALSE

handle_request ==
    OnlyAnswered \/ Quit \/ LogIn \/ Port \/ Pasv \/ Rest \/ StartTransfer

Control ==
    \/ ReadPart \/ ReadCommand \/ SessionEnds
    \/ handle_request
    \/ OpenFails \/ PipeFails \/ ForkFails \/ Forks
    \/ HearCommand \/ AbortDone \/ ClientGone \/ Exit \/ TakeResult \/ Finish

Child ==
    \/ ChildCannotOpen \/ ChildOpens
    \/ SendBlock \/ SendFails \/ SendKills \/ SentAll
    \/ ReceiveBlock \/ ReceiveEnds
    \/ ChildExits \/ close_DTP

Environment == ClientSends \/ ClientCloses \/ PeerCloses

Next == Control \/ Child \/ Environment

Spec == Init /\ [][Next]_vars

\* Both processes are scheduled, and each turn of the poll loop looks at the pipe
\* too, however much the client sends.  A child that sends to an open connection,
\* or receives from one, waits for the peer; nothing is assumed of the peer, nor of
\* the client.
FairSpec ==
    /\ Spec
    /\ WF_vars(Control)
    /\ SF_vars(TakeResult)
    /\ WF_vars(Child /\ ~(peer = "open" /\ dtp = "moving" /\ ~term /\ left > 0))

-----------------------------------------------------------------------------
(* Properties *)

TypeOK ==
    /\ ctl \in {"reading", "handling", "opening", "transfer", "aborting", "reaping",
                "exiting", "exited"}
    /\ status \in {"CONNECTED", "USER", "PASS", "PORT", "PASV"}
    /\ offset \in -(IntMax + 1)..IntMax
    /\ listening \in BOOLEAN
    /\ data_socket \in BOOLEAN
    /\ request \in Request \cup {NoRequest}
    /\ sentence \in Request \cup {NoRequest}
    /\ midline \in BOOLEAN
    /\ replies \in Seq(Nat)
    /\ link \in {"up", "fin", "broken"}
    /\ inbox \in Seq(Requests \cup {Part})
    /\ dtp \in {"none", "opening", "moving", "exiting", "dead"}
    /\ term \in BOOLEAN
    /\ pipe \in Seq({0, 1, 2})
    /\ peer \in {"none", "open", "fin", "reset", "broken"}
    /\ left \in 0..MaxBlocks
    /\ ferror \in BOOLEAN

\* Between transfers there is no child, not even one to be waited for, and no
\* result of an earlier transfer that a later one could take for its own.
NothingLeft == ctl \in {"reading", "handling", "opening"} => dtp = "none" /\ pipe = <<>>

\* A port is open for the data connection exactly in passive mode, on every way
\* through refused transfers, failed ones and changes of mode.
ListensIfPassive ==
    ctl \in {"reading", "handling", "opening"} => (listening <=> status = "PASV")

\* A REST that no RETR or STOR follows at once is forgotten, and so is one that has
\* been used (report.md, 1.2.7, the life cycle of REST).
RestLifetime ==
    [][ctl # "reading" /\ ctl' = "reading" => offset' = 0 \/ request.verb = "REST"]_vars

\* Each command that is read outside a transfer gets one reply, each transfer 150 and
\* then one more, and only a transfer aborted gets two: nothing else lets a client keep
\* count.
AnsweredOnce ==
    ctl = "reading" =>
        \/ Len(replies) = 1 /\ replies # <<150>>
        \/ Len(replies) = 2 /\ replies[1] = 150
        \/ replies = <<150, 426, 226>>

\* "Transfer complete" says that all that the peer sent has been received, or all of the
\* file sent unless reading it has failed: no end of a connection, of a child or of a
\* transfer before is taken for the end of the file.
CompleteIsAll ==
    ctl = "reaping" /\ replies = <<150, 226>> /\ (ferror => request.verb = "STOR") => left = 0

\* However the control process comes to its end, SIGPIPE included, the child has
\* ended, is about to, or has a SIGTERM (report.md, 1.2.5 and 1.2.7).
NoOrphan == ctl = "exited" => dtp \in {"none", "exiting", "dead"} \/ term

\* What the properties rest on: how far a command has been answered follows from where
\* the control process is;
RepliesFollow ==
    /\ ctl = "handling" => request \in Request /\ replies = <<>>
    /\ ctl \in {"opening", "transfer"} => replies = <<150>>
    /\ ctl = "aborting" => replies = <<150, 426>>
    /\ ctl = "reaping" =>
           \/ Len(replies) = 2 /\ replies[1] = 150
           \/ replies = <<150, 426, 226>>

\* the child writes one result, when it has stopped moving data;
ResultFits ==
    /\ pipe # <<>> =>
           Len(pipe) = 1 /\ (pipe[1] = 0 /\ (ferror => request.verb = "STOR") => left = 0)
    /\ pipe # <<>> \/ ctl = "reaping" => dtp \in {"none", "exiting", "dead"}

\* and the listening socket is closed once the data connection has been opened.
SocketClosed == ctl \in {"transfer", "aborting", "reaping"} => ~listening

\* The inductive invariant.
IInv ==
    /\ TypeOK
    /\ NothingLeft
    /\ ListensIfPassive
    /\ AnsweredOnce
    /\ CompleteIsAll
    /\ NoOrphan
    /\ RepliesFollow
    /\ ResultFits
    /\ SocketClosed

\* A client that has gone takes the session and its child with it (report.md, 1.2.5).
GoneEndsAll == (link # "up") ~> (ctl = "exited" /\ dtp \in {"none", "dead"})

\* ABOR and QUIT get the session back from a transfer, whatever the child is doing
\* (report.md, 1.1).
AborEnds == (ctl = "aborting") ~> (ctl \in {"reading", "exited"})

\* Once the peer has closed the data connection the result comes through the pipe
\* (server.c:262-265) and the transfer ends.
TransferEnds ==
    (ctl = "transfer" /\ peer \in {"fin", "reset", "broken"}) ~> (ctl # "transfer")
=============================================================================
