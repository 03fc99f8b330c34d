---------------------------- MODULE FtpTransfer ----------------------------
(***************************************************************************)
(* A client and its session of the server, composed: FtpClient and         *)
(* FtpServer joined by the control connection, the data connection and the *)
(* listener that accepts the one and forks the other (server.c, main).     *)
(*                                                                         *)
(* Each step is a step of one of them and, for what it sends, receives or  *)
(* closes, of the environment of the other: EnvironmentsMet says so.       *)
(* Clients and servers take whole lines, which TCP delivers in order.      *)
(***************************************************************************)
EXTENDS Integers, Sequences, SequencesExt

CONSTANTS
    Inputs,             \* what the user may type
    Requests,           \* what the server may get
    Number,             \* the number a parameter is
    IntMax,             \* the largest int of the server
    Codes,              \* what the client may get
    MaxInterrupts,      \* bound: ^C
    MaxInbox,           \* bound: commands the server has not read
    MaxAnswers,         \* bound: replies the client has not read
    MaxBlocks,          \* bound: blocks of a file
    Window              \* bound: blocks sent on the data connection and not read

SplitLines == FALSE

VARIABLES
    \* FtpServer
    ctl, status, offset, listening, data_socket, request, sentence, midline, replies,
    dtp, term, pipe, peer, left, ferror, link,
    \* FtpClient
    main, command, macro, script, mode, position, accepting,
    child, code, sigterm, verdict, interrupts, answers, host,
    \* both
    inbox,
    listener,           \* the listening process: "accepting", "forked" or "failed"
    conn,               \* data connection: "none", "queued", "up", or the client's end
                        \* is "closed", or "reset"
    flight              \* blocks sent on it and not read

Server == INSTANCE FtpServer
Client == INSTANCE FtpClient

ASSUME TransferAssumption ==
    /\ Inputs \subseteq Client!Typed
    /\ Requests \subseteq Server!Request
    /\ Number \in [Server!Numeral -> Int]
    /\ IntMax \in Nat
    /\ Codes \subseteq Nat
    /\ MaxInterrupts \in Nat
    /\ MaxInbox \in Nat
    /\ MaxAnswers \in Nat
    /\ MaxBlocks \in Nat
    /\ Window \in 1..MaxBlocks

\* The commands that `get` and `put` issue, and that of ^C.
Issued ==
    {Client!Request(verb) : verb \in {"SIZE", "RETR", "STOR"}}
        \cup {[verb |-> "REST", arg |-> size] : size \in {"good", "wide"}}
        \cup {[verb |-> "PASV", arg |-> "none"]}
Abor == [verb |-> "ABOR", arg |-> "none"]

\* The server may get whatever the client sends, and the client whatever the server
\* answers; the bounds on what is unread are no bounds.
ASSUME AlphabetAssumption ==
    /\ \A r \in Inputs :
          /\ r.verb \in Client!Simple \cup Client!Transfers \cup {"PASV"} => r \in Requests
          /\ r.verb = "PORT" => [r EXCEPT !.arg = "good"] \in Requests
    /\ Issued \cup {Abor} \subseteq Requests
    /\ {150, 200, 213, 215, 220, 221, 226, 227, 230, 250, 257, 331, 350, 425, 426, 451,
        500, 501, 502, 504, 530, 550} \subseteq Codes
    /\ MaxInbox >= 2
    /\ MaxAnswers >= 2

ctlVars == <<ctl, status, offset, listening, data_socket, request, sentence, midline, replies>>
dtpVars == <<dtp, term, pipe, left, ferror>>
serverVars == <<ctlVars, dtpVars, link, inbox, peer>>
clientVars == <<main, command, macro, script, mode, position, accepting,
                child, code, sigterm, verdict, interrupts>>
vars == <<ctl, status, offset, listening, data_socket, request, sentence, midline, replies,
          dtp, term, pipe, peer, left, ferror, link, main, command, macro, script, mode,
          position, accepting, child, code, sigterm, verdict, interrupts, answers, host, inbox,
          listener, conn, flight>>

-----------------------------------------------------------------------------
(* The listener *)

\* accept and fork: the session greets.
Accepts ==
    /\ listener = "accepting"
    /\ listener' = "forked"
    /\ answers' = Append(answers, 220)
    /\ UNCHANGED <<serverVars, clientVars, host, conn, flight>>

\* fork fails: the client is told, and its connection left open.
CannotFork ==
    /\ listener = "accepting"
    /\ listener' = "failed"
    /\ answers' = Append(answers, 500)
    /\ UNCHANGED <<serverVars, clientVars, host, conn, flight>>

-----------------------------------------------------------------------------
(* The data connection *)

Retrieves == command.verb \in {"RETR", "LIST"}

Waiting == {"born", "armed", "heldArmed", "opening", "heldOpening"}

\* Somebody has the socket on which the client waits for the server.
ClientListens ==
    accepting /\ (main \notin Client!Gone \/ child \in Waiting)

ServerListens == listening /\ ctl # "exited"

\* Some process of the server has the connection, or will have it from its backlog.
ServerHolds ==
    \/ dtp \in {"opening", "moving"}
    \/ data_socket /\ ctl # "exited"
    \/ conn = "queued" /\ mode = "PASV" /\ ServerListens

\* The server's connect, or its accept.
Connects ==
    IF status = "PORT"
    THEN ClientListens /\ conn' = "queued"
    ELSE conn # "none" /\ conn' = IF conn = "queued" THEN "up" ELSE conn

\* What the client's end has become is heard by the server: a reset when there were
\* blocks it had not read, or when it was never accepted.
CloseArrives ==
    /\ conn \in {"closed", "reset"}
    /\ Server!PeerCloses
    /\ IF conn = "reset" \/ (flight > 0 /\ request.verb # "STOR")
       THEN peer' = "reset" /\ UNCHANGED left
       ELSE peer' = "fin" /\ left' = IF request.verb = "STOR" THEN flight ELSE left
    /\ conn' = "none"
    /\ UNCHANGED <<clientVars, answers, host, listener, flight>>

-----------------------------------------------------------------------------
(* Steps of the server *)

\* The reply of a step reaches the client.
Answers ==
    IF Len(replies') > Len(replies) /\ link = "up"
    THEN Append(answers, Last(replies')) ELSE answers

\* Mutant: the listener keeps its copy of the connection it has forked a session for.
HostKept == host

\* The end of the control process closes the control connection.
HostAfter ==
    IF ctl' = "exited" /\ ctl # "exited"
    THEN IF inbox' = <<>> THEN "fin" ELSE "reset"
    ELSE host

Opening ==
    \/ /\ Server!OpenFails
       /\ IF status = "PORT" THEN ~ClientListens ELSE conn = "none"
       /\ UNCHANGED <<conn, flight>>
    \/ /\ Server!PipeFails \/ Server!ForkFails
       /\ Connects
       /\ UNCHANGED flight
    \/ /\ Server!Forks
       /\ Connects
       /\ request.verb = "STOR" => left' = MaxBlocks
       /\ UNCHANGED flight

ControlStep ==
    /\ listener = "forked"
    /\ \/ Opening
       \/ /\ \/ Server!ReadCommand \/ Server!SessionEnds \/ Server!handle_request
             \/ Server!HearCommand \/ Server!AbortDone \/ Server!ClientGone \/ Server!Exit
             \/ Server!TakeResult \/ Server!Finish
          /\ UNCHANGED <<conn, flight>>
    /\ answers' = Answers
    /\ host' = HostAfter
    /\ UNCHANGED <<clientVars, listener>>

\* A block in flight, unless the client has closed its end.
DtpSends ==
    /\ Server!SendBlock
    /\ peer = "open" => flight < Window
    /\ flight' = IF conn \in {"queued", "up"} THEN flight + 1 ELSE flight

DtpReceives ==
    /\ Server!ReceiveBlock
    /\ flight > 0
    /\ flight' = flight - 1

DtpStep ==
    /\ \/ DtpSends \/ DtpReceives
       \/ /\ \/ Server!ChildCannotOpen \/ Server!ChildOpens
             \/ Server!SendFails \/ Server!SendKills \/ Server!SentAll \/ Server!ReceiveEnds
             \/ Server!ChildExits \/ Server!close_DTP
          /\ UNCHANGED flight
    /\ UNCHANGED <<clientVars, answers, host, listener, conn>>

-----------------------------------------------------------------------------
(* Steps of the client *)

\* The end of the main process closes the control connection.
LinkAfter ==
    IF main' \in Client!Gone /\ main \notin Client!Gone
    THEN IF answers' = <<>> THEN "fin" ELSE "broken"
    ELSE link

serverFrame == <<ctlVars, dtpVars, peer, listener>>

\* A connection in the backlog of a socket that is closed is reset.
Backlog ==
    IF conn = "queued" /\ mode = "PORT" /\ ClientListens /\ ~ClientListens' THEN "reset" ELSE conn

MainEffects ==
    /\ link' = LinkAfter
    /\ IF main' = "starting" /\ main # "starting"
       THEN conn' = "none" /\ flight' = 0
       ELSE conn' = Backlog /\ UNCHANGED flight
    /\ UNCHANGED serverFrame

MainStep == Client!Main /\ MainEffects
UserStep == Client!User /\ MainEffects

\* The child connects to the server, or accepts its connection.
ChildConnects ==
    /\ Client!ChildOpens
    /\ IF mode = "PASV" THEN ServerListens /\ conn' = "queued" ELSE conn = "queued" /\ conn' = "up"
    /\ UNCHANGED flight

\* It gets no connection, or has one and cannot open the file.
ChildCannotConnect ==
    /\ Client!ChildCannotOpen
    /\ \/ (mode = "PASV" => ~ServerListens) /\ conn = "none" /\ conn' = Backlog
       \/ mode = "PASV" /\ ServerListens /\ conn' = "closed"
       \/ mode = "PORT" /\ conn = "queued" /\ conn' = "closed"
    /\ UNCHANGED flight

ChildReceives ==
    /\ Client!At("moving") /\ Retrieves
    /\ flight > 0
    /\ flight' = flight - 1
    /\ UNCHANGED <<clientVars, inbox, answers, host, conn>>

\* No more than the server expects, which stands for the size of the file.
ChildSends ==
    /\ Client!At("moving") /\ command.verb = "STOR"
    /\ ServerHolds
    /\ flight < Window
    /\ conn = "up" => flight < left
    /\ flight' = flight + 1
    /\ UNCHANGED <<clientVars, inbox, answers, host, conn>>

\* A RETR ends with the data; a STOR with the file, and badly when the server closes.
ChildDone ==
    /\ \/ Client!ChildEnds /\ (Retrieves => flight = 0 /\ ~ServerHolds)
       \/ Client!ChildFails /\ ~Retrieves /\ ~ServerHolds
    /\ conn' = "closed"
    /\ UNCHANGED flight

\* handle_abor_DTP; a child that ends closes its connection.
ChildHeld ==
    /\ Client!handle_abor_DTP \/ Client!HeldEnds
    /\ conn' = IF child = "heldMoving" /\ child' = "dead" THEN "closed" ELSE Backlog
    /\ UNCHANGED flight

ChildStep ==
    /\ \/ (Client!ChildStarts \/ Client!ClosesPipe) /\ UNCHANGED <<conn, flight>>
       \/ ChildConnects \/ ChildCannotConnect \/ ChildReceives \/ ChildSends \/ ChildDone
       \/ ChildHeld
    /\ UNCHANGED <<serverFrame, link>>

-----------------------------------------------------------------------------
(* The specification *)

\* The client has connected; the listener has not seen it.
Init ==
    /\ Server!Init
    /\ Client!Init
    /\ listener = "accepting"
    /\ conn = "none"
    /\ flight = 0

System ==
    \/ Accepts \/ CannotFork
    \/ ControlStep \/ DtpStep
    \/ MainStep \/ ChildStep
    \/ CloseArrives

Next == System \/ UserStep

Spec == Init /\ [][Next]_vars

\* As long as a process can go on, or the network deliver, one of them does; the user
\* types what and when he likes.
FairSpec == Spec /\ WF_vars(System)

-----------------------------------------------------------------------------
(* Properties *)

TypeOK ==
    /\ Server!TypeOK
    /\ Client!TypeOK
    /\ listener \in {"accepting", "forked", "failed"}
    /\ conn \in {"none", "queued", "up", "closed", "reset"}
    /\ flight \in 0..MaxBlocks

\* Each component is all that the other assumes of its environment.
EnvironmentsMet == Server!Spec /\ Client!Spec

\* The two never lose step: when the user may type again every command has been read
\* and every reply taken, after refused, failed and aborted transfers too.  A client
\* a reply behind would take each reply for that of the next command.
InStep ==
    main = "prompt" /\ host = "up" /\ listener = "forked" => inbox = <<>> /\ answers = <<>>

\* Who connects and who accepts is never in dispute (report.md, 2.1: the replies tell
\* the client which mode is agreed).
ModesAgree == ctl = "opening" /\ main \notin Client!Gone => status = mode

\* A client that skips the beginning of the file has a server that was told to, in so far
\* as the position is an int: the one that was refused, replaced or forgotten on one side is
\* on the other, too.
NeverAhead ==
    dtp = "moving" /\ child = "moving" /\ command.verb \in {"RETR", "STOR"}
           /\ position \in 0..IntMax
        => position \in {0, offset}

\* What the properties rest on: either end is there as long as the other hears of it,
\* lines are whole, and the client has a child only while it waits for it.
Ends ==
    /\ host = "up" <=> ctl # "exited"
    /\ link = "up" <=> main \notin Client!Gone
    /\ ctl = "exited" /\ link = "up" => dtp = "none"
    /\ sentence = Server!NoRequest /\ ~midline
    /\ inbox \in Seq(Requests)
    /\ script \in Seq(Issued)
    /\ main \in {"greeting", "prompt", "waiting", "starting", "result"} => child = "none"

\* Until the session is forked the server has done nothing; without it, it never does.
Unforked ==
    /\ listener # "forked" => ctl = "reading" /\ status = "CONNECTED" /\ dtp = "none"
    /\ listener = "accepting" =>
           main \in {"greeting", "exited", "killed"} /\ inbox = <<>> /\ answers = <<>>
    /\ listener = "failed" =>
           \/ main = "greeting" /\ inbox = <<>> /\ Len(answers) = 1
           \/ main = "prompt" /\ inbox = <<>> /\ answers = <<>>
           \/ main \in {"waiting", "starting"} /\ answers = <<>>
           \/ main \in Client!Gone

Connected == listener = "forked" /\ host = "up" /\ main \notin Client!Gone

Rests == {"reading", "reaping"}
Works == {"opening", "transfer"}
Line == IF command.verb = "PORT" THEN [command EXCEPT !.arg = "good"] ELSE command

\* Where the server is, with which commands and how many replies on the way.
Stands(states, unread, replied) ==
    ctl \in states /\ inbox = unread /\ Len(answers) = replied

Hears(line, unread, replied) == request = line /\ Stands({"handling"}, unread, replied)

Asked == Stands(Rests, <<Line>>, 0) \/ Hears(Line, <<>>, 0)

\* The course of the dialogue: how far the server can be from where the client is.
Dialogue ==
    Connected =>
        /\ main = "greeting" => Stands({"reading"}, <<>>, 1)
        /\ main = "prompt" => Stands(Rests, <<>>, 0)
        /\ main = "waiting" =>
              /\ command.verb \in Client!Simple \cup {"PORT", "PASV"}
              /\ Asked \/ Stands({"reading"}, <<>>, 1)
        /\ main = "starting" =>
              /\ command.verb \in Client!Transfers
              /\ \/ Asked
                 \/ Stands({"reading"}, <<>>, 1) /\ Head(answers) \div 100 # 1
                 \/ Head(answers) = 150 /\ (Stands(Works, <<>>, 1) \/ Stands(Rests, <<>>, 2))
        /\ main = "forked" => Stands(Works, <<>>, 0) \/ Stands(Rests, <<>>, 1)
        /\ main \in {"transfer", "result"} =>
              \/ Stands(Works \cup {"aborting"}, <<>>, 0)
              \/ Stands(Rests, <<>>, 1)
              \/ Stands(Rests, <<Abor>>, 0)
              \/ Hears(Abor, <<>>, 0)
        /\ main \in {"abor", "exiting"} =>
              \/ Stands(Works \cup {"aborting"}, <<Abor>>, 0)
              \/ Stands({"aborting"}, <<>>, 1)
              \/ Stands(Rests, <<>>, 2)
              \/ Stands(Rests, <<Abor>>, 1)
              \/ Stands(Rests, <<Abor, Abor>>, 0)
              \/ Hears(Abor, <<>>, 1)
              \/ Hears(Abor, <<>>, 0)
              \/ Hears(Abor, <<Abor>>, 0)

\* A mode is agreed as soon as the reply is on its way.
ModeFollows ==
    /\ Connected =>
        IF /\ main = "waiting" /\ answers # <<>> /\ Head(answers) \div 100 = 2
           /\ command.verb \in {"PORT", "PASV"}
        THEN status = command.verb
        ELSE status \in {"PORT", "PASV"} => status = mode
    /\ ctl = "opening" => status \in {"PORT", "PASV"}

\* So is a position, which lasts on both sides until the transfer; the server has what is
\* left of it in an int.
PositionFollows ==
    /\ dtp = "moving" => offset >= 0
    /\ main \in {"greeting", "waiting"} \/ (main = "starting" /\ command.verb = "LIST")
           => position = 0
    /\ Connected /\ main = "waiting" /\ answers # <<>> /\ Head(answers) \div 100 = 3
           /\ command.verb = "REST" /\ command.arg # "none"
           => offset = Server!atoi(Number[command.arg])
    /\ Connected /\ position # 0 /\ main = "prompt" =>
           offset = Server!atoi(position) /\ ctl = "reading"
    /\ Connected /\ position # 0 /\ main = "starting" /\ Asked =>
           offset = Server!atoi(position) /\ ctl # "reaping"
    /\ /\ position # 0
       /\ child # "dead" \/ main \notin Client!Gone
       /\ ctl = "opening" \/ dtp \in {"opening", "moving"}
       => offset = Server!atoi(position)
    /\ main \in Client!Gone =>
           position = 0 \/ child = "dead" \/ ctl = "exited" \/ (inbox = <<>> /\ ctl # "handling")

\* A data connection belongs to one transfer.
OneConnection ==
    /\ conn \in {"queued", "up"} => peer \in {"none", "open"}
    /\ peer # "none" => ctl \in {"transfer", "aborting", "reaping", "exiting", "exited"}
    /\ ctl = "exiting" => ~listening

\* The inductive invariant.
IInv ==
    /\ TypeOK
    /\ Server!IInv
    /\ Ends
    /\ Unforked
    /\ Dialogue
    /\ ModeFollows
    /\ PositionFollows
    /\ OneConnection

\* What CompleteArrived rests on besides: how many replies are unread, when the server has
\* gone, too;
Counted ==
    /\ main = "prompt" => answers = <<>>
    /\ main \in {"greeting", "waiting", "forked", "transfer", "result"} => Len(answers) \in 0..1
    /\ main \in {"starting", "abor"} => Len(answers) \in 0..2
    /\ main = "starting" /\ Len(answers) = 2 => Head(answers) = 150

\* that the server carries out what the client has asked for;
Carrying == {"forked", "transfer", "abor", "result"}

SameCommand ==
    /\ main \in Carrying \cup {"starting"} => command.verb \in Client!Transfers
    /\ main \in {"forked", "transfer", "abor"} => child # "none"
    /\ Connected /\ (main \in Carrying \/ (main = "starting" /\ answers # <<>>))
           /\ ctl \in Works \cup {"aborting", "reaping"} => request = command

\* that what the client closes it has no child for, and the server ends a STOR with
\* what was on the connection then;
Ended == child \in {"none", "dead"}

ClosedEnds ==
    /\ main = "starting" =>
           /\ conn = "none" \/ (conn = "queued" /\ mode = "PORT")
           /\ Connected /\ answers = <<>> => conn = "none"
           /\ command.verb = "STOR" => flight = 0
           /\ Connected /\ ctl = "transfer" => peer = "open"
    /\ main \notin Client!Gone =>
           /\ conn \in {"closed", "reset"} => Ended
           /\ ctl = "transfer" /\ peer \notin {"none", "open"} => Ended
           /\ ctl = "transfer" /\ peer = "fin" /\ request.verb = "STOR" => flight = left
           /\ ctl = "transfer" /\ pipe # <<>> /\ Head(pipe) = 0 /\ request.verb = "STOR" =>
                  peer = "fin"
           /\ ctl = "exited" => peer = "none"

\* that a child which has received everything leaves nothing, and the server does not
\* connect to it once more;
Received ==
    main \in Carrying /\ Ended /\ code = 0 /\ Retrieves
        => flight = 0 /\ conn \notin {"queued", "up"}

OpenedOnce ==
    /\ mode = "PORT" /\ main \in Carrying \cup {"starting"}
    /\ \/ conn \in {"queued", "up"}
       \/ child \in {"moving", "heldMoving"}
       \/ main \in Carrying /\ Ended /\ code = 0
    => ctl # "opening"

\* that the child which waits for the verdict on an abort is killed by 426, so that the
\* 226 behind it is not that of a complete transfer;
Aborting ==
    \/ ctl = "aborting"
    \/ replies = <<150, 426, 226>> /\ answers # <<>> /\ Last(answers) = 226

Waits == child \in Client!Held \/ (sigterm /\ child \in {"armed", "opening", "moving"})

Condemned ==
    \/ Waits /\ verdict # <<>> /\ Head(verdict) = 0
    \/ Ended /\ code # 0

Unheard == answers # <<>> /\ Head(answers) = 426

AbortKills ==
    /\ main \notin Client!Gone /\ child = "none" => verdict = <<>>
    /\ main \in {"starting", "forked"} => ~Aborting
    /\ main \in {"forked", "transfer"} /\ ctl \in Works => verdict = <<>>
    /\ main \in {"transfer", "result"} /\ Aborting => Condemned
    /\ main = "abor" /\ Aborting /\ ~Unheard => Condemned
    /\ main = "abor" /\ (ctl \in Works \/ (Aborting /\ Unheard)) =>
           verdict = <<>> /\ (child = "dead" \/ Waits)

\* and what 226 says otherwise.
CompleteFollows ==
    /\ main = "starting" /\ Len(answers) = 2 /\ answers[2] = 226 =>
           (~ferror => left = 0) /\ command.verb # "STOR"
    /\ main = "abor" /\ Len(answers) = 2 /\ answers[2] = 226 => Aborting
    /\ main \in {"forked", "transfer", "result"} /\ answers = <<226>> /\ ~Aborting =>
           /\ ~ferror => left = 0
           /\ command.verb = "STOR" => flight = 0 /\ Ended

Arrival ==
    /\ Counted
    /\ SameCommand
    /\ ClosedEnds
    /\ Received
    /\ OpenedOnce
    /\ AbortKills
    /\ CompleteFollows

\* When the child has ended well and the reply is 226, all that was sent has come off the
\* data connection, and all of the file was sent or received unless the server's disk failed.
CompleteArrived ==
    [][main = "result" /\ main' = "prompt" /\ code = 0 /\ answers # <<>> /\ Head(answers) = 226
        => flight = 0 /\ (~ferror => left = 0)]_vars

\* A child held between its signal() and its close() has the writing end of the pipe open
\* itself (client.c:339-347): without a verdict it waits for ever.
Stuck == child = "heldArmed" /\ verdict = <<>>

\* The end of the client, however it comes, ends the session and the children of both, but
\* for the one way a child of the client gets stuck.
GoneEndsAll ==
    (main \in Client!Gone /\ listener = "forked")
        ~> (ctl = "exited" /\ dtp \in {"none", "dead"} /\ (child \in {"none", "dead"} \/ Stuck))

\* Each command brings the user back, or the client down, but for two ways to hang:
\* the data socket the server forgets when fork fails, and the exit with a child that
\* waits for a verdict (FtpClient!ExitEnds).
CommandEnds ==
    main \notin {"prompt", "exited", "killed"}
        ~> \/ main \in {"prompt", "exited", "killed"}
           \/ data_socket
           \/ main = "exiting" /\ child \in Client!Held
=============================================================================
