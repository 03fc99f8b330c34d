----------------------------- MODULE FtpClient -----------------------------
(***************************************************************************)
(* The FTP client (hw1/client/client.c): the process that reads commands   *)
(* from the keyboard, sends them and waits for the replies, the child it   *)
(* forks for each data transfer (DTP), the pipe and the signals between    *)
(* them, and ^C.  The server, at the other end of the control connection,  *)
(* says what it pleases; what comes on the data connection is left open.   *)
(*                                                                         *)
(* A command is a record as in FtpServer.  `get` and `put` are commands    *)
(* that issue others, `other` is one the client does not know.             *)
(***************************************************************************)
EXTENDS Integers, Sequences

CONSTANTS
    Inputs,             \* what the user may type
    Number,             \* the number a parameter is
    Codes,              \* reply codes of the server
    MaxInterrupts,      \* bound: ^C during a transfer
    MaxInbox,           \* bound: commands the server has not read
    MaxAnswers          \* bound: replies the client has not read

Simple == {"QUIT", "ABOR", "USER", "PASS", "SYST", "TYPE", "PWD", "CWD", "MKD", "RMD", "SIZE",
           "REST"}
Transfers == {"RETR", "STOR", "LIST"}
Macros == {"get", "put"}

Typed == [verb : Simple \cup Transfers \cup Macros \cup {"PORT", "PASV", "other"},
          arg : {"none", "good", "zero", "wide", "bad"}]

VARIABLES
    main,               \* what the main process is doing
    command,            \* the command it is working on
    macro,              \* "get" or "put" when that issues the commands, else "none"
    script,             \* the commands it has still to issue
    mode,               \* enum user_status: "CONNECTED", "PORT" or "PASV"
    position,           \* offset
    accepting,          \* data_listen_socket # -1
    child,              \* what the child is doing
    code,               \* its exit code: 0, 1 or 2, or Signal
    sigterm,            \* SIGTERM is pending for it
    verdict,            \* numbers in the pipe
    interrupts,         \* ^C counted during this transfer
    inbox,              \* commands the server has not read
    answers,            \* replies the client has not read
    host                \* the server's end: "up", "fin", "reset" or "broken"

mainVars == <<main, command, macro, script, mode, position, accepting>>
childVars == <<child, code, sigterm, verdict>>
clientVars == <<mainVars, childVars, interrupts>>
wireVars == <<inbox, answers, host>>
vars == <<main, command, macro, script, mode, position, accepting,
          child, code, sigterm, verdict, interrupts, inbox, answers, host>>

NoCommand == [verb |-> "none"]
Request(verb) == [verb |-> verb, arg |-> "good"]

Signal == -1
Gone == {"exited", "killed"}
Held == {"heldArmed", "heldOpening", "heldMoving"}

-----------------------------------------------------------------------------
(* send_msg and get_msg *)

\* To a server that has closed, a first message is lost and breaks the connection,
\* at once or later; after a reset write fails once.
SendMsg(message, next) ==
    /\ main' = next
    /\ inbox' = IF host = "up" THEN Append(inbox, message) ELSE inbox
    /\ host' \in CASE host = "up" -> {"up"}
                   [] host = "fin" -> {"fin", "broken"}
                   [] host = "reset" -> {"broken"}

\* A reply; or read fails, and the buffer of the caller, which nobody initialised, is
\* taken for one.
GetMsg(Then(_)) ==
    \/ /\ answers # <<>>
       /\ Then(Head(answers) \div 100)
       /\ answers' = Tail(answers)
       /\ UNCHANGED <<inbox, host>>
    \/ /\ answers = <<>> /\ host = "reset"
       /\ \E class \in 0..9 : Then(class)
       /\ host' = "broken"
       /\ UNCHANGED <<inbox, answers>>

\* Nothing is left of a process that ends without a child.
Ends(how) ==
    /\ main' = how
    /\ command' = NoCommand
    /\ macro' = "none"
    /\ script' = <<>>
    /\ mode' = "CONNECTED"
    /\ position' = 0
    /\ accepting' = FALSE
    /\ child' = "none"
    /\ code' = 0
    /\ sigterm' = FALSE
    /\ verdict' = <<>>
    /\ interrupts' = 0

\* TIMEOUT_MS_READ has passed or the server has closed: exit_connection.  A child gets
\* SIGTERM and is waited for (Exits).
GetMsgFails ==
    /\ main \in {"greeting", "waiting", "starting", "abor", "result"}
    /\ answers = <<>> /\ host # "reset"
    /\ IF child \in {"none", "dead"}
       THEN Ends("exited")
       ELSE /\ main' = "exiting"
            /\ sigterm' = TRUE
            /\ UNCHANGED <<command, macro, script, mode, position, accepting,
                           child, code, verdict, interrupts>>
    /\ UNCHANGED wireVars

Exits ==
    /\ main = "exiting"
    /\ child = "dead"
    /\ Ends("exited")
    /\ UNCHANGED wireVars

-----------------------------------------------------------------------------
(* handle_request: what is sent *)

Greeting ==
    /\ main = "greeting"
    /\ GetMsg(LAMBDA class : main' = "prompt")
    /\ UNCHANGED <<command, macro, script, mode, position, accepting,
                   childVars, interrupts>>

\* Mutant: the position survives other commands.
PositionKept(request) == position

\* The position lasts until the next command that is neither RETR nor STOR.
PositionFor(request) == IF request.verb \in {"RETR", "STOR"} THEN position ELSE 0

\* The request is the user's next command, or the next one of `get` or `put`.
Takes(request) ==
    /\ main = "prompt"
    /\ IF script = <<>>
       THEN macro' = "none" /\ UNCHANGED script
       ELSE script' = Tail(script) /\ UNCHANGED macro
    /\ position' = PositionFor(request)

Ask(request) ==
    /\ request.verb \in Simple \cup Transfers
    /\ Takes(request) /\ host # "broken"
    /\ command' = request
    /\ SendMsg(request, IF request.verb \in Transfers THEN "starting" ELSE "waiting")
    /\ UNCHANGED <<mode, accepting, childVars, interrupts, answers>>

\* Without a parameter, ports are tried until one is free.
AskPort(request) ==
    /\ request.verb = "PORT"
    /\ Takes(request) /\ host # "broken"
    /\ accepting' = TRUE
    /\ command' = request
    /\ SendMsg([request EXCEPT !.arg = "good"], "waiting")
    /\ UNCHANGED <<mode, childVars, interrupts, answers>>

\* Mutant: the mode changes before the port is known to be free.
PortInUseSwitches(request) ==
    /\ request.verb = "PORT" /\ request.arg # "none"
    /\ Takes(request)
    /\ accepting' = FALSE
    /\ mode' = "PORT"
    /\ UNCHANGED <<main, command, childVars, interrupts, wireVars>>

\* The socket that listened is closed first; nothing is sent.
PortInUse(request) ==
    /\ request.verb = "PORT" /\ request.arg # "none"
    /\ Takes(request)
    /\ accepting' = FALSE
    /\ UNCHANGED <<main, command, mode, childVars, interrupts, wireVars>>

AskPasv(request) ==
    /\ request.verb = "PASV"
    /\ Takes(request) /\ host # "broken"
    /\ accepting' = FALSE
    /\ command' = request
    /\ SendMsg(request, "waiting")
    /\ UNCHANGED <<mode, childVars, interrupts, answers>>

\* A command the client does not know; `get` and `put` without two parameters, or
\* with a local path that fopen does not open: nothing is sent.
Rejects(request) ==
    /\ request.verb \in Macros \cup {"other"}
    /\ Takes(request)
    /\ UNCHANGED <<main, command, mode, accepting, childVars, interrupts, wireVars>>

\* The commands of `get` and `put` after SIZE, for a file of that size: the local one,
\* which `get` opens to append, or the remote one.
Sizes == {"zero", "good", "wide"}

Transfer(verb, size) ==
    <<[verb |-> "PASV", arg |-> "none"]>>
    \o (IF size = "zero" THEN <<>> ELSE <<[verb |-> "REST", arg |-> size]>>)
    \o <<Request(IF verb = "put" THEN "STOR" ELSE "RETR")>>

\* `get` asks for a restart when the local file is not empty; `put` knows whether
\* it does when SIZE is answered, and gets that part of its script then.
Macro(request) ==
    /\ main = "prompt" /\ script = <<>>
    /\ request.verb \in Macros
    /\ macro' = request.verb
    /\ position' = 0
    /\ \E size \in IF request.verb = "put" THEN {"good"} ELSE Sizes :
           script' = <<Request("SIZE")>> \o Transfer(request.verb, size)
    /\ UNCHANGED <<main, command, mode, accepting, childVars, interrupts, wireVars>>

\* A command is sent on a broken connection: SIGPIPE, whose default is to kill.
SendKills ==
    /\ main = "prompt"
    /\ host = "broken"
    /\ Ends("killed")
    /\ UNCHANGED wireVars

Input ==
    \/ SendKills
    \/ \E request \in IF script = <<>> THEN Inputs ELSE {Head(script)} :
           \/ Ask(request) \/ AskPort(request) \/ PortInUse(request) \/ AskPasv(request)
           \/ Rejects(request) \/ Macro(request)

-----------------------------------------------------------------------------
(* handle_request: what the reply does *)

\* A long long holds the number.
Restart(class) == IF class = 3 /\ command.arg # "none" THEN Number[command.arg] ELSE 0

\* `put` asks for a restart when SIZE says that the remote file has a size, and stops
\* when it finds before STOR that the local file has gone.
ScriptAfter(class) ==
    CASE macro = "put" /\ command.verb = "SIZE" ->
            {Transfer("put", size) : size \in IF class = 2 THEN Sizes ELSE {"zero"}}
      [] macro = "put" /\ script = <<Request("STOR")>> -> {script, <<>>}
      [] OTHER -> {script}

Replied ==
    /\ main = "waiting" /\ command.verb \notin {"QUIT", "ABOR"}
    /\ GetMsg(LAMBDA class :
           /\ mode' = IF command.verb \in {"PORT", "PASV"} /\ class = 2
                      THEN command.verb ELSE mode
           /\ accepting' = (accepting /\ (command.verb = "PORT" => class = 2))
           /\ position' = IF command.verb = "REST" THEN Restart(class) ELSE position
           /\ script' \in ScriptAfter(class))
    /\ main' = "prompt"
    /\ command' = NoCommand
    /\ UNCHANGED <<macro, childVars, interrupts>>

\* The loop of main ends.
Quits ==
    /\ main = "waiting" /\ command.verb \in {"QUIT", "ABOR"}
    /\ GetMsg(LAMBDA class : Ends("exited"))

\* Back from DTP, or from a refusal.
Done ==
    /\ main' = "prompt"
    /\ command' = NoCommand
    /\ position' = 0
    /\ code' = 0
    /\ interrupts' = 0

\* DTP, when the code begins with 1; pipe or fork may fail.
Started ==
    /\ main = "starting"
    /\ GetMsg(LAMBDA class :
           \/ class = 1 /\ main' = "forked" /\ child' = "born"
              /\ UNCHANGED <<command, position, code, interrupts>>
           \/ class = 1 /\ main' = "result" /\ code' = 1
              /\ UNCHANGED <<command, position, child, interrupts>>
           \/ class # 1 /\ Done /\ UNCHANGED child)
    /\ UNCHANGED <<macro, script, mode, accepting, sigterm, verdict>>

\* From here on SIGINT is handled.
Watches ==
    /\ main = "forked"
    /\ main' = "transfer"
    /\ UNCHANGED <<command, macro, script, mode, position, accepting,
                   childVars, interrupts, wireVars>>

\* Mutant: the child is not waited for.
NotWaited ==
    /\ main = "transfer"
    /\ main' = "result"
    /\ UNCHANGED <<command, macro, script, mode, position, accepting,
                   childVars, interrupts, wireVars>>

\* waitpid; the pipe is closed and SIGINT has its default again.
Waited ==
    /\ main = "transfer"
    /\ child = "dead"
    /\ main' = "result"
    /\ child' = "none"
    /\ sigterm' = FALSE
    /\ verdict' = <<>>
    /\ UNCHANGED <<command, macro, script, mode, position, accepting,
                   code, interrupts, wireVars>>

\* Mutant: the second reply to an abort is not waited for.
ResultUnread ==
    /\ main = "result"
    /\ IF code = 2 THEN Done /\ UNCHANGED wireVars ELSE GetMsg(LAMBDA class : Done)
    /\ UNCHANGED <<macro, script, mode, accepting, child, sigterm, verdict>>

\* The reply is printed, whatever it says.
Result ==
    /\ main = "result"
    /\ GetMsg(LAMBDA class : Done)
    /\ UNCHANGED <<macro, script, mode, accepting, child, sigterm, verdict>>

-----------------------------------------------------------------------------
(* ^C, which goes to both processes *)

Dies(how) == child' = "dead" /\ code' = how

Interrupted == interrupts < MaxInterrupts /\ interrupts' = interrupts + 1

\* Outside of waitpid it kills; the child goes on unless it has not ignored it yet.
InterruptKills ==
    \/ /\ main \in {"greeting", "prompt", "waiting", "starting", "result"}
       /\ Ends("killed")
       /\ UNCHANGED wireVars
    \/ /\ main = "forked"
       /\ main' = "killed"
       /\ IF child = "born" THEN Dies(Signal) ELSE UNCHANGED <<child, code>>
       /\ UNCHANGED <<command, macro, script, mode, position, accepting,
                      sigterm, verdict, interrupts, wireVars>>

\* handle_abor_main: a child is there until it is waited for.
Interrupt ==
    /\ Interrupted
    /\ main = "transfer"
    /\ IF child = "born"
       THEN Dies(Signal) /\ UNCHANGED sigterm
       ELSE sigterm' = (child # "dead") /\ UNCHANGED <<child, code>>
    /\ IF host = "broken"
       THEN main' = "killed" /\ UNCHANGED <<inbox, host>>
       ELSE SendMsg([verb |-> "ABOR", arg |-> "none"], "abor")
    /\ UNCHANGED <<command, macro, script, mode, position, accepting, verdict, answers>>

\* The child that had not ignored SIGINT is waited for before the handler looks.
InterruptLate ==
    /\ Interrupted
    /\ main = "transfer"
    /\ child = "born"
    /\ Dies(Signal)
    /\ UNCHANGED <<mainVars, sigterm, verdict, wireVars>>

\* Mutant: nothing is written when the abort is refused.
AborRefusedUnsaid ==
    /\ main = "abor"
    /\ GetMsg(LAMBDA class :
           IF child = "dead"
           THEN main' = "killed" /\ UNCHANGED verdict
           ELSE main' = "transfer" /\ verdict' = IF class = 4 THEN Append(verdict, 0) ELSE verdict)
    /\ UNCHANGED <<command, macro, script, mode, position, accepting,
                   child, code, sigterm, interrupts>>

\* The verdict, back in waitpid; on a pipe nobody reads SIGPIPE kills.
AborAnswered ==
    /\ main = "abor"
    /\ GetMsg(LAMBDA class :
           IF child = "dead"
           THEN main' = "killed" /\ UNCHANGED verdict
           ELSE main' = "transfer" /\ verdict' = Append(verdict, IF class = 4 THEN 0 ELSE 1))
    /\ UNCHANGED <<command, macro, script, mode, position, accepting,
                   child, code, sigterm, interrupts>>

-----------------------------------------------------------------------------
(* DTP: the child *)

childFrame == <<mainVars, interrupts, wireVars>>

\* A signal is handled before the process goes on.
At(state) == child = state /\ ~sigterm

\* SIGINT is ignored and SIGTERM handled.
ChildStarts ==
    /\ At("born")
    /\ child' = "armed"
    /\ UNCHANGED <<code, sigterm, verdict, childFrame>>

\* The child closes the writing end of the pipe, which it has had open until here.
ClosesPipe ==
    /\ At("armed")
    /\ child' = "opening"
    /\ UNCHANGED <<code, sigterm, verdict, childFrame>>

\* Nobody connects within TIMEOUT_MS_ACCEPT, connect, fopen or fseek fails; fseek does for
\* a position below zero.
ChildCannotOpen ==
    /\ At("opening")
    /\ Dies(1)
    /\ UNCHANGED <<sigterm, verdict, childFrame>>

ChildOpens ==
    /\ At("opening")
    /\ position >= 0
    /\ child' = "moving"
    /\ UNCHANGED <<code, sigterm, verdict, childFrame>>

\* The end of the file or of the data.
ChildEnds ==
    /\ At("moving")
    /\ Dies(0)
    /\ UNCHANGED <<sigterm, verdict, childFrame>>

\* read or write fails, or SIGPIPE kills.
ChildFails ==
    /\ At("moving")
    /\ \E how \in {1, Signal} : Dies(how)
    /\ UNCHANGED <<sigterm, verdict, childFrame>>

\* handle_abor_DTP up to the read; SIGTERM is blocked until it returns, so that
\* close_DTP, which it installs for another one, is not called.
handle_abor_DTP ==
    /\ sigterm
    /\ child \in {"armed", "opening", "moving"}
    /\ sigterm' = FALSE
    /\ child' = CASE child = "armed" -> "heldArmed"
                  [] child = "opening" -> "heldOpening"
                  [] child = "moving" -> "heldMoving"
    /\ UNCHANGED <<code, verdict, childFrame>>

\* Back to where it was; poll does not go on, and accept_with_timeout fails.
Resumes ==
    \/ child = "heldArmed" /\ child' = "armed" /\ UNCHANGED code
    \/ child = "heldMoving" /\ child' = "moving" /\ UNCHANGED code
    \/ child = "heldOpening" /\ child' = "opening" /\ UNCHANGED code
    \/ child = "heldOpening" /\ mode = "PORT" /\ Dies(1)

\* Mutant: the child never closes the writing end of the pipe.
HeldPipeOpen ==
    /\ child \in Held
    /\ verdict # <<>> /\ verdict' = Tail(verdict)
    /\ IF Head(verdict) = 0 THEN Dies(2) ELSE Resumes
    /\ UNCHANGED <<sigterm, childFrame>>

\* The rest of it.  When the main process has gone, read leaves ret as it was; it does
\* not return while the child has the writing end open.
HeldEnds ==
    /\ child \in Held
    /\ \/ verdict # <<>> /\ verdict' = Tail(verdict) /\ IF Head(verdict) = 0 THEN Dies(2) ELSE Resumes
       \/ /\ verdict = <<>> /\ main \in Gone /\ child # "heldArmed"
          /\ UNCHANGED verdict
          /\ Dies(2) \/ Resumes
    /\ UNCHANGED <<sigterm, childFrame>>

-----------------------------------------------------------------------------
(* The server *)

\* It reads commands, replies and may close, with or without a command unread.
Host ==
    /\ host = "up"
    /\ \E n \in 0..Len(inbox) : inbox' = SubSeq(inbox, n + 1, Len(inbox))
    /\ answers' \in {answers} \cup
           (IF Len(answers) < MaxAnswers /\ Len(inbox') < MaxInbox
            THEN {Append(answers, c) : c \in Codes} ELSE {})
    /\ host' \in {"up", "fin", "reset"}
    /\ UNCHANGED clientVars

-----------------------------------------------------------------------------
(* The specification *)

\* main has connected.
Init ==
    /\ main = "greeting"
    /\ command = NoCommand
    /\ macro = "none"
    /\ script = <<>>
    /\ mode = "CONNECTED"
    /\ position = 0
    /\ accepting = FALSE
    /\ child = "none"
    /\ code = 0
    /\ sigterm = FALSE
    /\ verdict = <<>>
    /\ interrupts = 0
    /\ inbox = <<>>
    /\ answers = <<>>
    /\ host = "up"

\* What the main process does of itself.
Main ==
    \/ GetMsgFails \/ Exits \/ Greeting \/ Replied \/ Quits \/ Started \/ Watches \/ Waited
    \/ Result \/ AborAnswered

User == Input \/ InterruptKills \/ Interrupt \/ InterruptLate

Child ==
    \/ ChildStarts \/ ClosesPipe \/ ChildCannotOpen \/ ChildOpens \/ ChildEnds \/ ChildFails
    \/ handle_abor_DTP \/ HeldEnds

Next == Main \/ User \/ Child \/ Host

Spec == Init /\ [][Next]_vars

\* Both processes are scheduled; a child that moves data waits for the server.
FairSpec ==
    /\ Spec
    /\ WF_vars(Main)
    /\ WF_vars(Child /\ child # "moving")
    /\ WF_vars(handle_abor_DTP)

-----------------------------------------------------------------------------
(* Properties *)

TypeOK ==
    /\ main \in {"greeting", "prompt", "waiting", "starting", "forked", "transfer", "abor",
                 "result", "exiting", "exited", "killed"}
    /\ command \in Typed \cup {NoCommand}
    /\ macro \in Macros \cup {"none"}
    /\ script \in Seq(Typed)
    /\ mode \in {"CONNECTED", "PORT", "PASV"}
    /\ position \in Int
    /\ accepting \in BOOLEAN
    /\ child \in {"none", "born", "armed", "opening", "moving", "dead"} \cup Held
    /\ code \in {0, 1, 2, Signal}
    /\ sigterm \in BOOLEAN
    /\ verdict \in Seq({0, 1})
    /\ interrupts \in 0..MaxInterrupts
    /\ inbox \in Seq(Typed)
    /\ answers \in Seq(Nat)
    /\ host \in {"up", "fin", "reset", "broken"}

\* exit_connection ends: whoever is its child "is sure to exit on SIGTERM"
\* (client.c:31-33), and a client whose server does not answer closes (report.md, 2.2.5).
ExitEnds == (main = "exiting") ~> (main = "exited")
=============================================================================
