---------------------------- MODULE MCFtpServer ----------------------------
(***************************************************************************)
(* Sessions of clients that send some of the commands in any order.        *)
(***************************************************************************)
EXTENDS FtpServer

\* With -2..1 for int, "wide" is what 2^31 is: a number that atoi makes a negative one.
Numbers == [good |-> 1, zero |-> 0, wide |-> 2, bad |-> -1]

Command(verb, arg) == [verb |-> verb, arg |-> arg]

Login == {Command("USER", "good"), Command("PASS", "none")}
Modes == {Command("PORT", "good"), Command("PASV", "none")}
Retrieve == Command("RETR", "good")
Store == Command("STOR", "good")
Abort == Command("ABOR", "none")

\* Every command, accepted and refused; the refused ones behave alike, so that one
\* argument of each kind is enough.
AllCommands ==
    Login \cup Modes \cup {Retrieve, Store, Abort}
        \cup {Command(verb, arg) : verb \in {"TYPE", "SIZE", "CWD", "MKD", "RMD"},
                                   arg \in {"good", "bad"}}
        \cup {Command(verb, "none") : verb \in {"QUIT", "SYST", "PWD", "LIST", "REST", "other"}}
        \cup {Command("RETR", "bad"), Command("LIST", "bad"), Command("USER", "bad")}
        \cup {Command("REST", arg) : arg \in Numeral}

\* What it takes to get into a transfer, and out of it.
LiveCommands == Login \cup {Command("PASV", "none"), Retrieve, Store, Abort}

HangupCommands == Login \cup {Command("PASV", "none"), Retrieve, Abort}
=============================================================================
