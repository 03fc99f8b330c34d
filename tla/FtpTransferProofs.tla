-------------------------- MODULE FtpTransferProofs --------------------------
(***************************************************************************)
(* Proofs about a client and its session of the server, composed: for      *)
(* whatever the user types and however often he presses ^C, every size of  *)
(* files and every window of the data connection.                          *)
(***************************************************************************)
EXTENDS FtpTransfer, SequenceTheorems, TLAPS

\* The two components with what is proved of them.
ServerProofs == INSTANCE FtpServerProofs
ClientProofs == INSTANCE FtpClientProofs

-----------------------------------------------------------------------------
(* The components, and what is known of each *)

\* FtpServerProofs speaks of the same server,
LEMMA SameServer ==
    /\ Server!Init <=> ServerProofs!Init
    /\ [Server!Next]_Server!vars <=> [ServerProofs!Next]_ServerProofs!vars
    /\ Server!IInv <=> ServerProofs!IInv
<1>1. Server!Next <=> ServerProofs!Next
  BY
   DEF Server!Control, ServerProofs!Control, Server!Child, ServerProofs!Child,
       Server!Environment, ServerProofs!Environment, Server!ReadPart,
       ServerProofs!ReadPart, Server!ReadCommand, ServerProofs!ReadCommand,
       Server!SessionEnds, ServerProofs!SessionEnds, Server!handle_request,
       ServerProofs!handle_request, Server!OnlyAnswered, ServerProofs!OnlyAnswered,
       Server!Quit, ServerProofs!Quit, Server!LogIn, ServerProofs!LogIn, Server!Port,
       ServerProofs!Port, Server!Pasv, ServerProofs!Pasv, Server!Rest,
       ServerProofs!Rest, Server!StartTransfer, ServerProofs!StartTransfer,
       Server!OpenFails, ServerProofs!OpenFails, Server!PipeFails,
       ServerProofs!PipeFails, Server!ForkFails, ServerProofs!ForkFails, Server!Forks,
       ServerProofs!Forks, Server!HearCommand, ServerProofs!HearCommand,
       Server!AbortDone, ServerProofs!AbortDone, Server!ClientGone,
       ServerProofs!ClientGone, Server!Exit, ServerProofs!Exit, Server!TakeResult,
       ServerProofs!TakeResult, Server!Finish, ServerProofs!Finish,
       Server!ChildCannotOpen, ServerProofs!ChildCannotOpen, Server!ChildOpens,
       ServerProofs!ChildOpens, Server!SendBlock, ServerProofs!SendBlock,
       Server!SendFails, ServerProofs!SendFails, Server!SendKills,
       ServerProofs!SendKills, Server!SentAll, ServerProofs!SentAll,
       Server!ReceiveBlock, ServerProofs!ReceiveBlock, Server!ReceiveEnds,
       ServerProofs!ReceiveEnds, Server!ChildExits, ServerProofs!ChildExits,
       Server!close_DTP, ServerProofs!close_DTP, Server!ClientSends,
       ServerProofs!ClientSends, Server!ClientCloses, ServerProofs!ClientCloses,
       Server!PeerCloses, ServerProofs!PeerCloses, Server!vars, ServerProofs!vars,
       Server!ctlVars, ServerProofs!ctlVars, Server!dtpVars, ServerProofs!dtpVars,
       Server!netVars, ServerProofs!netVars, Server!Part, ServerProofs!Part,
       Server!NoRequest, ServerProofs!NoRequest, Server!Send, ServerProofs!Send,
       Server!Followed, ServerProofs!Followed,
       Server!ParsedArgs, ServerProofs!ParsedArgs, Server!FirstLine, ServerProofs!FirstLine,
       Server!Numeral, ServerProofs!Numeral, Server!Reads, ServerProofs!Reads,
       Server!atoi, ServerProofs!atoi,
       Server!LoggedIn, ServerProofs!LoggedIn, Server!HasMode, ServerProofs!HasMode,
       Server!Is, ServerProofs!Is, Server!Without, ServerProofs!Without,
       Server!Unhandled, ServerProofs!Unhandled, Server!Answers, ServerProofs!Answers,
       Server!Carries, ServerProofs!Carries, Server!NoTransfer, ServerProofs!NoTransfer,
       Server!Finished, ServerProofs!Finished, Server!Kill, ServerProofs!Kill,
       Server!childFrame, ServerProofs!childFrame, Server!Writes, ServerProofs!Writes,
       Server!Moving, ServerProofs!Moving, Server!Sends, ServerProofs!Sends,
       Server!HalfSent, ServerProofs!HalfSent, Server!Next, ServerProofs!Next
<1>2. Server!IInv <=> ServerProofs!IInv
  BY
   DEF Server!IInv, ServerProofs!IInv, Server!TypeOK, ServerProofs!TypeOK,
       Server!NothingLeft, ServerProofs!NothingLeft, Server!ListensIfPassive,
       ServerProofs!ListensIfPassive, Server!AnsweredOnce, ServerProofs!AnsweredOnce,
       Server!CompleteIsAll, ServerProofs!CompleteIsAll, Server!NoOrphan,
       ServerProofs!NoOrphan, Server!RepliesFollow, ServerProofs!RepliesFollow,
       Server!ResultFits, ServerProofs!ResultFits, Server!SocketClosed,
       ServerProofs!SocketClosed, Server!NoRequest, ServerProofs!NoRequest, Server!Part,
       ServerProofs!Part, Server!Request, ServerProofs!Request, Server!Verb,
       ServerProofs!Verb, Server!Numeral, ServerProofs!Numeral
<1>3. QED
  BY <1>1, <1>2 DEF Server!Init, ServerProofs!Init, Server!NoRequest, ServerProofs!NoRequest,
     Server!vars, ServerProofs!vars

\* and FtpClientProofs of the same client.
LEMMA SameClient ==
    /\ Client!Init <=> ClientProofs!Init
    /\ [Client!Next]_Client!vars <=> [ClientProofs!Next]_ClientProofs!vars
    /\ Client!TypeOK <=> ClientProofs!TypeOK
<1>1. Client!Next <=> ClientProofs!Next
  BY
   DEF Client!Main, ClientProofs!Main, Client!User, ClientProofs!User, Client!Child,
       ClientProofs!Child, Client!Host, ClientProofs!Host, Client!Next,
       ClientProofs!Next, Client!vars, ClientProofs!vars, Client!mainVars,
       ClientProofs!mainVars, Client!childVars, ClientProofs!childVars,
       Client!clientVars, ClientProofs!clientVars, Client!wireVars,
       ClientProofs!wireVars, Client!Simple, ClientProofs!Simple, Client!Transfers,
       ClientProofs!Transfers, Client!Macros, ClientProofs!Macros, Client!Typed,
       ClientProofs!Typed, Client!NoCommand, ClientProofs!NoCommand, Client!Request,
       ClientProofs!Request, Client!Signal, ClientProofs!Signal, Client!Gone,
       ClientProofs!Gone, Client!Held, ClientProofs!Held, Client!SendMsg,
       ClientProofs!SendMsg, Client!GetMsg, ClientProofs!GetMsg, Client!Ends,
       ClientProofs!Ends, Client!GetMsgFails, ClientProofs!GetMsgFails, Client!Exits,
       ClientProofs!Exits, Client!Greeting, ClientProofs!Greeting, Client!PositionFor,
       ClientProofs!PositionFor, Client!Takes, ClientProofs!Takes, Client!Ask,
       ClientProofs!Ask, Client!AskPort, ClientProofs!AskPort, Client!PortInUse,
       ClientProofs!PortInUse, Client!AskPasv, ClientProofs!AskPasv, Client!Rejects,
       ClientProofs!Rejects, Client!Sizes, ClientProofs!Sizes, Client!Transfer, ClientProofs!Transfer, Client!Macro,
       ClientProofs!Macro, Client!SendKills, ClientProofs!SendKills, Client!Input,
       ClientProofs!Input, Client!Restart, ClientProofs!Restart, Client!ScriptAfter,
       ClientProofs!ScriptAfter, Client!Replied, ClientProofs!Replied, Client!Quits,
       ClientProofs!Quits, Client!Done, ClientProofs!Done, Client!Started,
       ClientProofs!Started, Client!Watches, ClientProofs!Watches, Client!Waited,
       ClientProofs!Waited, Client!Result, ClientProofs!Result, Client!Dies,
       ClientProofs!Dies, Client!Interrupted, ClientProofs!Interrupted,
       Client!InterruptKills, ClientProofs!InterruptKills, Client!Interrupt,
       ClientProofs!Interrupt, Client!InterruptLate, ClientProofs!InterruptLate,
       Client!AborAnswered, ClientProofs!AborAnswered, Client!childFrame,
       ClientProofs!childFrame, Client!At, ClientProofs!At, Client!ChildStarts,
       ClientProofs!ChildStarts, Client!ClosesPipe, ClientProofs!ClosesPipe,
       Client!ChildCannotOpen, ClientProofs!ChildCannotOpen,
       Client!ChildOpens, ClientProofs!ChildOpens, Client!ChildEnds,
       ClientProofs!ChildEnds, Client!ChildFails, ClientProofs!ChildFails,
       Client!handle_abor_DTP, ClientProofs!handle_abor_DTP, Client!Resumes,
       ClientProofs!Resumes, Client!HeldEnds, ClientProofs!HeldEnds
<1>2. Client!TypeOK <=> ClientProofs!TypeOK
  BY
   DEF Client!TypeOK, ClientProofs!TypeOK, Client!Typed, ClientProofs!Typed,
       Client!Macros, ClientProofs!Macros, Client!Simple, ClientProofs!Simple,
       Client!Transfers, ClientProofs!Transfers, Client!NoCommand,
       ClientProofs!NoCommand, Client!Held, ClientProofs!Held, Client!Signal,
       ClientProofs!Signal
<1>3. QED
  BY <1>1, <1>2 DEF Client!Init, ClientProofs!Init, Client!NoCommand, ClientProofs!NoCommand,
     Client!vars, ClientProofs!vars

\* The invariant of the server,
LEMMA ServerInvariant ==
    /\ Server!Init => Server!IInv
    /\ Server!IInv /\ [Server!Next]_Server!vars => Server!IInv'
<1>1. /\ ServerProofs!Init => ServerProofs!IInv
      /\ ServerProofs!IInv /\ [ServerProofs!Next]_ServerProofs!vars => ServerProofs!IInv'
  BY ServerProofs!InitIInv, ServerProofs!NextIInv, TransferAssumption
     DEF SplitLines, Server!Request, ServerProofs!Request, Server!Verb, ServerProofs!Verb,
         Server!Numeral, ServerProofs!Numeral
<1>2. (Server!IInv <=> ServerProofs!IInv)'
  BY SameServer, PTL
<1>3. QED
  BY <1>1, <1>2, SameServer

\* and the types of the client.
LEMMA ClientInvariant ==
    /\ Client!Init => Client!TypeOK
    /\ Client!TypeOK /\ [Client!Next]_Client!vars => Client!TypeOK'
<1>1. ClientProofs!ClientConstants
  BY TransferAssumption
     DEF ClientProofs!ClientConstants, Client!Typed, ClientProofs!Typed,
         Client!Simple, ClientProofs!Simple, Client!Transfers, ClientProofs!Transfers,
         Client!Macros, ClientProofs!Macros, Server!Numeral
<1>2. /\ ClientProofs!Init => ClientProofs!TypeOK
      /\ ClientProofs!TypeOK /\ [ClientProofs!Next]_ClientProofs!vars => ClientProofs!TypeOK'
  BY <1>1, ClientProofs!InitTypes, ClientProofs!NextTypes
<1>3. (Client!TypeOK <=> ClientProofs!TypeOK)'
  BY SameClient, PTL
<1>4. QED
  BY <1>2, <1>3, SameClient

-----------------------------------------------------------------------------
(* Commands and replies on their way *)

\* Where the two ends are typed.
LEMMA Kinds ==
    ASSUME TypeOK
    PROVE  /\ answers \in Seq(Nat) /\ replies \in Seq(Nat)
           /\ Len(answers) \in Nat
           /\ link \in {"up", "fin", "broken"}
           /\ host \in {"up", "fin", "reset", "broken"}
           /\ main \in {"greeting", "prompt", "waiting", "starting", "forked", "transfer",
                        "abor", "result", "exiting", "exited", "killed"}
           /\ ctl \in {"reading", "handling", "opening", "transfer", "aborting", "reaping",
                       "exiting", "exited"}
           /\ dtp \in {"none", "opening", "moving", "exiting", "dead"}
<1>1. /\ answers \in Seq(Nat) /\ replies \in Seq(Nat)
      /\ link \in {"up", "fin", "broken"}
      /\ host \in {"up", "fin", "reset", "broken"}
      /\ main \in {"greeting", "prompt", "waiting", "starting", "forked", "transfer",
                   "abor", "result", "exiting", "exited", "killed"}
      /\ ctl \in {"reading", "handling", "opening", "transfer", "aborting", "reaping",
                  "exiting", "exited"}
      /\ dtp \in {"none", "opening", "moving", "exiting", "dead"}
  BY DEF TypeOK, Server!TypeOK, Client!TypeOK
<1>2. Len(answers) \in Nat
  BY <1>1, LenProperties
<1>3. QED
  BY <1>1, <1>2

\* One more reply.
LEMMA OneMore ==
    ASSUME TypeOK, NEW c \in Nat
    PROVE  /\ Append(answers, c) \in Seq(Nat)
           /\ Append(answers, c) # <<>>
           /\ Len(Append(answers, c)) = Len(answers) + 1
           /\ answers = <<>> => Head(Append(answers, c)) = c
           /\ answers # <<>> => Head(Append(answers, c)) = Head(answers)
<1>1. answers \in Seq(Nat) /\ Len(answers) \in Nat
  BY Kinds
<1>2. PICK s : s = Append(answers, c)
  OBVIOUS
<1>3. /\ s \in Seq(Nat) /\ s # <<>> /\ Len(s) = Len(answers) + 1
      /\ \A i \in 1..Len(answers) : s[i] = answers[i]
      /\ s[Len(answers) + 1] = c
  BY <1>1, <1>2, AppendProperties
<1>4. Head(s) = s[1] /\ (answers # <<>> => Head(answers) = answers[1])
  BY <1>1, <1>3, HeadTailProperties
<1>5. /\ answers = <<>> => Len(answers) = 0
      /\ answers # <<>> => Len(answers) \in Nat \ {0}
  BY <1>1, EmptySeq
<1>6. QED
  BY <1>1, <1>2, <1>3, <1>4, <1>5

\* One less.
LEMMA OneLess ==
    ASSUME TypeOK
    PROVE  /\ answers = <<>> <=> Len(answers) = 0
           /\ answers # <<>> =>
                 /\ Head(answers) \in Nat
                 /\ Tail(answers) \in Seq(Nat)
                 /\ Len(Tail(answers)) = Len(answers) - 1
<1>1. answers \in Seq(Nat) /\ Len(answers) \in Nat
  BY Kinds
<1>2. /\ answers = <<>> => Len(answers) = 0
      /\ answers # <<>> => Len(answers) \in Nat \ {0}
  BY <1>1, EmptySeq
<1>3. answers # <<>> => /\ Head(answers) \in Nat /\ Tail(answers) \in Seq(Nat)
                        /\ Len(Tail(answers)) = Len(answers) - 1
  BY <1>1, HeadTailProperties
<1>4. QED
  BY <1>1, <1>2, <1>3

\* The reply of a step reaches a client that is there.
Says(c, next) ==
    \/ /\ link = "up" /\ link' = "up"
       /\ ctl' = next
       /\ answers' = Append(answers, c)
    \/ /\ link # "up" /\ link' # "up"
       /\ ctl' \in {next, "exited"}
       /\ UNCHANGED answers

\* A reply that a step of the server sends is the last of those the client has not read.
LEMMA ReplyArrives ==
    ASSUME TypeOK, NEW c \in Nat, NEW next, Server!Send(c, next), answers' = Answers
    PROVE  Says(c, next)
<1>1. replies \in Seq(Nat) /\ link \in {"up", "fin", "broken"}
  BY Kinds
<1>2. CASE link = "broken"
  BY <1>2 DEF Server!Send, Answers, Says
<1>3. CASE link # "broken"
  <2>1. /\ ctl' = next /\ replies' = Append(replies, c)
        /\ link' \in IF link = "fin" THEN {"fin", "broken"} ELSE {link}
    BY <1>3 DEF Server!Send
  <2>2. /\ Len(replies') = Len(replies) + 1 /\ replies'[Len(replies) + 1] = c
        /\ Len(replies) \in Nat
    BY <1>1, <2>1, AppendProperties, LenProperties
  <2>3. Last(replies') = c /\ Len(replies') > Len(replies)
    BY <2>2 DEF Last
  <2>4. QED
    BY <1>1, <1>3, <2>1, <2>3 DEF Answers, Says
<1>4. QED
  BY <1>2, <1>3

\* A step without a reply.
LEMMA NoReply ==
    ASSUME TypeOK, replies' = replies \/ replies' = <<>>, answers' = Answers
    PROVE  answers' = answers
<1>1. replies \in Seq(Nat)
  BY Kinds
<1>2. Len(replies) \in Nat /\ Len(<<>>) = 0
  BY <1>1, LenProperties
<1>3. ~(Len(replies') > Len(replies))
  BY <1>2
<1>4. QED
  BY <1>3 DEF Answers

\* While the server works on a command no more than one other is on its way, and no
\* more than one reply.
LEMMA BusyBounds ==
    ASSUME IInv, listener = "forked", link = "up",
           ctl \in {"handling", "opening", "transfer", "aborting"}
    PROVE  Len(answers) \in 0..1 /\ Len(inbox) \in 0..1 /\ Connected
<1>1. Connected
  BY DEF IInv, Ends, Connected
<1>2. Len(<<>>) = 0 /\ Len(<<Line>>) = 1 /\ Len(<<Abor>>) = 1
  OBVIOUS
<1>3. main \in {"greeting", "prompt", "waiting", "starting", "forked", "transfer",
                "abor", "result", "exiting", "exited", "killed"}
  BY Kinds DEF IInv
<1>4. QED
  BY <1>1, <1>2, <1>3 DEF IInv, Dialogue, Stands, Hears, Asked, Rests, Works, Connected,
     Client!Gone

\* What the server reads of what is on its way.
LEMMA Read ==
    ASSUME IInv, NEW n \in DOMAIN inbox
    PROVE  /\ inbox # <<>>
           /\ inbox[1] \in Requests
           /\ SubSeq(inbox, n + 1, Len(inbox)) \in Seq(Requests)
           /\ Len(inbox) = 1 => SubSeq(inbox, n + 1, Len(inbox)) = <<>>
           /\ Len(inbox) = 2 => SubSeq(inbox, n + 1, Len(inbox)) \in {<<>>, <<inbox[2]>>}
<1>1. inbox \in Seq(Requests)
  BY DEF IInv, Ends
<1>2. n \in 1..Len(inbox) /\ Len(inbox) \in Nat
  BY <1>1, LenProperties
<1>3. inbox # <<>> /\ \A i \in 1..Len(inbox) : inbox[i] \in Requests
  BY <1>1, <1>2, ElementOfSeq
<1>4. n + 1 \in Int /\ Len(inbox) \in Int /\ \A i \in (n + 1)..Len(inbox) : inbox[i] \in Requests
  BY <1>2, <1>3
<1>5. SubSeq(inbox, n + 1, Len(inbox)) \in Seq(Requests)
  BY <1>4, SubSeqProperties
<1>6. n = Len(inbox) => SubSeq(inbox, n + 1, Len(inbox)) = <<>>
  BY <1>2, SubSeqEmpty
<1>7. Len(inbox) = 2 /\ n = 1 => SubSeq(inbox, n + 1, Len(inbox)) = <<inbox[2]>>
  <2> SUFFICES ASSUME Len(inbox) = 2, n = 1
               PROVE  SubSeq(inbox, 2, 2) = <<inbox[2]>>
    OBVIOUS
  <2>1. SubSeq(inbox, 2, 2) = <<inbox[2]>> \o SubSeq(inbox, 3, 2)
    BY <1>1, SubSeqRecursiveFirst
  <2>2. SubSeq(inbox, 3, 2) = <<>>
    BY SubSeqEmpty
  <2>3. <<inbox[2]>> \in Seq(Requests)
    BY <1>3
  <2>4. QED
    BY <2>1, <2>2, <2>3, ConcatEmptySeq
<1>8. Len(inbox) = 1 => n = Len(inbox)
  BY <1>2
<1>9. Len(inbox) = 2 => n = 1 \/ n = Len(inbox)
  BY <1>2
<1>10. inbox[1] \in Requests
  BY <1>2, <1>3
<1>11. QED
  BY <1>3, <1>5, <1>6, <1>7, <1>8, <1>9, <1>10

\* Lines come whole, so that the line of a read is the first one there is, whatever comes
\* behind an ABOR.
LEMMA WholeLine ==
    ASSUME IInv, NEW n \in DOMAIN inbox, Server!Reads(n)
    PROVE  /\ inbox' = SubSeq(inbox, n + 1, Len(inbox)) /\ ~midline'
           /\ Len(inbox) = 1 \/ inbox[1] = Abor =>
                 \A line \in Server!FirstLine(n) : line = inbox[1]
<1>1. inbox \in Seq(Requests) /\ sentence = Server!NoRequest
  BY DEF IInv, Ends
<1>2. n \in 1..Len(inbox) /\ Len(inbox) \in Nat /\ \A i \in 1..Len(inbox) : inbox[i] \in Requests
  BY <1>1, LenProperties, ElementOfSeq
<1>3. \A r \in Requests : r # Server!Part
  BY TransferAssumption DEF Server!Request, Server!Part, Server!Verb
<1>4. \A i \in 1..n : inbox[i] # Server!Part
  BY <1>2, <1>3
<1>5. ASSUME NEW line \in Server!FirstLine(n), Len(inbox) = 1 \/ inbox[1] = Abor
      PROVE  line = inbox[1]
  <2>1. ~(sentence # Server!NoRequest \/ \A i \in 1..n : inbox[i] = Server!Part)
    BY <1>1, <1>2, <1>4
  <2>2. PICK i \in 1..n :
            /\ \A j \in 1..(i - 1) : inbox[j] = Server!Part
            /\ line \in IF i = n THEN {inbox[i]} ELSE Server!Followed(inbox[i])
    BY <1>5, <2>1 DEF Server!FirstLine
  <2>3. i = 1
    BY <1>2, <1>4, <2>2
  <2>4. i # n => line \in Server!Followed(Abor)
    BY <1>2, <1>5, <2>2, <2>3
  <2>5. Server!Followed(Abor) = {Abor}
    <3>1. Abor.verb = "ABOR" /\ Abor.arg = "none" /\ [Abor EXCEPT !.arg = "none"] = Abor
      BY DEF Abor
    <3>2. Server!ParsedArgs(Abor) = {"none"}
      <4>1. Abor.verb \in {"QUIT", "ABOR", "PASS", "SYST", "PWD", "PASV", "other"}
        BY <3>1
      <4>2. Server!ParsedArgs(Abor) = {Abor.arg}
        BY <4>1 DEF Server!ParsedArgs
      <4>3. QED
        BY <3>1, <4>2
    <3>3. Server!Followed(Abor) = {[Abor EXCEPT !.arg = arg] : arg \in {"none"}}
      BY <3>2, Zenon DEF Server!Followed
    <3>4. QED
      BY <3>1, <3>3
  <2>6. CASE i = n
    BY <2>2, <2>3, <2>6
  <2>7. CASE i # n
    BY <1>2, <1>5, <2>3, <2>4, <2>5, <2>7
  <2>8. QED
    BY <2>6, <2>7
<1>6. inbox' = SubSeq(inbox, n + 1, Len(inbox)) /\ midline' = (inbox[n] = Server!Part)
  BY DEF Server!Reads
<1>7. inbox[n] # Server!Part
  BY <1>2, <1>4
<1>8. ~midline'
  BY <1>6, <1>7, Zenon
<1>9. QED
  BY <1>5, <1>6, <1>8

-----------------------------------------------------------------------------
(* The control process *)

\* The parts of the invariant that are not those of the components.
Kept == Ends /\ Unforked /\ Dialogue /\ ModeFollows /\ PositionFollows /\ OneConnection
Wires ==
    /\ listener \in {"accepting", "forked", "failed"}
    /\ conn \in {"none", "queued", "up", "closed", "reset"}
    /\ flight \in 0..MaxBlocks

\* What a step of the control process leaves alone.
LEMMA ControlFrame ==
    ASSUME IInv, ControlStep
    PROVE  /\ listener = "forked" /\ listener' = "forked"
           /\ answers' = Answers
           /\ ctl # "exited" /\ host = "up"
           /\ host' = "up" <=> ctl' # "exited"
           /\ UNCHANGED <<main, command, macro, script, mode, position, accepting,
                          child, code, sigterm, verdict, interrupts, flight>>
           /\ ctl # "opening" => UNCHANGED conn
           /\ TypeOK
           /\ link = "up" <=> Connected
           /\ link = "up" <=> main \notin Client!Gone
<1>1. UNCHANGED flight
  BY DEF ControlStep, Opening
<1>2. ctl # "opening" => UNCHANGED conn
  BY DEF ControlStep, Opening, Server!OpenFails, Server!PipeFails, Server!ForkFails,
     Server!Forks
<1>3. ctl # "exited"
  BY DEF ControlStep, Opening, Server!OpenFails, Server!PipeFails, Server!ForkFails,
     Server!Forks, Server!ReadCommand, Server!SessionEnds, Server!handle_request,
     Server!OnlyAnswered, Server!Quit, Server!LogIn, Server!Port, Server!Pasv, Server!Rest,
     Server!StartTransfer, Server!Carries, Server!Is, Server!HearCommand, Server!AbortDone,
     Server!ClientGone, Server!Exit, Server!TakeResult, Server!Finish
<1>4. host = "up"
  BY <1>3 DEF IInv, Ends
<1>5. host' = IF ctl' = "exited" THEN IF inbox' = <<>> THEN "fin" ELSE "reset" ELSE "up"
  BY <1>3, <1>4 DEF ControlStep, HostAfter
<1>6. host' = "up" <=> ctl' # "exited"
  BY <1>5
<1>7. /\ listener = "forked" /\ listener' = "forked"
      /\ answers' = Answers
      /\ UNCHANGED <<main, command, macro, script, mode, position, accepting,
                     child, code, sigterm, verdict, interrupts>>
      /\ TypeOK
  BY DEF ControlStep, clientVars, IInv
<1>8. /\ link = "up" <=> main \notin Client!Gone
      /\ link = "up" <=> Connected
  BY <1>4, <1>7 DEF IInv, Ends, Connected
<1>9. QED
  BY <1>1, <1>2, <1>3, <1>4, <1>6, <1>7, <1>8

\* `Ends`, `Unforked` and `OneConnection` after a step of the control process.
LEMMA ControlEnds ==
    ASSUME IInv, ControlStep,
           link' = "up" <=> link = "up",
           sentence' = Server!NoRequest, ~midline',
           inbox' \in Seq(Requests),
           ctl' = "exited" /\ link' = "up" => dtp' = "none"
    PROVE  Ends' /\ Unforked'
<1>1. /\ listener' = "forked"
      /\ UNCHANGED <<main, script, child>>
      /\ host' = "up" <=> ctl' # "exited"
  BY ControlFrame
<1>2. QED
  BY <1>1 DEF Ends, Unforked, IInv, Client!Gone

\* The lines and replies that Dialogue speaks of.
LEMMA Lines ==
    /\ Len(<<>>) = 0
    /\ Len(<<Abor>>) = 1 /\ <<Abor>>[1] = Abor
    /\ \A x : Len(<<x>>) = 1 /\ <<x>>[1] = x
    /\ \A x, y : Len(<<x, y>>) = 2 /\ <<x, y>>[1] = x /\ <<x, y>>[2] = y
OBVIOUS

\* The command that is read is the one that was asked.
LEMMA ReadCommandKept == IInv /\ ControlStep /\ Server!ReadCommand => Kept'
<1> SUFFICES ASSUME IInv, ControlStep, Server!ReadCommand PROVE Kept'
  OBVIOUS
<1>1. PICK n \in DOMAIN inbox : Server!Reads(n) /\ request' \in Server!FirstLine(n)
  BY DEF Server!ReadCommand
<1>2. /\ ctl = "reading" /\ ctl' = "handling"
      /\ sentence' = Server!NoRequest /\ replies' = <<>>
      /\ UNCHANGED <<status, offset, listening, link, peer, dtp>>
  BY DEF Server!ReadCommand, Server!dtpVars
<1>3. /\ Len(inbox) = 1 \/ inbox[1] = Abor => request' = inbox[1]
      /\ inbox' = SubSeq(inbox, n + 1, Len(inbox)) /\ ~midline'
  BY <1>1, WholeLine
<1>4. /\ UNCHANGED <<answers, main, command, mode, position, child, conn>>
      /\ listener = "forked" /\ listener' = "forked" /\ host = "up" /\ TypeOK
  BY <1>2, ControlFrame, NoReply
<1>5. Ends' /\ Unforked'
  BY <1>2, <1>3, Read, ControlEnds
<1>6. /\ inbox # <<>>
      /\ Len(inbox) = 1 => inbox' = <<>>
      /\ Len(inbox) = 2 => inbox' \in {<<>>, <<inbox[2]>>}
  BY <1>3, Read
<1>7. UNCHANGED Line
  BY <1>4 DEF Line
<1>8. Connected' => Connected
  BY <1>4 DEF Connected
<1>9. dtp = "none"
  BY <1>2 DEF IInv, Server!IInv, Server!NothingLeft
<1>10. Dialogue'
  BY <1>2, <1>3, <1>4, <1>6, <1>7, <1>8, Lines
     DEF IInv, Dialogue, Stands, Hears, Asked, Rests, Works
<1>11. ModeFollows'
  BY <1>2, <1>4, <1>8 DEF IInv, ModeFollows
<1>12. PositionFollows'
  <2>1. main = "starting" /\ Connected => Asked
    BY <1>2, <1>6 DEF IInv, Dialogue, Stands, Rests, Works
  <2>2. position # 0 /\ main = "starting" /\ Connected' => offset = Server!atoi(position)
    BY <1>8, <2>1 DEF IInv, PositionFollows
  <2>3. main = "waiting" => position = 0
    BY DEF IInv, PositionFollows
  <2>4. main # "prompt" \/ ~Connected
    BY <1>2, <1>6 DEF IInv, Dialogue, Stands
  <2>5. main \in Client!Gone => position = 0 \/ child = "dead"
    BY <1>2, <1>6 DEF IInv, PositionFollows
  <2>6. Connected' /\ main = "waiting" /\ answers # <<>> /\ Head(answers) \div 100 = 3
           /\ command.verb = "REST" /\ command.arg # "none"
           => offset = Server!atoi(Number[command.arg])
    BY <1>8 DEF IInv, PositionFollows
  <2>7. QED
    BY <1>2, <1>4, <1>8, <1>9, <2>2, <2>3, <2>4, <2>5, <2>6 DEF IInv, PositionFollows
<1>13. OneConnection'
  BY <1>2, <1>4 DEF IInv, OneConnection
<1>14. QED
  BY <1>5, <1>10, <1>11, <1>12, <1>13 DEF Kept

\* The end of the session is noticed by nobody but a client that reads.
LEMMA SessionEndsKept == IInv /\ ControlStep /\ Server!SessionEnds => Kept'
<1> SUFFICES ASSUME IInv, ControlStep, Server!SessionEnds PROVE Kept'
  OBVIOUS
<1>1. /\ ctl = "reading" /\ ctl' = "exited" /\ inbox = <<>>
      /\ UNCHANGED <<status, offset, listening, sentence, midline, replies, dtp, link, inbox, peer>>
  BY DEF Server!SessionEnds, Server!dtpVars, Server!netVars
<1>2. /\ UNCHANGED <<answers, main, command, mode, position, child, conn>>
      /\ listener' = "forked" /\ host' # "up" /\ TypeOK
  BY <1>1, ControlFrame, NoReply
<1>3. dtp = "none"
  BY <1>1 DEF IInv, Server!IInv, Server!NothingLeft
<1>4. Ends' /\ Unforked'
  <2>1. /\ sentence = Server!NoRequest /\ ~midline /\ inbox \in Seq(Requests)
    BY DEF IInv, Ends
  <2>2. QED
    BY <1>1, <1>3, <2>1, ControlEnds
<1>5. ~Connected'
  BY <1>2 DEF Connected
<1>6. Dialogue' /\ ModeFollows' /\ OneConnection'
  BY <1>1, <1>2, <1>5 DEF Dialogue, ModeFollows, IInv, OneConnection
<1>7. PositionFollows'
  BY <1>1, <1>2, <1>3, <1>5 DEF IInv, PositionFollows
<1>8. QED
  BY <1>4, <1>6, <1>7 DEF Kept

\* The end of the control process.
LEMMA ExitKept ==
    ASSUME IInv, ControlStep, ctl' = "exited",
           link' = "up" <=> link = "up",
           sentence' = Server!NoRequest, ~midline',
           inbox' \in Seq(Requests),
           (UNCHANGED <<dtp, offset>> /\ link # "up") \/ dtp' = "none",
           ctl # "opening", peer' = peer
    PROVE  Kept'
<1>1. /\ UNCHANGED <<main, position, child, conn>>
      /\ ~Connected'
  BY ControlFrame DEF Connected
<1>2. Ends' /\ Unforked'
  BY ControlEnds
<1>3. Dialogue' /\ ModeFollows' /\ OneConnection'
  BY <1>1 DEF Dialogue, ModeFollows, IInv, OneConnection
<1>4. PositionFollows'
  <2>1. dtp' = "moving" => offset' >= 0
    BY DEF IInv, PositionFollows
  <2>2. main' \in {"greeting", "waiting"} \/ (main' = "starting" /\ command'.verb = "LIST")
           => position' = 0
    BY ControlFrame DEF IInv, PositionFollows
  <2>3. position # 0 /\ (child # "dead" \/ main \notin Client!Gone)
           /\ dtp' \in {"opening", "moving"} => offset' = Server!atoi(position)
    BY DEF IInv, PositionFollows
  <2>4. QED
    BY <1>1, <2>1, <2>2, <2>3 DEF PositionFollows
<1>5. QED
  BY <1>2, <1>3, <1>4 DEF Kept

\* What a command that is not carried out is answered.
LEMMA AnswerCodes ==
    ASSUME request \in Server!Request, NEW c \in Server!Answers
    PROVE  /\ c \in {200, 213, 215, 250, 257, 425, 451, 500, 501, 502, 504, 530, 550}
           /\ request.verb \notin {"QUIT", "ABOR"}
           /\ request.verb \in {"PORT", "PASV"} => c \in {500, 501, 530}
           /\ request.verb = "REST" => c \in {425, 501}
<1>1. request.verb \in Server!Verb
  BY DEF Server!Request
<1>2. Server!Unhandled \in {500, 530}
  BY DEF Server!Unhandled
<1>3. QED
  BY <1>1, <1>2 DEF Server!Answers, Server!Verb

\* The line the client sends has the verb of its command.
LEMMA LineVerb ==
    ASSUME TypeOK, command # Client!NoCommand
    PROVE  /\ Line.verb = command.verb
           /\ command.verb # "PORT" => Line = command
<1>1. command \in Client!Typed
  BY DEF TypeOK, Client!TypeOK
<1>2. QED
  BY <1>1 DEF Line, Client!Typed

\* A command is answered, or a transfer begun.
LEMMA HandledKept ==
    ASSUME IInv, ControlStep, ctl = "handling", Server!NoTransfer,
           NEW c \in Nat, NEW next, Server!Send(c, next),
           \/ next = "reading" /\ c \div 100 # 1
           \/ next = "opening" /\ c = 150 /\ request.verb \in Client!Transfers
              /\ status' \in {"PORT", "PASV"}
              /\ offset' = IF request.verb = "LIST" THEN 0 ELSE offset,
           request.verb \notin {"QUIT", "ABOR"},
           IF request.verb \in {"PORT", "PASV"} /\ c \div 100 = 2
           THEN status' = request.verb
           ELSE status' \in {status, "USER", "PASS"},
           request.verb = "REST" /\ c \div 100 = 3
               => offset' = Server!atoi(Number[request.arg])
    PROVE  Kept'
<1>1. TypeOK /\ Says(c, next)
  BY ReplyArrives, ControlFrame
<1>2. dtp = "none" /\ UNCHANGED <<dtp, peer, inbox, sentence, midline>>
  BY DEF IInv, Server!IInv, Server!NothingLeft, Server!NoTransfer
<1>3. CASE ctl' = "exited"
  BY <1>1, <1>2, <1>3, ExitKept DEF IInv, Ends, Says
<1>4. CASE ctl' # "exited"
  <2>1. ctl' = next /\ ctl' \in {"reading", "opening"}
    BY <1>1, <1>4 DEF Says
  <2>2. Ends' /\ Unforked'
    BY <1>1, <1>2, <1>4, ControlEnds DEF Says, IInv, Ends
  <2>3. /\ UNCHANGED <<main, command, position, mode, child, conn>>
        /\ link = "up" <=> main \notin Client!Gone
        /\ link = "up" <=> Connected
    BY ControlFrame
  <2>4. Connected' => Connected /\ answers' = Append(answers, c)
    BY <1>1, <2>3 DEF Connected, Says
  <2>5. UNCHANGED Line
    BY <2>3 DEF Line
  <2>6. Connected => /\ main \in {"waiting", "starting"}
                     /\ request = Line /\ inbox = <<>> /\ Len(answers) = 0
                     /\ main = "waiting" => command.verb \in Client!Simple \cup {"PORT", "PASV"}
                     /\ main = "starting" => command.verb \in Client!Transfers /\ Asked
    <3>1. Abor.verb = "ABOR"
      BY DEF Abor
    <3>2. main \in {"greeting", "prompt", "waiting", "starting", "forked", "transfer",
                    "abor", "result", "exiting", "exited", "killed"}
      BY <1>1, Kinds
    <3>3. QED
      BY <3>1, <3>2 DEF IInv, Dialogue, Connected, Stands, Hears, Asked, Rests, Works,
         Client!Gone
  <2>7. Connected => answers = <<>>
    BY <1>1, <2>6, OneLess
  <2>8. Connected' => /\ Len(answers') = 1 /\ Head(answers') = c /\ answers' # <<>>
                      /\ inbox' = <<>>
    BY <1>1, <1>2, <2>4, <2>6, <2>7, OneMore
  <2>9. Connected => request.verb = command.verb
                     /\ (command.verb # "PORT" => request = command)
    BY <1>1, <2>6, LineVerb DEF Client!Simple, Client!Transfers, Client!NoCommand
  <2>11. Dialogue'
    <3>1. CASE ~Connected'
      BY <3>1 DEF Dialogue
    <3>2. CASE Connected' /\ main = "waiting"
      <4>1. next = "reading"
        BY <2>4, <2>6, <2>9, <3>2 DEF Client!Simple, Client!Transfers
      <4>2. QED
        BY <2>1, <2>3, <2>4, <2>6, <2>8, <3>2, <4>1 DEF Dialogue, Stands
    <3>3. CASE Connected' /\ main = "starting"
      BY <2>1, <2>3, <2>4, <2>6, <2>8, <3>3 DEF Dialogue, Stands, Works
    <3>4. QED
      BY <2>4, <2>6, <3>1, <3>2, <3>3
  <2>12. ModeFollows'
    <3>1. Connected => (status \in {"PORT", "PASV"} => status = mode)
      BY <2>7 DEF IInv, ModeFollows
    <3>2. Connected' => IF /\ main = "waiting" /\ Head(answers') \div 100 = 2
                           /\ command.verb \in {"PORT", "PASV"}
                        THEN status' = command.verb
                        ELSE status' \in {"PORT", "PASV"} => status' = mode
      BY <2>1, <2>4, <2>6, <2>8, <2>9, <3>1 DEF Client!Transfers
    <3>3. ctl' = "opening" => status' \in {"PORT", "PASV"}
      BY <2>1
    <3>4. QED
      BY <2>3, <2>8, <3>2, <3>3 DEF ModeFollows
  <2>13. PositionFollows'
    <3>1. /\ position' = position
          /\ main \in {"greeting", "waiting"} \/ (main = "starting" /\ command.verb = "LIST")
                 => position = 0
      BY <2>3 DEF IInv, PositionFollows
    <3>2. Connected' /\ main = "waiting" /\ Head(answers') \div 100 = 3
              /\ command.verb = "REST" => offset' = Server!atoi(Number[command.arg])
      BY <2>4, <2>8, <2>9
    <3>3. Connected' => main # "prompt" /\ ~Asked'
      BY <2>4, <2>6, <2>8 DEF Asked, Stands, Hears
    <3>4. position # 0 /\ (child # "dead" \/ main \notin Client!Gone) /\ ctl' = "opening"
             => offset' = Server!atoi(position)
      <4>1. SUFFICES ASSUME position # 0, child # "dead" \/ main \notin Client!Gone,
                            ctl' = "opening"
                     PROVE  offset' = Server!atoi(position)
        OBVIOUS
      <4>2. main \notin Client!Gone
        BY <4>1 DEF IInv, PositionFollows
      <4>3. main = "starting" /\ Connected /\ Asked /\ request.verb # "LIST"
        BY <2>3, <2>6, <2>9, <3>1, <4>1, <4>2
      <4>4. offset = Server!atoi(position)
        BY <4>1, <4>3 DEF IInv, PositionFollows
      <4>5. QED
        BY <2>1, <4>1, <4>3, <4>4
    <3>5. main \in Client!Gone => position = 0 \/ child = "dead"
      BY DEF IInv, PositionFollows
    <3>6. QED
      BY <1>2, <2>1, <2>3, <3>1, <3>2, <3>3, <3>4, <3>5 DEF PositionFollows
  <2>14. OneConnection'
    BY <1>2, <2>1, <2>3 DEF IInv, OneConnection
  <2>15. QED
    BY <2>2, <2>11, <2>12, <2>13, <2>14 DEF Kept
<1>5. QED
  BY <1>3, <1>4

\* A command that is answered at once: the reply takes the place of the command.
LEMMA AnsweredKept ==
    IInv /\ ControlStep
        /\ (Server!OnlyAnswered \/ Server!LogIn \/ Server!Port \/ Server!Pasv \/ Server!Rest
            \/ Server!StartTransfer)
    => Kept'
<1> SUFFICES ASSUME IInv, ControlStep PROVE
      /\ Server!OnlyAnswered => Kept'
      /\ Server!LogIn => Kept'
      /\ Server!Port => Kept'
      /\ Server!Pasv => Kept'
      /\ Server!Rest => Kept'
      /\ Server!StartTransfer => Kept'
  OBVIOUS
<1>1. ASSUME Server!OnlyAnswered PROVE Kept'
  <2>1. ctl = "handling" /\ Server!NoTransfer /\ UNCHANGED status
    BY <1>1 DEF Server!OnlyAnswered
  <2>2. PICK c \in Server!Answers : Server!Send(c, "reading")
    BY <1>1 DEF Server!OnlyAnswered
  <2>3. request \in Server!Request
    BY <2>1, TransferAssumption DEF IInv, Server!IInv, Server!RepliesFollow
  <2>4. /\ c \in {200, 213, 215, 250, 257, 425, 451, 500, 501, 502, 504, 530, 550}
        /\ request.verb \notin {"QUIT", "ABOR"}
        /\ request.verb \in {"PORT", "PASV"} => c \in {500, 501, 530}
        /\ request.verb = "REST" => c \in {425, 501}
    BY <2>3, AnswerCodes
  <2>5. /\ c \in Nat /\ c \div 100 # 1
        /\ ~(request.verb \in {"PORT", "PASV"} /\ c \div 100 = 2)
        /\ ~(request.verb = "REST" /\ c \div 100 = 3)
    BY <2>4
  <2>6. QED
    BY <2>1, <2>2, <2>4, <2>5, HandledKept
<1>2. ASSUME Server!LogIn PROVE Kept'
  <2>1. /\ ctl = "handling" /\ Server!NoTransfer
        /\ request.verb \in {"USER", "PASS"}
        /\ \/ Server!Send(331, "reading") /\ status' = "USER"
           \/ Server!Send(230, "reading") /\ status' = "PASS"
    BY <1>2 DEF Server!LogIn, Server!Carries, Server!Is
  <2>2. QED
    BY <2>1, HandledKept
<1>3. ASSUME Server!Port PROVE Kept'
  <2>1. /\ ctl = "handling" /\ Server!NoTransfer /\ request.verb = "PORT"
        /\ Server!Send(200, "reading") /\ status' = "PORT"
    BY <1>3 DEF Server!Port, Server!Carries, Server!Is
  <2>2. QED
    BY <2>1, HandledKept
<1>4. ASSUME Server!Pasv PROVE Kept'
  <2>1. /\ ctl = "handling" /\ Server!NoTransfer /\ request.verb = "PASV"
        /\ Server!Send(227, "reading") /\ status' = "PASV"
    BY <1>4 DEF Server!Pasv, Server!Carries, Server!Is
  <2>2. QED
    BY <2>1, HandledKept
<1>5. ASSUME Server!Rest PROVE Kept'
  <2>1. /\ ctl = "handling" /\ Server!NoTransfer /\ request.verb = "REST" /\ status' = status
        /\ offset' = Server!atoi(Number[request.arg])
        /\ Server!Send(501, "reading") \/ Server!Send(350, "reading")
    BY <1>5 DEF Server!Rest, Server!Carries, Server!Is
  <2>2. QED
    BY <2>1, HandledKept
<1>6. ASSUME Server!StartTransfer PROVE Kept'
  <2>1. /\ ctl = "handling" /\ Server!NoTransfer /\ request.verb \in {"RETR", "STOR", "LIST"}
        /\ Server!Answers = {}
        /\ Server!Send(150, "opening") /\ status' = status
        /\ offset' = IF request.verb = "LIST" THEN 0 ELSE offset
    BY <1>6 DEF Server!StartTransfer, Server!Carries, Server!Is
  <2>2. Server!HasMode
    BY <2>1 DEF Server!Answers
  <2>3. QED
    BY <2>1, <2>2, HandledKept DEF Server!HasMode, Client!Transfers
<1>7. QED
  BY <1>1, <1>2, <1>3, <1>4, <1>5, <1>6

\* QUIT and ABOR outside a transfer end the session after their reply.
LEMMA QuitKept == IInv /\ ControlStep /\ Server!Quit => Kept'
<1> SUFFICES ASSUME IInv, ControlStep, Server!Quit PROVE Kept'
  OBVIOUS
<1>1. ctl = "handling" /\ Server!NoTransfer /\ Server!Send(221, "exited")
  BY DEF Server!Quit, Server!Carries, Server!Is
<1>2. Says(221, "exited")
  BY <1>1, ReplyArrives, ControlFrame
<1>3. dtp = "none" /\ UNCHANGED <<dtp, peer, inbox, sentence, midline>>
  BY <1>1 DEF IInv, Server!IInv, Server!NothingLeft, Server!NoTransfer
<1>4. QED
  BY <1>1, <1>2, <1>3, ExitKept DEF IInv, Ends, Says

\* A transfer is answered a second time, or a third.
LEMMA EndedKept ==
    ASSUME IInv, ControlStep, ctl \in Works \cup {"aborting"},
           NEW c \in Nat, NEW next \in Rests, Server!Send(c, next),
           next = "reading" => ctl = "opening",
           UNCHANGED <<sentence, midline, inbox, peer>>,
           status' \in {status, "PASS"},
           dtp' \notin {"opening", "moving"}
    PROVE  Kept'
<1>1. TypeOK /\ Says(c, next)
  BY ReplyArrives, ControlFrame
<1>2. /\ ctl' \in {next, "exited"} /\ ctl' \notin {"handling", "opening", "exiting"}
      /\ link' = "up" => ctl' = next
  BY <1>1 DEF Says, Rests
<1>3. Ends' /\ Unforked'
  BY <1>1, <1>2, ControlEnds DEF Says, IInv, Ends, Rests
<1>4. /\ UNCHANGED <<main, command, position, mode, child>>
      /\ link = "up" <=> Connected
      /\ ctl' # "exited" <=> host' = "up"
      /\ ctl # "opening" => conn' = conn
  BY ControlFrame
<1>5. Connected' => Connected /\ ctl' = next /\ answers' = Append(answers, c)
  BY <1>1, <1>4, ControlFrame DEF Connected, Says
<1>6. Connected => main \in {"starting", "forked", "transfer", "result", "abor", "exiting"}
  <2>1. main \in {"greeting", "prompt", "waiting", "starting", "forked", "transfer",
                  "abor", "result", "exiting", "exited", "killed"}
    BY <1>1, Kinds
  <2>2. QED
    BY <2>1 DEF IInv, Dialogue, Connected, Stands, Hears, Asked, Rests, Works, Client!Gone
<1>7. Connected' => Len(answers') = Len(answers) + 1 /\ answers' # <<>>
                    /\ (answers # <<>> => Head(answers') = Head(answers))
  BY <1>1, <1>5, OneMore
<1>8. Len(answers) = 1 => answers # <<>>
  BY <1>1, OneLess
<1>9. Dialogue'
  <2>1. CASE Connected' /\ main = "starting"
    <3>1. /\ command.verb \in Client!Transfers
          /\ Head(answers) = 150 /\ Len(answers) = 1 /\ inbox = <<>>
      BY <1>5, <2>1 DEF IInv, Dialogue, Stands, Hears, Asked, Rests, Works
    <3>2. answers # <<>>
      BY <1>8, <3>1, Zenon
    <3>3. Head(answers') = Head(answers) /\ Len(answers') = Len(answers) + 1
      BY <1>7, <2>1, <3>2, Zenon
    <3>4. Head(answers') = 150 /\ Len(answers') = 2
      BY <3>1, <3>3
    <3>5. QED
      BY <1>4, <1>5, <2>1, <3>1, <3>4 DEF Dialogue, Stands
  <2>2. CASE Connected' /\ main \in {"forked", "transfer", "result"}
    <3>1. Len(answers) = 0 /\ inbox = <<>>
      BY <1>5, <2>2 DEF IInv, Dialogue, Stands, Hears, Rests, Works
    <3>2. Len(answers') = 1
      BY <1>7, <2>2, <3>1
    <3>3. QED
      BY <1>4, <1>5, <2>2, <3>1, <3>2 DEF Dialogue, Stands
  <2>3. CASE Connected' /\ main \in {"abor", "exiting"}
    <3>1. (Len(answers) = 0 /\ inbox = <<Abor>>) \/ (Len(answers) = 1 /\ inbox = <<>>)
      BY <1>5, <2>3 DEF IInv, Dialogue, Stands, Hears, Rests, Works
    <3>2. (Len(answers') = 1 /\ inbox = <<Abor>>) \/ (Len(answers') = 2 /\ inbox = <<>>)
      <4>1. Len(answers') = Len(answers) + 1 /\ inbox' = inbox
        BY <1>7, <2>3
      <4>2. ASSUME Len(answers) = 0 PROVE Len(answers') = 1
        BY <4>1, <4>2
      <4>3. ASSUME Len(answers) = 1 PROVE Len(answers') = 2
        BY <4>1, <4>3
      <4>4. QED
        BY <3>1, <4>1, <4>2, <4>3, Zenon
    <3>3. QED
      BY <1>4, <1>5, <2>3, <3>2 DEF Dialogue, Stands
  <2>4. QED
    BY <1>5, <1>6, <2>1, <2>2, <2>3 DEF Dialogue
<1>10. ModeFollows'
  BY <1>2, <1>4, <1>5, <1>6 DEF ModeFollows, IInv
<1>11. PositionFollows'
  <2>1. main \in {"greeting", "waiting"} \/ (main = "starting" /\ command.verb = "LIST")
           => position = 0
    BY DEF IInv, PositionFollows
  <2>2. Connected' => main \notin {"waiting", "prompt"} /\ ~Asked'
    <3>1. Connected' => Len(answers') # 0
      BY <1>1, <1>7, Kinds
    <3>2. QED
      BY <1>4, <1>5, <1>6, <3>1 DEF Asked, Stands, Hears
  <2>3. main \in Client!Gone => position = 0 \/ child = "dead"
                                 \/ (inbox = <<>> /\ ctl' # "handling")
    BY <1>2, <1>4 DEF IInv, PositionFollows, Works
  <2>4. QED
    BY <1>2, <1>4, <2>1, <2>2, <2>3 DEF PositionFollows
<1>12. OneConnection'
  <2>1. ctl = "opening" => peer = "none"
    BY DEF IInv, OneConnection
  <2>2. ctl # "opening" => ctl' \in {"reaping", "exited"}
    BY <1>2 DEF Rests
  <2>3. QED
    BY <1>2, <1>4, <2>1, <2>2 DEF IInv, OneConnection
<1>13. QED
  BY <1>3, <1>9, <1>10, <1>11, <1>12 DEF Kept

\* A transfer that cannot be opened has its second reply, and no mode any more.
LEMMA OpeningFailsKept ==
    IInv /\ ControlStep /\ (Server!OpenFails \/ Server!PipeFails \/ Server!ForkFails) => Kept'
<1> SUFFICES ASSUME IInv, ControlStep, Server!OpenFails \/ Server!PipeFails \/ Server!ForkFails
             PROVE  Kept'
  OBVIOUS
<1>1. /\ ctl = "opening" /\ Server!NoTransfer /\ status' = "PASS"
      /\ Server!Send(425, "reading") \/ Server!Send(500, "reading")
  BY DEF Server!OpenFails, Server!PipeFails, Server!ForkFails, Server!Finished
<1>2. dtp' = "none" /\ UNCHANGED <<sentence, midline, inbox, peer>>
  BY <1>1 DEF IInv, Server!IInv, Server!NothingLeft, Server!NoTransfer
<1>3. QED
  BY <1>1, <1>2, EndedKept DEF Works, Rests

\* The result of the child is the second reply of the transfer.
LEMMA TakeResultKept == IInv /\ ControlStep /\ Server!TakeResult => Kept'
<1> SUFFICES ASSUME IInv, ControlStep, Server!TakeResult PROVE Kept'
  OBVIOUS
<1>1. /\ ctl = "transfer" /\ pipe # <<>>
      /\ UNCHANGED <<status, sentence, midline, inbox, dtp, peer>>
  BY DEF Server!TakeResult
<1>2. dtp' \notin {"opening", "moving"}
  BY <1>1 DEF IInv, Server!IInv, Server!ResultFits
<1>3. PICK c \in {226, 451, 426} : Server!Send(c, "reaping")
  <2>1. Head(pipe) \in {0, 1, 2}
    <3>1. pipe \in Seq({0, 1, 2})
      BY DEF IInv, TypeOK, Server!TypeOK
    <3>2. QED
      BY <1>1, <3>1, HeadTailProperties
  <2>2. QED
    BY <2>1 DEF Server!TakeResult
<1>4. QED
  BY <1>1, <1>2, <1>3, EndedKept DEF Works, Rests

\* The third reply of a transfer that was aborted.
LEMMA AbortDoneKept == IInv /\ ControlStep /\ Server!AbortDone => Kept'
<1> SUFFICES ASSUME IInv, ControlStep, Server!AbortDone PROVE Kept'
  OBVIOUS
<1>1. /\ ctl = "aborting" /\ dtp' = "none" /\ Server!Send(226, "reaping")
      /\ UNCHANGED <<status, sentence, midline, inbox, peer>>
  BY DEF Server!AbortDone
<1>2. QED
  BY <1>1, EndedKept DEF Rests

\* The child takes the position the client was told.
LEMMA ForksKept == IInv /\ ControlStep /\ Server!Forks => Kept'
<1> SUFFICES ASSUME IInv, ControlStep, Server!Forks PROVE Kept'
  OBVIOUS
<1>1. /\ ctl = "opening" /\ ctl' = "transfer" /\ dtp' = "opening" /\ peer' = "open"
      /\ UNCHANGED <<status, offset, sentence, midline, replies, link, inbox>>
  BY DEF Server!Forks
<1>2. /\ UNCHANGED <<main, command, position, mode, child, answers>>
      /\ TypeOK /\ listener' = "forked"
  BY <1>1, ControlFrame, NoReply
<1>3. Ends' /\ Unforked'
  BY <1>1, ControlEnds DEF IInv, Ends
<1>4. Connected' => Connected
  BY <1>2, ControlFrame DEF Connected
<1>5. Dialogue'
  BY <1>1, <1>2, <1>4 DEF IInv, Dialogue, Stands, Hears, Asked, Rests, Works
<1>6. ModeFollows'
  BY <1>1, <1>2, <1>4 DEF IInv, ModeFollows
<1>7. PositionFollows'
  <2>1. Connected' => main # "prompt" /\ ~Asked'
    BY <1>1, <1>2, <1>4 DEF IInv, Dialogue, Stands, Hears, Asked, Rests
  <2>2. Connected' /\ main = "waiting" => FALSE
    BY <1>1, <1>4 DEF IInv, Dialogue, Stands, Hears, Asked, Rests
  <2>3. position # 0 /\ (child # "dead" \/ main \notin Client!Gone)
           => offset = Server!atoi(position)
    BY <1>1 DEF IInv, PositionFollows
  <2>4. /\ main \in {"greeting", "waiting"} \/ (main = "starting" /\ command.verb = "LIST")
           => position = 0
        /\ main \in Client!Gone => position = 0 \/ child = "dead" \/ inbox = <<>>
    BY <1>1 DEF IInv, PositionFollows
  <2>5. QED
    BY <1>1, <1>2, <2>1, <2>2, <2>3, <2>4 DEF PositionFollows
<1>8. OneConnection'
  BY <1>1 DEF OneConnection
<1>9. QED
  BY <1>3, <1>5, <1>6, <1>7, <1>8 DEF Kept

\* A session that finds its client gone cannot disturb it.
LEMMA ClientGoneKept == IInv /\ ControlStep /\ Server!ClientGone => Kept'
<1> SUFFICES ASSUME IInv, ControlStep, Server!ClientGone PROVE Kept'
  OBVIOUS
<1>1. /\ ctl = "transfer" /\ inbox = <<>> /\ link # "up"
      /\ ctl' \in {"exiting", "exited"}
      /\ UNCHANGED <<status, offset, listening, sentence, midline, replies, dtp, link, inbox, peer>>
  BY DEF Server!ClientGone, Server!netVars
<1>2. /\ UNCHANGED <<main, command, position, mode, child, answers, conn>>
      /\ ~Connected /\ TypeOK
  BY <1>1, ControlFrame, NoReply
<1>3. Ends' /\ Unforked'
  BY <1>1, ControlEnds DEF IInv, Ends
<1>4. ~Connected'
  BY <1>1, <1>2, ControlFrame DEF Connected
<1>5. PositionFollows'
  BY <1>1, <1>2, <1>4 DEF IInv, PositionFollows
<1>6. OneConnection'
  BY <1>1, <1>2 DEF IInv, OneConnection, Server!IInv, Server!SocketClosed
<1>7. QED
  BY <1>1, <1>3, <1>4, <1>5, <1>6 DEF Kept, Dialogue, ModeFollows

\* exit_connection has waited for its child: what is left is to close.
LEMMA ExitsKept == IInv /\ ControlStep /\ Server!Exit => Kept'
<1> SUFFICES ASSUME IInv, ControlStep, Server!Exit PROVE Kept'
  OBVIOUS
<1>1. /\ ctl = "exiting" /\ ctl' = "exited" /\ dtp' = "none"
      /\ UNCHANGED <<sentence, midline, link, inbox, peer>>
  BY DEF Server!Exit, Server!netVars
<1>2. QED
  BY <1>1, ExitKept DEF IInv, Ends

\* ABOR during a transfer is taken from the line, and its first reply sent.
LEMMA HearCommandKept == IInv /\ ControlStep /\ Server!HearCommand => Kept'
<1> SUFFICES ASSUME IInv, ControlStep, Server!HearCommand PROVE Kept'
  OBVIOUS
<1>0. PICK n \in DOMAIN inbox :
         /\ Server!Reads(n)
         /\ \E line \in Server!FirstLine(n) :
               IF line.verb \in {"ABOR", "QUIT"}
               THEN Server!Kill /\ Server!Send(426, "aborting")
               ELSE UNCHANGED <<term, ctl, replies, link>>
  BY DEF Server!HearCommand
<1>1. PICK line \in Server!FirstLine(n) :
         IF line.verb \in {"ABOR", "QUIT"}
         THEN Server!Kill /\ Server!Send(426, "aborting")
         ELSE UNCHANGED <<term, ctl, replies, link>>
  BY <1>0
<1>2. /\ ctl = "transfer" /\ sentence' = Server!NoRequest
      /\ UNCHANGED <<status, offset, listening, peer, dtp>>
  BY DEF Server!HearCommand
<1>3. /\ Len(inbox) = 1 => line = inbox[1]
      /\ ~midline' /\ inbox # <<>> /\ inbox' \in Seq(Requests)
      /\ Len(inbox) = 1 => inbox' = <<>>
  BY <1>0, <1>1, WholeLine, Read
<1>4. /\ UNCHANGED <<main, command, mode, position, child, conn>>
      /\ link = "up" <=> Connected
      /\ ctl' # "exited" <=> host' = "up"
      /\ TypeOK
  BY <1>2, ControlFrame
<1>5. CASE link = "up"
  <2>1. /\ main \in {"abor", "exiting"} /\ inbox = <<Abor>> /\ Len(answers) = 0
    <3>1. main \in {"greeting", "prompt", "waiting", "starting", "forked", "transfer",
                    "abor", "result", "exiting", "exited", "killed"}
      BY <1>4, Kinds
    <3>2. QED
      BY <1>2, <1>3, <1>4, <1>5, <3>1
         DEF IInv, Dialogue, Connected, Stands, Hears, Asked, Rests, Works, Client!Gone
  <2>2. line.verb = "ABOR" /\ inbox' = <<>>
    <3>1. inbox[1] = Abor /\ Len(inbox) = 1
      BY <2>1, Lines
    <3>2. QED
      BY <1>3, <3>1 DEF Abor
  <2>3. Says(426, "aborting")
    BY <1>1, <1>4, <2>2, ReplyArrives, ControlFrame
  <2>4. /\ ctl' = "aborting" /\ link' = "up" /\ Len(answers') = 1
    BY <1>4, <1>5, <2>1, <2>3, OneMore DEF Says
  <2>5. Ends' /\ Unforked'
    <3>1. (link' = "up" <=> link = "up") /\ ctl' # "exited"
      BY <1>5, <2>4
    <3>2. sentence' = Server!NoRequest /\ ~midline' /\ inbox' \in Seq(Requests)
      BY <1>2, <1>3
    <3>3. QED
      BY <3>1, <3>2, ControlEnds
  <2>6. Dialogue'
    BY <1>4, <2>1, <2>2, <2>4 DEF Dialogue, Stands
  <2>7. ModeFollows'
    BY <1>2, <1>4, <1>5, <2>1, <2>4 DEF IInv, ModeFollows
  <2>8. PositionFollows'
    BY <1>2, <1>4, <2>1, <2>2, <2>4 DEF IInv, PositionFollows, Client!Gone
  <2>9. OneConnection'
    BY <1>2, <1>4, <2>4 DEF IInv, OneConnection
  <2>10. QED
    BY <2>5, <2>6, <2>7, <2>8, <2>9 DEF Kept
<1>6. CASE link # "up"
  <2>1. link' # "up" /\ ctl' \in {"transfer", "aborting", "exited"}
    BY <1>1, <1>2, <1>4, <1>6, ReplyArrives, ControlFrame DEF Says
  <2>2. Ends' /\ Unforked'
    <3>1. (link' = "up" <=> link = "up") /\ link' # "up"
      BY <1>6, <2>1
    <3>2. sentence' = Server!NoRequest /\ ~midline' /\ inbox' \in Seq(Requests)
      BY <1>2, <1>3
    <3>3. QED
      BY <3>1, <3>2, ControlEnds
  <2>3. ~Connected'
    BY <1>4, <1>6, ControlFrame DEF Connected
  <2>4. main \in Client!Gone => position = 0 \/ child = "dead"
    BY <1>2, <1>3 DEF IInv, PositionFollows
  <2>5. PositionFollows'
    BY <1>2, <1>4, <2>1, <2>3, <2>4 DEF IInv, PositionFollows
  <2>6. OneConnection'
    BY <1>2, <1>4, <2>1 DEF IInv, OneConnection
  <2>7. QED
    BY <2>1, <2>2, <2>3, <2>5, <2>6 DEF Kept, Dialogue, ModeFollows
<1>7. QED
  BY <1>5, <1>6

\* The child has been waited for: the server is where it was before the transfer.
LEMMA FinishKept == IInv /\ ControlStep /\ Server!Finish => Kept'
<1> SUFFICES ASSUME IInv, ControlStep, Server!Finish PROVE Kept'
  OBVIOUS
<1>1. /\ ctl = "reaping" /\ ctl' = "reading" /\ dtp' = "none" /\ peer' = "none"
      /\ offset' = 0 /\ status' = "PASS"
      /\ UNCHANGED <<sentence, midline, replies, link, inbox>>
  BY DEF Server!Finish, Server!Finished
<1>2. /\ UNCHANGED <<main, command, position, mode, child, answers, conn>>
      /\ TypeOK
  BY <1>1, ControlFrame, NoReply
<1>3. Ends' /\ Unforked'
  BY <1>1, ControlEnds DEF IInv, Ends
<1>4. Connected' => Connected
  BY <1>2, ControlFrame DEF Connected
<1>5. UNCHANGED Line
  BY <1>2 DEF Line
<1>6. Dialogue'
  BY <1>1, <1>2, <1>4, <1>5 DEF IInv, Dialogue, Stands, Hears, Asked, Rests, Works
<1>7. ModeFollows'
  <2>1. Connected /\ main = "waiting" => Len(answers) = 0
    BY <1>1 DEF IInv, Dialogue, Stands, Hears, Asked
  <2>2. Connected /\ main = "waiting" => answers = <<>>
    BY <1>2, <2>1, OneLess
  <2>3. QED
    BY <1>1, <1>2, <1>4, <2>2 DEF ModeFollows
<1>8. PositionFollows'
  <2>1. Connected => ~(main = "prompt" /\ position # 0)
    BY <1>1 DEF IInv, PositionFollows
  <2>2. Asked' => Asked
    BY <1>1, <1>2, <1>5 DEF Asked, Stands, Hears, Rests
  <2>3. Connected' => ~(main = "starting" /\ position # 0 /\ Asked')
    BY <1>1, <1>4, <2>2 DEF IInv, PositionFollows
  <2>4. /\ main \in {"greeting", "waiting"} \/ (main = "starting" /\ command.verb = "LIST")
           => position = 0
        /\ main \in Client!Gone => position = 0 \/ child = "dead" \/ inbox = <<>>
    BY <1>1 DEF IInv, PositionFollows
  <2>5. Connected /\ main = "waiting" => Len(answers) = 0
    BY <1>1 DEF IInv, Dialogue, Stands, Hears, Asked
  <2>6. Connected /\ main = "waiting" => answers = <<>>
    BY <1>2, <2>5, OneLess
  <2>7. QED
    BY <1>1, <1>2, <1>4, <2>1, <2>3, <2>4, <2>6 DEF PositionFollows
<1>9. OneConnection'
  BY <1>1 DEF OneConnection
<1>10. QED
  BY <1>3, <1>6, <1>7, <1>8, <1>9 DEF Kept

\* The twelve ways of the control process together.
LEMMA ControlKept == IInv /\ ControlStep => Kept'
  BY ReadCommandKept, SessionEndsKept, AnsweredKept, QuitKept, OpeningFailsKept, ForksKept,
     HearCommandKept, AbortDoneKept, ClientGoneKept, ExitsKept, TakeResultKept, FinishKept
     DEF ControlStep, Opening, Server!handle_request

-----------------------------------------------------------------------------
(* The children, the data connection and the listener *)

\* The child of the server takes no part in the dialogue.
LEMMA DtpKept == IInv /\ DtpStep => Kept' /\ Wires'
<1> SUFFICES ASSUME IInv, DtpStep PROVE Kept' /\ Wires'
  OBVIOUS
<1>1. /\ UNCHANGED <<ctl, status, offset, listening, request, sentence, midline, link, inbox>>
      /\ UNCHANGED <<main, command, script, mode, position, child, answers, host, listener, conn>>
  BY DEF DtpStep, DtpSends, DtpReceives, Server!SendBlock, Server!ReceiveBlock,
     Server!ChildCannotOpen, Server!ChildOpens, Server!SendFails, Server!SendKills,
     Server!SentAll, Server!ReceiveEnds, Server!ChildExits, Server!close_DTP,
     Server!childFrame, Server!ctlVars, clientVars
<1>2. /\ dtp \in {"opening", "moving", "exiting"}
      /\ dtp' \in {"opening", "moving"} => dtp \in {"opening", "moving"}
      /\ dtp' = "moving" /\ dtp # "moving" => offset >= 0
      /\ peer' = "none" <=> peer = "none"
      /\ peer = "open" => peer' = "open"
  BY DEF DtpStep, DtpSends, DtpReceives, Server!SendBlock, Server!ReceiveBlock,
     Server!ChildCannotOpen, Server!ChildOpens, Server!SendFails, Server!SendKills,
     Server!SentAll, Server!ReceiveEnds, Server!ChildExits, Server!close_DTP,
     Server!Moving, Server!Sends, Server!Writes
<1>3. UNCHANGED Line
  BY <1>1 DEF Line
<1>4. Ends' /\ Unforked'
  BY <1>1, <1>2 DEF IInv, Ends, Unforked
<1>5. Connected' <=> Connected
  BY <1>1 DEF Connected
<1>6. Dialogue'
  BY <1>1, <1>3, <1>5 DEF IInv, Dialogue, Stands, Hears, Asked
<1>7. ModeFollows'
  BY <1>1, <1>5 DEF IInv, ModeFollows
<1>8. PositionFollows'
  BY <1>1, <1>2, <1>3, <1>5 DEF IInv, PositionFollows, Asked, Stands, Hears
<1>9. OneConnection'
  BY <1>1, <1>2 DEF IInv, OneConnection
<1>10. Wires'
  <2>1. Window \in 1..MaxBlocks /\ MaxBlocks \in Nat /\ flight \in 0..MaxBlocks
    BY TransferAssumption DEF IInv, TypeOK
  <2>2. flight' \in 0..MaxBlocks
    <3>1. CASE DtpSends
      <4>1. conn \in {"queued", "up"} => flight < Window
        BY <3>1 DEF DtpSends, Server!SendBlock, IInv, OneConnection
      <4>2. QED
        BY <2>1, <3>1, <4>1 DEF DtpSends
    <3>2. CASE DtpReceives
      BY <2>1, <3>2 DEF DtpReceives
    <3>3. CASE UNCHANGED flight
      BY <2>1, <3>3
    <3>4. QED
      BY <3>1, <3>2, <3>3 DEF DtpStep
  <2>3. QED
    BY <1>1, <2>2 DEF Wires, IInv, TypeOK
<1>11. QED
  BY <1>4, <1>6, <1>7, <1>8, <1>9, <1>10 DEF Kept

\* Nor has the end of the data connection.
LEMMA CloseArrivesKept == IInv /\ CloseArrives => Kept' /\ Wires'
<1> SUFFICES ASSUME IInv, CloseArrives PROVE Kept' /\ Wires'
  OBVIOUS
<1>1. /\ UNCHANGED <<ctl, status, offset, listening, request, sentence, midline, link, inbox, dtp>>
      /\ UNCHANGED <<main, command, script, mode, position, child, answers, host, listener, flight>>
      /\ conn' = "none" /\ peer # "none"
  BY DEF CloseArrives, Server!PeerCloses, Server!ctlVars, clientVars
<1>2. UNCHANGED Line
  BY <1>1 DEF Line
<1>3. Ends' /\ Unforked'
  BY <1>1 DEF IInv, Ends, Unforked
<1>4. Connected' <=> Connected
  BY <1>1 DEF Connected
<1>5. Dialogue'
  BY <1>1, <1>2, <1>4 DEF IInv, Dialogue, Stands, Hears, Asked
<1>6. ModeFollows'
  BY <1>1, <1>4 DEF IInv, ModeFollows
<1>7. PositionFollows'
  BY <1>1, <1>2, <1>4 DEF IInv, PositionFollows, Asked, Stands, Hears
<1>8. OneConnection' /\ Wires'
  BY <1>1 DEF IInv, OneConnection, Wires, TypeOK
<1>9. QED
  BY <1>3, <1>5, <1>6, <1>7, <1>8 DEF Kept

\* The session is forked, or is not.
LEMMA ListenerKept == IInv /\ (Accepts \/ CannotFork) => Kept' /\ Wires'
<1> SUFFICES ASSUME IInv, Accepts \/ CannotFork PROVE Kept' /\ Wires'
  OBVIOUS
<1>1. /\ UNCHANGED <<ctl, status, offset, listening, request, sentence, midline, link, inbox,
                      dtp, peer>>
      /\ UNCHANGED <<main, command, script, mode, position, child, host, conn, flight>>
  BY DEF Accepts, CannotFork, serverVars, ctlVars, dtpVars, clientVars
<1>2. PICK c \in {220, 500} :
         /\ listener = "accepting" /\ answers' = Append(answers, c)
         /\ listener' = IF c = 220 THEN "forked" ELSE "failed"
  BY DEF Accepts, CannotFork
<1>3. /\ main \in {"greeting", "exited", "killed"} /\ inbox = <<>> /\ answers = <<>>
      /\ ctl = "reading" /\ status = "CONNECTED" /\ dtp = "none"
  BY <1>2 DEF IInv, Unforked
<1>4. Len(answers') = 1
  BY <1>2, <1>3, OneMore, Lines DEF IInv
<1>5. Ends'
  BY <1>1 DEF IInv, Ends
<1>6. Unforked'
  BY <1>1, <1>2, <1>3, <1>4 DEF Unforked, Client!Gone
<1>7. Dialogue'
  BY <1>1, <1>3, <1>4 DEF Dialogue, Stands, Connected, Client!Gone
<1>8. ModeFollows'
  BY <1>1, <1>3 DEF ModeFollows
<1>9. PositionFollows'
  <2>1. main = "greeting" => position = 0
    BY DEF IInv, PositionFollows
  <2>2. QED
    BY <1>1, <1>3, <2>1 DEF PositionFollows
<1>10. OneConnection' /\ Wires'
  BY <1>1, <1>2 DEF IInv, OneConnection, Wires, TypeOK
<1>11. QED
  BY <1>5, <1>6, <1>7, <1>8, <1>9, <1>10 DEF Kept

-----------------------------------------------------------------------------
(* The client *)

\* A socket of the backlog is left alone or reset.
LEMMA BacklogIs == Backlog \in {conn, "reset"}
BY DEF Backlog

\* Someone connects to the server only between two transfers.
LEMMA ServerListensFor == IInv /\ ServerListens => peer = "none"
<1> SUFFICES ASSUME IInv, ServerListens PROVE peer = "none"
  OBVIOUS
<1>1. listening /\ ctl # "exited"
  BY DEF ServerListens
<1>2. ctl \notin {"transfer", "aborting", "reaping", "exiting"}
  BY <1>1 DEF IInv, Server!IInv, Server!SocketClosed, OneConnection
<1>3. QED
  BY <1>1, <1>2 DEF IInv, OneConnection

\* The child of the client takes no part in it either, but when it is born or dies.
LEMMA ChildKept == IInv /\ ChildStep => Kept' /\ Wires'
<1> SUFFICES ASSUME IInv, ChildStep PROVE Kept' /\ Wires'
  OBVIOUS
<1>1. /\ UNCHANGED <<ctl, status, offset, listening, request, sentence, midline, link, dtp, peer>>
      /\ UNCHANGED listener
  BY DEF ChildStep, serverFrame, ctlVars, dtpVars
<1>2. UNCHANGED <<main, command, script, mode, position, inbox, answers, host>>
  BY DEF ChildStep, ChildConnects, ChildCannotConnect, ChildReceives, ChildSends, ChildDone,
     ChildHeld, Client!ChildStarts, Client!ClosesPipe, Client!ChildOpens,
     Client!ChildCannotOpen, Client!ChildEnds, Client!ChildFails, Client!handle_abor_DTP, Client!HeldEnds,
     Client!childFrame, Client!mainVars, Client!wireVars, clientVars
<1>3. child \notin {"none", "dead"}
  BY DEF ChildStep, ChildConnects, ChildCannotConnect, ChildReceives, ChildSends, ChildDone,
     ChildHeld, Client!ChildStarts, Client!ClosesPipe, Client!ChildOpens,
     Client!ChildCannotOpen, Client!ChildEnds, Client!ChildFails, Client!handle_abor_DTP, Client!HeldEnds,
     Client!At, Client!Held
<1>4. UNCHANGED Line
  BY <1>2 DEF Line
<1>5. Ends' /\ Unforked'
  BY <1>1, <1>2, <1>3 DEF IInv, Ends, Unforked
<1>6. Connected' <=> Connected
  BY <1>1, <1>2 DEF Connected
<1>7. Dialogue'
  BY <1>1, <1>2, <1>4, <1>6 DEF IInv, Dialogue, Stands, Hears, Asked
<1>8. ModeFollows'
  BY <1>1, <1>2, <1>6 DEF IInv, ModeFollows
<1>9. PositionFollows'
  BY <1>1, <1>2, <1>3, <1>4, <1>6 DEF IInv, PositionFollows, Asked, Stands, Hears
<1>10. /\ conn' \in {conn, "reset", "closed", "queued", "up"}
       /\ conn' \in {"queued", "up"} => conn \in {"queued", "up"} \/ ServerListens
  BY BacklogIs DEF ChildStep, ChildConnects, ChildCannotConnect, ChildReceives, ChildSends,
     ChildDone, ChildHeld
<1>11. OneConnection'
  BY <1>1, <1>10, ServerListensFor DEF IInv, OneConnection
<1>12. Wires'
  <2>1. Window \in 1..MaxBlocks /\ MaxBlocks \in Nat /\ flight \in 0..MaxBlocks
    BY TransferAssumption DEF IInv, TypeOK
  <2>2. flight' = flight \/ (flight > 0 /\ flight' = flight - 1)
          \/ (flight < Window /\ flight' = flight + 1)
    BY DEF ChildStep, ChildConnects, ChildCannotConnect, ChildReceives, ChildSends,
       ChildDone, ChildHeld
  <2>3. flight' \in 0..MaxBlocks
    BY <2>1, <2>2
  <2>4. QED
    BY <1>1, <1>10, <2>3 DEF Wires, IInv, TypeOK
<1>13. QED
  BY <1>5, <1>7, <1>8, <1>9, <1>11, <1>12 DEF Kept

\* What a step of the main process leaves alone.
LEMMA ClientFrame ==
    ASSUME IInv, MainEffects, main \notin Client!Gone,
           inbox' \in Seq(Requests), script' \in Seq(Issued),
           host' = "up" <=> host = "up",
           main' \in {"greeting", "prompt", "waiting", "starting", "result"} => child' = "none"
    PROVE  /\ UNCHANGED <<ctl, status, offset, listening, request, sentence, midline, replies,
                          dtp, term, pipe, left, ferror, peer, listener>>
           /\ Connected' => Connected
           /\ Connected <=> listener = "forked" /\ host = "up"
           /\ listener # "forked" => host = "up"
           /\ host = "up" <=> ctl # "exited"
           /\ ctl = "exited" => dtp = "none"
           /\ TypeOK
           /\ Ends' /\ OneConnection' /\ Wires'
<1>1. UNCHANGED <<ctl, status, offset, listening, request, sentence, midline, replies,
                  dtp, term, pipe, left, ferror, peer, listener>>
  BY DEF MainEffects, serverFrame, ctlVars, dtpVars
<1>2. link = "up"
  BY DEF IInv, Ends
<1>3. link' = "up" <=> main' \notin Client!Gone
  BY <1>2 DEF MainEffects, LinkAfter
<1>4. Ends'
  BY <1>1, <1>2, <1>3 DEF IInv, Ends
<1>5. /\ conn' \in {"none", "reset", conn}
      /\ flight' \in {0, flight}
  BY BacklogIs DEF MainEffects
<1>6. OneConnection'
  BY <1>1, <1>5 DEF IInv, OneConnection
<1>7. Wires'
  BY <1>1, <1>5, TransferAssumption DEF IInv, TypeOK, Wires
<1>8. /\ Connected <=> listener = "forked" /\ host = "up"
      /\ Connected' => Connected
      /\ host = "up" <=> ctl # "exited"
      /\ ctl = "exited" => dtp = "none"
  BY <1>1, <1>2 DEF Connected, IInv, Ends
<1>9. listener # "forked" => host = "up"
  BY DEF IInv, Ends, Unforked
<1>10. QED
  BY <1>1, <1>4, <1>6, <1>7, <1>8, <1>9 DEF IInv

\* The end of the main process, with nothing left of it.
LEMMA ClientEndsKept ==
    ASSUME IInv, MainEffects, NEW how \in Client!Gone, Client!Ends(how),
           main \notin Client!Gone, inbox' = inbox, host' = "up" <=> host = "up",
           listener = "accepting" => answers' = answers
    PROVE  Kept' /\ Wires'
<1>1. /\ main' = how /\ script' = <<>> /\ position' = 0
  BY DEF Client!Ends
<1>2. inbox' \in Seq(Requests) /\ script' \in Seq(Issued)
  BY <1>1 DEF IInv, Ends
<1>3. main' \in Client!Gone
  BY <1>1
<1>4. main' \notin {"greeting", "prompt", "waiting", "starting", "result"}
  BY <1>3 DEF Client!Gone
<1>5. /\ UNCHANGED <<ctl, status, offset, dtp, listener>>
      /\ Ends' /\ OneConnection' /\ Wires'
  BY <1>2, <1>4, ClientFrame
<1>6. ~Connected'
  BY <1>3 DEF Connected
<1>7. Unforked'
  BY <1>1, <1>3, <1>5 DEF IInv, Unforked, Client!Gone
<1>8. Dialogue' /\ ModeFollows'
  BY <1>5, <1>6 DEF Dialogue, ModeFollows, IInv
<1>9. PositionFollows'
  BY <1>1, <1>5, <1>6 DEF PositionFollows, IInv
<1>10. QED
  BY <1>5, <1>7, <1>8, <1>9 DEF Kept

\* What get_msg has found: a reply, or what was in the buffer.
Took == answers # <<>> /\ answers' = Tail(answers) /\ UNCHANGED <<inbox, host>>
Junk == answers = <<>> /\ host = "reset" /\ host' = "broken" /\ UNCHANGED <<inbox, answers>>

\* What GetMsg takes from the replies: one, if the server is there.
LEMMA Got ==
    ASSUME IInv, Took \/ Junk
    PROVE  /\ inbox' = inbox /\ inbox' \in Seq(Requests) /\ script \in Seq(Issued)
           /\ host' = "up" <=> host = "up"
           /\ host = "up" => /\ Took /\ Len(answers) # 0
                             /\ Len(answers) = 1 => Len(answers') = 0
                             /\ Len(answers) = 2 => Len(answers') = 1
           /\ listener # "accepting"
<1>1. TypeOK /\ inbox \in Seq(Requests) /\ script \in Seq(Issued)
  BY DEF IInv, Ends
<1>2. /\ inbox' = inbox
      /\ host' = "up" <=> host = "up"
      /\ host = "up" => Took
  BY DEF Took, Junk
<1>3. ASSUME Took PROVE Len(answers) # 0 /\ Len(answers') = Len(answers) - 1
  BY <1>1, <1>3, OneLess DEF Took
<1>4. ASSUME Took, Len(answers) = 1 PROVE Len(answers') = 0
  BY <1>3, <1>4
<1>5. ASSUME Took, Len(answers) = 2 PROVE Len(answers') = 1
  BY <1>3, <1>5
<1>6. listener # "accepting"
  BY DEF IInv, Ends, Unforked, Took, Junk
<1>7. QED
  BY <1>1, <1>2, <1>3, <1>4, <1>5, <1>6, Zenon

\* The greeting is 220, or 500 of a listener that could not fork.
LEMMA GreetingKept == IInv /\ Client!Greeting /\ MainEffects => Kept' /\ Wires'
<1> SUFFICES ASSUME IInv, Client!Greeting, MainEffects PROVE Kept' /\ Wires'
  OBVIOUS
<1>1. /\ main = "greeting" /\ main' = "prompt" /\ (Took \/ Junk)
      /\ UNCHANGED <<command, script, mode, position, child>>
  BY DEF Client!Greeting, Client!GetMsg, Client!childVars, Took, Junk
<1>2. /\ main \notin Client!Gone
      /\ child' = "none"
  BY <1>1 DEF Client!Gone, IInv, Ends
<1>3. /\ UNCHANGED <<ctl, status, offset, request, dtp, listener>>
      /\ Connected' => Connected
      /\ Connected <=> listener = "forked" /\ host = "up"
      /\ listener # "forked" => host = "up"
      /\ TypeOK
      /\ Ends' /\ OneConnection' /\ Wires'
  BY <1>1, <1>2, ClientFrame, Got
<1>4. Unforked'
  <2>1. listener = "failed" => Len(answers') = 0 /\ inbox' = <<>>
    BY <1>1, <1>3, Got DEF IInv, Unforked, Client!Gone
  <2>2. answers' \in Seq(Nat)
    BY <1>1, <1>3, Kinds, OneLess DEF Took, Junk
  <2>3. listener = "failed" => answers' = <<>>
    BY <2>1, <2>2, EmptySeq
  <2>4. QED
    BY <1>1, <1>3, <2>1, <2>3, Got DEF IInv, Unforked
<1>5. Connected' => Stands({"reading"}, <<>>, 1)
  BY <1>1, <1>3 DEF IInv, Dialogue
<1>6. Dialogue'
  BY <1>1, <1>3, <1>5, Got DEF Dialogue, Stands, Rests
<1>7. ModeFollows'
  BY <1>1, <1>3 DEF IInv, ModeFollows
<1>8. PositionFollows'
  BY <1>1, <1>2, <1>3 DEF IInv, PositionFollows
<1>9. QED
  BY <1>3, <1>4, <1>6, <1>7, <1>8 DEF Kept

\* What `get` and `put` issue the server may get.
LEMMA IssuedTransfer ==
    ASSUME NEW verb \in Client!Macros, NEW size \in Client!Sizes
    PROVE  Client!Transfer(verb, size) \in Seq(Issued)
<1>1. /\ [verb |-> "PASV", arg |-> "none"] \in Issued
      /\ \A x \in {"good", "wide"} : [verb |-> "REST", arg |-> x] \in Issued
      /\ Client!Request(IF verb = "put" THEN "STOR" ELSE "RETR") \in Issued
  BY DEF Issued
<1>2. /\ <<[verb |-> "PASV", arg |-> "none"]>> \in Seq(Issued)
      /\ size # "zero" => <<[verb |-> "REST", arg |-> size]>> \in Seq(Issued)
      /\ <<Client!Request(IF verb = "put" THEN "STOR" ELSE "RETR")>> \in Seq(Issued)
      /\ <<>> \in Seq(Issued)
  BY <1>1, EmptySeq DEF Client!Sizes
<1>3. (IF size = "zero" THEN <<>> ELSE <<[verb |-> "REST", arg |-> size]>>) \in Seq(Issued)
  BY <1>2
<1>4. QED
  BY <1>2, <1>3, ConcatProperties DEF Client!Transfer

\* A reply to a command that is no transfer: the mode and the position are agreed here.
LEMMA RepliedKept == IInv /\ Client!Replied /\ MainEffects => Kept' /\ Wires'
<1> SUFFICES ASSUME IInv, Client!Replied, MainEffects PROVE Kept' /\ Wires'
  OBVIOUS
<1> DEFINE Then(class) ==
       /\ mode' = IF command.verb \in {"PORT", "PASV"} /\ class = 2 THEN command.verb ELSE mode
       /\ accepting' = (accepting /\ (command.verb = "PORT" => class = 2))
       /\ position' = IF command.verb = "REST" THEN Client!Restart(class) ELSE position
       /\ script' \in Client!ScriptAfter(class)
<1>1. /\ main = "waiting" /\ main' = "prompt"
      /\ UNCHANGED child
  BY DEF Client!Replied, Client!childVars
<1>2. Client!GetMsg(Then)
  BY DEF Client!Replied
<1> HIDE DEF Then
<1>3. \/ Took /\ Then(Head(answers) \div 100)
      \/ Junk /\ \E class \in 0..9 : Then(class)
  BY <1>2 DEF Client!GetMsg, Took, Junk
<1> USE DEF Then
<1>4. PICK class : Then(class) /\ ((Took /\ class = Head(answers) \div 100) \/ Junk)
  BY <1>3
<1>5. /\ main \notin Client!Gone
      /\ child' = "none" /\ position = 0
  BY <1>1 DEF Client!Gone, IInv, Ends, PositionFollows
<1>6. script' \in Seq(Issued)
  <2>1. script \in Seq(Issued) /\ <<>> \in Seq(Issued)
    BY EmptySeq DEF IInv, Ends
  <2>2. \A size \in Client!Sizes : Client!Transfer("put", size) \in Seq(Issued)
    BY IssuedTransfer DEF Client!Macros
  <2>3. script' \in Client!ScriptAfter(class)
    BY <1>4
  <2>4. \/ \E size \in Client!Sizes : script' = Client!Transfer("put", size)
        \/ script' = script \/ script' = <<>>
    BY <2>3 DEF Client!ScriptAfter, Client!Sizes
  <2>5. QED
    BY <2>1, <2>2, <2>4
<1>7. Took \/ Junk
  BY <1>4
<1>8. /\ UNCHANGED <<ctl, status, offset, request, dtp, listener>>
      /\ Connected' => Connected
      /\ Connected <=> listener = "forked" /\ host = "up"
      /\ listener # "forked" => host = "up"
      /\ host = "up" <=> ctl # "exited"
      /\ ctl = "exited" => dtp = "none"
      /\ TypeOK
      /\ Ends' /\ OneConnection' /\ Wires'
  BY <1>1, <1>5, <1>6, <1>7, ClientFrame, Got
<1>9. listener = "forked"
  BY <1>1, <1>7, <1>8 DEF IInv, TypeOK, Unforked, Client!Gone, Took, Junk
<1>10. Unforked'
  BY <1>8, <1>9 DEF Unforked
<1>11. Connected => /\ Took /\ class = Head(answers) \div 100
                    /\ Stands({"reading"}, <<>>, 1)
  <2>1. Connected => Took /\ Len(answers) # 0
    BY <1>7, <1>8, Got
  <2>2. Connected => class = Head(answers) \div 100
    BY <1>4, <2>1 DEF Took, Junk
  <2>3. QED
    BY <1>1, <2>1, <2>2 DEF IInv, Dialogue, Asked, Hears, Stands
<1>12. Dialogue'
  BY <1>1, <1>7, <1>8, <1>11, Got DEF Dialogue, Stands, Rests
<1>13. ModeFollows'
  <2>1. ctl' = "opening" => status' \in {"PORT", "PASV"}
    BY <1>8 DEF IInv, ModeFollows
  <2>2. Connected => (status \in {"PORT", "PASV"} => status = mode')
    <3>1. Connected => answers # <<>>
      BY <1>11 DEF Took
    <3>2. QED
      BY <1>1, <1>4, <1>11, <3>1 DEF IInv, ModeFollows
  <2>3. QED
    BY <1>1, <1>8, <2>1, <2>2 DEF ModeFollows
<1>14. PositionFollows'
  <2>1. position' # 0 => /\ class = 3 /\ command.verb = "REST" /\ command.arg # "none"
                         /\ position' = Number[command.arg]
    BY <1>4, <1>5 DEF Client!Restart
  <2>2. Connected => /\ ctl = "reading" /\ dtp = "none"
                     /\ (position' # 0 => offset = Server!atoi(position'))
    <3>1. Connected => ctl = "reading" /\ answers # <<>>
      BY <1>11 DEF Stands, Took
    <3>2. Connected => dtp = "none"
      BY <3>1 DEF IInv, Server!IInv, Server!NothingLeft
    <3>3. QED
      BY <1>1, <1>11, <2>1, <3>1, <3>2 DEF IInv, PositionFollows
  <2>3. dtp = "none" /\ ctl # "opening"
    BY <1>8, <1>9, <2>2
  <2>4. QED
    BY <1>1, <1>8, <2>2, <2>3 DEF PositionFollows, Client!Gone
<1>15. QED
  BY <1>8, <1>10, <1>12, <1>13, <1>14 DEF Kept

\* The reply to QUIT, after which the client closes.
LEMMA QuitsKept == IInv /\ Client!Quits /\ MainEffects => Kept' /\ Wires'
<1> SUFFICES ASSUME IInv, Client!Quits, MainEffects PROVE Kept' /\ Wires'
  OBVIOUS
<1>1. main = "waiting" /\ (Took \/ Junk) /\ Client!Ends("exited")
  BY DEF Client!Quits, Client!GetMsg, Took, Junk
<1>2. main \notin Client!Gone /\ "exited" \in Client!Gone
  BY <1>1 DEF Client!Gone
<1>3. QED
  BY <1>1, <1>2, Got, ClientEndsKept

\* The first reply to a transfer: the client forks a child, or is back at the prompt.
LEMMA StartedKept == IInv /\ Client!Started /\ MainEffects => Kept' /\ Wires'
<1> SUFFICES ASSUME IInv, Client!Started, MainEffects PROVE Kept' /\ Wires'
  OBVIOUS
<1> DEFINE Then(class) ==
       \/ class = 1 /\ main' = "forked" /\ child' = "born"
          /\ UNCHANGED <<command, position, code, interrupts>>
       \/ class = 1 /\ main' = "result" /\ code' = 1
          /\ UNCHANGED <<command, position, child, interrupts>>
       \/ class # 1 /\ Client!Done /\ UNCHANGED child
<1>1. main = "starting" /\ UNCHANGED <<script, mode>>
  BY DEF Client!Started
<1>2. Client!GetMsg(Then)
  BY DEF Client!Started
<1> HIDE DEF Then
<1>3. \/ Took /\ Then(Head(answers) \div 100)
      \/ Junk /\ \E class \in 0..9 : Then(class)
  BY <1>2 DEF Client!GetMsg, Took, Junk
<1> USE DEF Then
<1>4. PICK class : Then(class) /\ ((Took /\ class = Head(answers) \div 100) \/ Junk)
  BY <1>3
<1>5. /\ main \notin Client!Gone /\ main' \in {"forked", "result", "prompt"}
      /\ child = "none"
      /\ main' = "prompt" => position' = 0 /\ class # 1
      /\ main' # "prompt" => position' = position /\ class = 1
      /\ main' # "forked" => child' = "none"
      /\ script' \in Seq(Issued) /\ (Took \/ Junk)
  BY <1>1, <1>4 DEF Client!Gone, IInv, Ends, Client!Done
<1>6. /\ UNCHANGED <<ctl, status, offset, request, dtp, listener>>
      /\ Connected' => Connected
      /\ Connected <=> listener = "forked" /\ host = "up"
      /\ listener # "forked" => host = "up"
      /\ TypeOK
      /\ Ends' /\ OneConnection' /\ Wires'
  BY <1>1, <1>5, ClientFrame, Got
<1>7. listener = "forked"
  BY <1>1, <1>5, <1>6 DEF IInv, TypeOK, Unforked, Client!Gone, Took, Junk
<1>8. Unforked'
  BY <1>6, <1>7 DEF Unforked
<1>9. Connected => /\ Took /\ class = Head(answers) \div 100
                   /\ Len(answers) # 0
                   /\ Len(answers) = 1 => Len(answers') = 0
                   /\ Len(answers) = 2 => Len(answers') = 1
                   /\ inbox' = inbox
  BY <1>4, <1>5, <1>6, Got DEF Took, Junk
<1>10. Connected => \/ Stands({"reading"}, <<>>, 1) /\ class # 1
                    \/ class = 1 /\ (Stands(Works, <<>>, 1) \/ Stands(Rests, <<>>, 2))
  <2>1. 150 \div 100 = 1
    OBVIOUS
  <2>2. QED
    BY <1>1, <1>9, <2>1 DEF IInv, Dialogue, Asked, Hears, Stands
<1>11. Dialogue'
  BY <1>5, <1>6, <1>9, <1>10 DEF Dialogue, Stands, Rests
<1>12. ModeFollows'
  BY <1>1, <1>5, <1>6 DEF IInv, ModeFollows
<1>13. PositionFollows'
  BY <1>1, <1>5, <1>6 DEF IInv, PositionFollows, Client!Gone
<1>14. QED
  BY <1>6, <1>8, <1>11, <1>12, <1>13 DEF Kept

\* The second reply to a transfer.
LEMMA ResultKept == IInv /\ Client!Result /\ MainEffects => Kept' /\ Wires'
<1> SUFFICES ASSUME IInv, Client!Result, MainEffects PROVE Kept' /\ Wires'
  OBVIOUS
<1>1. /\ main = "result" /\ main' = "prompt" /\ position' = 0
      /\ (Took \/ Junk)
      /\ UNCHANGED <<script, mode, child>>
  BY DEF Client!Result, Client!GetMsg, Client!Done, Took, Junk
<1>2. main \notin Client!Gone /\ child' = "none" /\ script' \in Seq(Issued)
  BY <1>1 DEF Client!Gone, IInv, Ends
<1>3. /\ UNCHANGED <<ctl, status, offset, request, dtp, listener>>
      /\ Connected' => Connected
      /\ Connected <=> listener = "forked" /\ host = "up"
      /\ TypeOK
      /\ Ends' /\ OneConnection' /\ Wires'
  BY <1>1, <1>2, ClientFrame, Got
<1>4. Unforked'
  <2>1. listener = "forked"
    BY <1>1 DEF IInv, Unforked, TypeOK, Client!Gone
  <2>2. QED
    BY <1>3, <2>1 DEF Unforked
<1>5. Connected => /\ Len(answers) # 0
                   /\ Len(answers) = 1 => Len(answers') = 0
                   /\ inbox' = inbox
  BY <1>1, <1>3, Got
<1>6. Connected => Stands(Rests, <<>>, 1)
  BY <1>1, <1>5 DEF IInv, Dialogue, Stands, Hears
<1>7. Dialogue'
  BY <1>1, <1>3, <1>5, <1>6 DEF Dialogue, Stands
<1>8. ModeFollows'
  BY <1>1, <1>3 DEF IInv, ModeFollows
<1>9. PositionFollows'
  BY <1>1, <1>2, <1>3 DEF IInv, PositionFollows, Client!Gone
<1>10. QED
  BY <1>3, <1>4, <1>7, <1>8, <1>9 DEF Kept

\* The first reply after ABOR, with a child that waits for the verdict or has ended.
LEMMA AborAnsweredKept == IInv /\ Client!AborAnswered /\ MainEffects => Kept' /\ Wires'
<1> SUFFICES ASSUME IInv, Client!AborAnswered, MainEffects PROVE Kept' /\ Wires'
  OBVIOUS
<1> DEFINE Then(class) ==
       IF child = "dead"
       THEN main' = "killed" /\ UNCHANGED verdict
       ELSE main' = "transfer" /\ verdict' = Append(verdict, IF class = 4 THEN 0 ELSE 1)
<1>1. main = "abor" /\ UNCHANGED <<command, script, mode, position, child>>
  BY DEF Client!AborAnswered
<1>2. Client!GetMsg(Then)
  BY DEF Client!AborAnswered
<1> HIDE DEF Then
<1>3. /\ Took \/ Junk
      /\ \E class : Then(class)
  BY <1>2 DEF Client!GetMsg, Took, Junk
<1> USE DEF Then
<1>4. main' = IF child = "dead" THEN "killed" ELSE "transfer"
  BY <1>3
<1>5. main \notin Client!Gone /\ script' \in Seq(Issued)
  BY <1>1 DEF Client!Gone, IInv, Ends
<1>6. /\ UNCHANGED <<ctl, status, offset, request, dtp, listener>>
      /\ Connected' => Connected
      /\ Connected <=> listener = "forked" /\ host = "up"
      /\ TypeOK
      /\ Ends' /\ OneConnection' /\ Wires'
  BY <1>1, <1>3, <1>4, <1>5, ClientFrame, Got
<1>7. Unforked'
  <2>1. listener = "forked"
    BY <1>1 DEF IInv, Unforked, TypeOK, Client!Gone
  <2>2. QED
    BY <1>6, <2>1 DEF Unforked
<1>8. Connected => /\ Len(answers) # 0
                   /\ Len(answers) = 1 => Len(answers') = 0
                   /\ Len(answers) = 2 => Len(answers') = 1
                   /\ inbox' = inbox
  BY <1>3, <1>6, Got
<1>9. Dialogue'
  <2>1. CASE main' = "killed"
    BY <2>1 DEF Dialogue, Connected, Client!Gone
  <2>2. CASE main' = "transfer"
    <3>1. Connected => \/ Stands({"aborting"}, <<>>, 1)
                       \/ Stands(Rests, <<>>, 2)
                       \/ Stands(Rests, <<Abor>>, 1)
                       \/ Hears(Abor, <<>>, 1)
      BY <1>1, <1>8 DEF IInv, Dialogue, Stands, Hears
    <3>2. QED
      BY <1>6, <1>8, <2>2, <3>1 DEF Dialogue, Stands, Hears
  <2>3. QED
    BY <1>4, <2>1, <2>2
<1>10. ModeFollows'
  BY <1>1, <1>4, <1>6 DEF IInv, ModeFollows
<1>11. PositionFollows'
  BY <1>1, <1>4, <1>6 DEF IInv, PositionFollows, Client!Gone
<1>12. QED
  BY <1>6, <1>7, <1>9, <1>10, <1>11 DEF Kept

\* The client gives up.
LEMMA GetMsgFailsKept ==
    IInv /\ (Client!GetMsgFails \/ Client!Exits) /\ MainEffects => Kept' /\ Wires'
<1> SUFFICES ASSUME IInv, Client!GetMsgFails \/ Client!Exits, MainEffects PROVE Kept' /\ Wires'
  OBVIOUS
<1>1. /\ main \in {"greeting", "waiting", "starting", "abor", "result", "exiting"}
      /\ UNCHANGED <<inbox, answers, host>>
  BY DEF Client!GetMsgFails, Client!Exits, Client!wireVars
<1>2. main \notin Client!Gone /\ "exited" \in Client!Gone
  BY <1>1 DEF Client!Gone
<1>3. CASE Client!Ends("exited")
  BY <1>1, <1>2, <1>3, ClientEndsKept
<1>4. CASE ~Client!Ends("exited")
  <2>1. /\ child \notin {"none", "dead"} /\ main' = "exiting"
        /\ main \in {"greeting", "waiting", "starting", "abor", "result"}
        /\ UNCHANGED <<command, script, mode, position, child>>
    BY <1>4 DEF Client!GetMsgFails, Client!Exits
  <2>2. main = "abor" /\ inbox' \in Seq(Requests) /\ script' \in Seq(Issued)
    BY <1>1, <2>1 DEF IInv, Ends
  <2>3. /\ UNCHANGED <<ctl, status, offset, request, dtp, listener>>
        /\ Connected' => Connected
        /\ Ends' /\ OneConnection' /\ Wires'
    BY <1>1, <1>2, <2>1, <2>2, ClientFrame
  <2>4. Unforked'
    <3>1. listener = "forked"
      BY <2>2 DEF IInv, Unforked, TypeOK, Client!Gone
    <3>2. QED
      BY <2>3, <3>1 DEF Unforked
  <2>5. Dialogue'
    BY <1>1, <2>1, <2>2, <2>3 DEF IInv, Dialogue, Stands, Hears
  <2>6. ModeFollows'
    BY <2>1, <2>2, <2>3 DEF IInv, ModeFollows
  <2>7. PositionFollows'
    BY <1>2, <2>1, <2>2, <2>3 DEF IInv, PositionFollows, Client!Gone
  <2>8. QED
    BY <2>3, <2>4, <2>5, <2>6, <2>7 DEF Kept
<1>5. QED
  BY <1>3, <1>4

\* The child is waited for.
LEMMA WaitedKept == IInv /\ (Client!Watches \/ Client!Waited) /\ MainEffects => Kept' /\ Wires'
<1> SUFFICES ASSUME IInv, Client!Watches \/ Client!Waited, MainEffects PROVE Kept' /\ Wires'
  OBVIOUS
<1>1. /\ UNCHANGED <<command, script, mode, position, inbox, answers, host>>
      /\ \/ main = "forked" /\ main' = "transfer"
         \/ main = "transfer" /\ main' = "result" /\ child' = "none"
  BY DEF Client!Watches, Client!Waited, Client!wireVars
<1>2. main \notin Client!Gone /\ inbox' \in Seq(Requests) /\ script' \in Seq(Issued)
  BY <1>1 DEF IInv, Ends, Client!Gone
<1>3. /\ UNCHANGED <<ctl, status, offset, request, dtp, listener>>
      /\ Connected' => Connected
      /\ Ends' /\ OneConnection' /\ Wires'
  BY <1>1, <1>2, ClientFrame
<1>4. Unforked'
  <2>1. listener = "forked"
    BY <1>1 DEF IInv, Unforked, TypeOK, Client!Gone
  <2>2. QED
    BY <1>3, <2>1 DEF Unforked
<1>5. Dialogue'
  BY <1>1, <1>3 DEF IInv, Dialogue, Stands, Hears
<1>6. ModeFollows'
  BY <1>1, <1>3 DEF IInv, ModeFollows
<1>7. PositionFollows'
  BY <1>1, <1>2, <1>3 DEF IInv, PositionFollows, Client!Gone
<1>8. QED
  BY <1>3, <1>4, <1>5, <1>6, <1>7 DEF Kept

\* All that the main process of the client does of itself.
LEMMA MainKept == IInv /\ MainStep => Kept' /\ Wires'
  BY GetMsgFailsKept, GreetingKept, RepliedKept, QuitsKept, StartedKept, WaitedKept,
     ResultKept, AborAnsweredKept DEF MainStep, Client!Main

\* What is sent is added to what the server has not read.
LEMMA Sent ==
    ASSUME IInv, NEW line \in Requests, NEW next, Client!SendMsg(line, next), host # "broken"
    PROVE  /\ main' = next
           /\ inbox' \in Seq(Requests)
           /\ host' = "up" <=> host = "up"
           /\ host = "up" => /\ inbox = <<>> => inbox' = <<line>>
                             /\ inbox = <<Abor>> => inbox' = <<Abor, line>>
<1>1. inbox \in Seq(Requests) /\ host \in {"up", "fin", "reset", "broken"}
  BY DEF IInv, Ends, TypeOK, Client!TypeOK
<1>2. main' = next /\ inbox' = IF host = "up" THEN Append(inbox, line) ELSE inbox
  BY DEF Client!SendMsg
<1>3. host' = "up" <=> host = "up"
  BY <1>1 DEF Client!SendMsg
<1>4. Append(inbox, line) \in Seq(Requests)
  BY <1>1, AppendProperties
<1>5. Append(<<>>, line) = <<line>> /\ Append(<<Abor>>, line) = <<Abor, line>>
  <2>1. Abor \in Requests
    BY AlphabetAssumption
  <2>2. /\ <<>> \in Seq(Requests) /\ <<Abor>> \in Seq(Requests)
        /\ <<line>> \in Seq(Requests) /\ <<Abor, line>> \in Seq(Requests)
    BY <2>1, EmptySeq
  <2>3. PICK s, t : s = Append(<<>>, line) /\ t = Append(<<Abor>>, line)
    OBVIOUS
  <2>4. /\ s \in Seq(Requests) /\ Len(s) = 1 /\ s[1] = line
        /\ t \in Seq(Requests) /\ Len(t) = 2 /\ t[1] = Abor /\ t[2] = line
    BY <2>2, <2>3, AppendProperties
  <2>5. s = <<line>>
    BY <2>2, <2>4, SeqEqual
  <2>6. t = <<Abor, line>>
    BY <2>2, <2>4, SeqEqual
  <2>7. QED
    BY <2>3, <2>5, <2>6
<1>6. QED
  BY <1>1, <1>2, <1>3, <1>4, <1>5

\* The user's command is one the server may get.
LEMMA Input ==
    ASSUME IInv, NEW r \in IF script = <<>> THEN Inputs ELSE {Head(script)}
    PROVE  /\ r \in Client!Typed
           /\ r.verb \in Client!Simple \cup Client!Transfers \cup {"PASV"} => r \in Requests
           /\ r.verb = "PORT" => [r EXCEPT !.arg = "good"] \in Requests
           /\ script # <<>> => Tail(script) \in Seq(Issued)
<1>1. script \in Seq(Issued)
  BY DEF IInv, Ends
<1>2. CASE script = <<>>
  <2>1. r \in Inputs
    BY <1>2
  <2>2. r \in Client!Typed
    BY <2>1, TransferAssumption
  <2>3. /\ r.verb \in Client!Simple \cup Client!Transfers \cup {"PASV"} => r \in Requests
        /\ r.verb = "PORT" => [r EXCEPT !.arg = "good"] \in Requests
    <3>1. \A x \in Inputs :
             /\ x.verb \in Client!Simple \cup Client!Transfers \cup {"PASV"} => x \in Requests
             /\ x.verb = "PORT" => [x EXCEPT !.arg = "good"] \in Requests
      BY AlphabetAssumption
    <3>2. QED
      BY <2>1, <3>1
  <2>4. QED
    BY <1>2, <2>2, <2>3, Zenon
<1>3. CASE script # <<>>
  <2>1. r \in Issued /\ Tail(script) \in Seq(Issued)
    BY <1>1, <1>3, HeadTailProperties
  <2>2. \A x \in Issued : x \in Requests /\ x.verb # "PORT" /\ x \in Client!Typed
    BY AlphabetAssumption DEF Issued, Client!Request, Client!Typed, Client!Simple, Client!Transfers
  <2>3. QED
    BY <2>1, <2>2
<1>4. QED
  BY <1>2, <1>3

\* What a command leaves alone, and where it stands.
LEMMA PromptKept ==
    ASSUME IInv, MainEffects, main = "prompt", UNCHANGED child,
           script' \in Seq(Issued), inbox' \in Seq(Requests),
           UNCHANGED <<mode, answers>>,
           host' = "up" <=> host = "up",
           position' \in {0, position},
           \/ /\ main' = "prompt" /\ inbox' = inbox /\ position' = 0
           \/ /\ main' = "waiting" /\ position' = 0
              /\ command'.verb \in Client!Simple \cup {"PORT", "PASV"}
           \/ /\ main' = "starting"
              /\ command'.verb \in Client!Transfers
              /\ command'.verb = "LIST" => position' = 0,
           main' # "prompt" /\ host = "up" /\ inbox = <<>> => inbox' = <<Line'>>
    PROVE  Kept' /\ Wires'
<1>1. main \notin Client!Gone /\ child' = "none"
  BY DEF Client!Gone, IInv, Ends
<1>2. /\ UNCHANGED <<ctl, status, offset, request, dtp, listener>>
      /\ Connected' => Connected
      /\ Connected <=> listener = "forked" /\ host = "up"
      /\ TypeOK
      /\ Ends' /\ OneConnection' /\ Wires'
  BY <1>1, ClientFrame
<1>3. Unforked'
  <2>1. listener # "accepting"
    BY DEF IInv, Unforked
  <2>2. listener = "failed" => inbox = <<>> /\ answers = <<>>
    BY DEF IInv, Unforked, Client!Gone
  <2>3. QED
    BY <1>2, <2>1, <2>2 DEF IInv, Unforked
<1>4. Connected => Stands(Rests, <<>>, 0) /\ (status \in {"PORT", "PASV"} => status = mode)
  BY DEF IInv, Dialogue, ModeFollows
<1>5. Connected' /\ main' # "prompt" => Asked'
  BY <1>2, <1>4 DEF Asked, Stands
<1>6. Dialogue'
  BY <1>2, <1>4, <1>5 DEF Dialogue, Stands
<1>7. ModeFollows'
  <2>1. Connected => answers = <<>>
    BY <1>2, <1>4, OneLess DEF Stands
  <2>2. ctl = "opening" => status \in {"PORT", "PASV"}
    BY DEF IInv, ModeFollows
  <2>3. QED
    BY <1>2, <1>4, <2>1, <2>2 DEF ModeFollows
<1>8. PositionFollows'
  <2>1. Connected => answers = <<>>
    BY <1>2, <1>4, OneLess DEF Stands
  <2>2. position' \in {0, position}
    OBVIOUS
  <2>3. Connected /\ position # 0 => offset = Server!atoi(position) /\ ctl = "reading"
    BY DEF IInv, PositionFollows
  <2>4. position # 0 /\ (ctl = "opening" \/ dtp \in {"opening", "moving"})
           => offset = Server!atoi(position)
    BY <1>1 DEF IInv, PositionFollows
  <2>5. dtp = "moving" => offset >= 0
    BY DEF IInv, PositionFollows
  <2>6. main' \notin Client!Gone
    BY DEF Client!Gone
  <2>7. QED
    BY <1>2, <2>1, <2>2, <2>3, <2>4, <2>5, <2>6 DEF PositionFollows
<1>9. QED
  BY <1>2, <1>3, <1>6, <1>7, <1>8 DEF Kept

\* A command is sent only when nothing else is on the way.
LEMMA InputKept == IInv /\ Client!Input /\ MainEffects => Kept' /\ Wires'
<1> SUFFICES ASSUME IInv, Client!Input, MainEffects PROVE Kept' /\ Wires'
  OBVIOUS
<1>1. CASE Client!SendKills
  <2>1. /\ main = "prompt" /\ Client!Ends("killed")
        /\ UNCHANGED <<inbox, answers, host>>
    BY <1>1 DEF Client!SendKills, Client!wireVars
  <2>2. listener # "accepting"
    BY <2>1 DEF IInv, Unforked
  <2>3. main \notin Client!Gone /\ "killed" \in Client!Gone
    BY <2>1 DEF Client!Gone
  <2>4. QED
    BY <2>1, <2>2, <2>3, ClientEndsKept
<1>2. CASE ~Client!SendKills
  <2>1. PICK r \in IF script = <<>> THEN Inputs ELSE {Head(script)} :
           \/ Client!Ask(r) \/ Client!AskPort(r) \/ Client!PortInUse(r) \/ Client!AskPasv(r)
           \/ Client!Rejects(r) \/ Client!Macro(r)
    BY <1>2 DEF Client!Input
  <2>2. /\ r \in Client!Typed
        /\ r.verb \in Client!Simple \cup Client!Transfers \cup {"PASV"} => r \in Requests
        /\ r.verb = "PORT" => [r EXCEPT !.arg = "good"] \in Requests
        /\ script # <<>> => Tail(script) \in Seq(Issued)
    BY <2>1, Input
  <2>3. script \in Seq(Issued) /\ inbox \in Seq(Requests)
    BY DEF IInv, Ends, TypeOK, Client!TypeOK
  <2>4. /\ main = "prompt"
        /\ UNCHANGED <<mode, child, answers>>
    BY <2>1 DEF Client!Ask, Client!AskPort, Client!PortInUse, Client!AskPasv,
       Client!Rejects, Client!Macro, Client!Takes, Client!childVars, Client!wireVars
  <2>5. ASSUME Client!Takes(r)
        PROVE  /\ script' \in Seq(Issued)
               /\ position' = IF r.verb \in {"RETR", "STOR"} THEN position ELSE 0
    BY <2>2, <2>3, <2>5 DEF Client!Takes, Client!PositionFor
  <2>6. ASSUME NEW line \in Requests, NEW next \in {"waiting", "starting"},
               command' = r, Line' = line, Client!Takes(r), host # "broken",
               Client!SendMsg(line, next),
               IF next = "waiting" THEN r.verb \in Client!Simple \cup {"PORT", "PASV"}
               ELSE r.verb \in Client!Transfers
        PROVE  Kept' /\ Wires'
    <3>1. /\ main' = next
          /\ inbox' \in Seq(Requests)
          /\ host' = "up" <=> host = "up"
          /\ host = "up" => (inbox = <<>> => inbox' = <<line>>)
      BY <2>6, Sent
    <3>2. r.verb \notin {"RETR", "STOR"} => position' = 0
      BY <2>5, <2>6
    <3>3. position' \in {0, position}
      BY <2>5, <2>6
    <3>4. script' \in Seq(Issued)
      BY <2>5, <2>6
    <3>5. \/ /\ main' = "waiting" /\ position' = 0
             /\ command'.verb \in Client!Simple \cup {"PORT", "PASV"}
          \/ /\ main' = "starting"
             /\ command'.verb \in Client!Transfers
             /\ command'.verb = "LIST" => position' = 0
      BY <2>6, <3>1, <3>2 DEF Client!Simple
    <3>6. host = "up" /\ inbox = <<>> => inbox' = <<Line'>>
      BY <2>6, <3>1
    <3>7. QED
      BY <2>4, <3>1, <3>3, <3>4, <3>5, <3>6, PromptKept
  <2>7. CASE Client!Ask(r)
    <3>1. /\ r.verb \in Client!Simple \cup Client!Transfers /\ r \in Requests
          /\ Client!Takes(r) /\ host # "broken" /\ command' = r
          /\ Client!SendMsg(r, IF r.verb \in Client!Transfers THEN "starting" ELSE "waiting")
      BY <2>2, <2>7 DEF Client!Ask
    <3>2. Line' = r
      BY <3>1 DEF Line, Client!Simple, Client!Transfers
    <3>3. QED
      BY <2>6, <3>1, <3>2
  <2>8. CASE Client!AskPort(r)
    <3>1. /\ r.verb = "PORT" /\ Client!Takes(r) /\ host # "broken" /\ command' = r
          /\ Client!SendMsg([r EXCEPT !.arg = "good"], "waiting")
      BY <2>8 DEF Client!AskPort
    <3>2. Line' = [r EXCEPT !.arg = "good"]
      BY <3>1 DEF Line
    <3>3. QED
      BY <2>2, <2>6, <3>1, <3>2
  <2>9. CASE Client!AskPasv(r)
    <3>1. /\ r.verb = "PASV" /\ Client!Takes(r) /\ host # "broken" /\ command' = r
          /\ Client!SendMsg(r, "waiting")
      BY <2>9 DEF Client!AskPasv
    <3>2. Line' = r
      BY <3>1 DEF Line
    <3>3. QED
      BY <2>2, <2>6, <3>1, <3>2
  <2>10. CASE Client!PortInUse(r) \/ Client!Rejects(r)
    <3>1. /\ r.verb \notin {"RETR", "STOR"} /\ Client!Takes(r)
          /\ UNCHANGED <<main, inbox, answers, host>>
      BY <2>10 DEF Client!PortInUse, Client!Rejects, Client!Macros, Client!wireVars
    <3>2. script' \in Seq(Issued) /\ position' = 0
      BY <2>5, <3>1
    <3>3. QED
      BY <2>3, <2>4, <3>1, <3>2, PromptKept
  <2>11. CASE Client!Macro(r)
    <3>1. /\ r.verb \in Client!Macros /\ position' = 0
          /\ UNCHANGED <<main, inbox, answers, host>>
      BY <2>11 DEF Client!Macro, Client!wireVars
    <3>2. PICK size \in Client!Sizes :
             script' = <<Client!Request("SIZE")>> \o Client!Transfer(r.verb, size)
      BY <2>11 DEF Client!Macro, Client!Sizes
    <3>3. script' \in Seq(Issued)
      <4>1. <<Client!Request("SIZE")>> \in Seq(Issued)
        BY DEF Issued
      <4>2. Client!Transfer(r.verb, size) \in Seq(Issued)
        BY <3>1, IssuedTransfer
      <4>3. QED
        BY <3>2, <4>1, <4>2, ConcatProperties
    <3>4. QED
      BY <2>3, <2>4, <3>1, <3>3, PromptKept
  <2>12. QED
    BY <2>1, <2>7, <2>8, <2>9, <2>10, <2>11
<1>3. QED
  BY <1>1, <1>2

\* ^C where it is not handled kills the client.
LEMMA InterruptKillsKept == IInv /\ Client!InterruptKills /\ MainEffects => Kept' /\ Wires'
<1> SUFFICES ASSUME IInv, Client!InterruptKills, MainEffects PROVE Kept' /\ Wires'
  OBVIOUS
<1>1. UNCHANGED <<inbox, answers, host>>
  BY DEF Client!InterruptKills, Client!wireVars
<1>2. main \in {"greeting", "prompt", "waiting", "starting", "result", "forked"}
  BY DEF Client!InterruptKills
<1>3. main \notin Client!Gone /\ "killed" \in Client!Gone
  BY <1>2 DEF Client!Gone
<1>4. CASE Client!Ends("killed")
  BY <1>1, <1>3, <1>4, ClientEndsKept
<1>5. CASE ~Client!Ends("killed")
  <2>1. /\ main = "forked" /\ main' = "killed"
        /\ child' \in {"dead", child}
        /\ UNCHANGED <<command, script, mode, position>>
    BY <1>5 DEF Client!InterruptKills, Client!Dies
  <2>2. inbox' \in Seq(Requests) /\ script' \in Seq(Issued)
    BY <1>1, <2>1 DEF IInv, Ends
  <2>3. /\ UNCHANGED <<ctl, status, offset, request, dtp, listener>>
        /\ Connected <=> listener = "forked" /\ host = "up"
        /\ host = "up" <=> ctl # "exited"
        /\ Ends' /\ OneConnection' /\ Wires'
    BY <1>1, <1>3, <2>1, <2>2, ClientFrame
  <2>4. listener = "forked"
    BY <2>1 DEF IInv, Unforked, TypeOK, Client!Gone
  <2>5. ~Connected'
    BY <2>1 DEF Connected, Client!Gone
  <2>6. ctl = "exited" \/ (inbox = <<>> /\ ctl # "handling")
    BY <2>1, <2>3, <2>4 DEF IInv, Dialogue, Stands, Rests, Works
  <2>7. PositionFollows'
    BY <1>1, <1>3, <2>1, <2>3, <2>5, <2>6 DEF IInv, PositionFollows
  <2>8. Unforked'
    BY <2>3, <2>4 DEF Unforked
  <2>9. Dialogue' /\ ModeFollows'
    BY <2>3, <2>5 DEF IInv, Dialogue, ModeFollows
  <2>10. QED
    BY <2>3, <2>7, <2>8, <2>9 DEF Kept
<1>6. QED
  BY <1>4, <1>5

\* ^C during a transfer sends ABOR to a server that transfers, or has sent its result.
LEMMA InterruptKept == IInv /\ Client!Interrupt /\ MainEffects => Kept' /\ Wires'
<1> SUFFICES ASSUME IInv, Client!Interrupt, MainEffects PROVE Kept' /\ Wires'
  OBVIOUS
<1>1. /\ main = "transfer"
      /\ UNCHANGED <<command, script, mode, position, answers>>
  BY DEF Client!Interrupt
<1>2. /\ main \notin Client!Gone /\ listener = "forked"
      /\ inbox \in Seq(Requests) /\ script' \in Seq(Issued)
  BY <1>1 DEF Client!Gone, IInv, TypeOK, Unforked, Ends
<1>3. \/ host = "broken" /\ main' = "killed" /\ UNCHANGED <<inbox, host>>
      \/ host # "broken" /\ Client!SendMsg(Abor, "abor")
  BY DEF Client!Interrupt, Abor
<1>4. Abor \in Requests
  BY AlphabetAssumption
<1>5. /\ main' \in {"killed", "abor"} /\ inbox' \in Seq(Requests)
      /\ host' = "up" <=> host = "up"
      /\ host = "up" => /\ main' = "abor"
                        /\ inbox = <<>> => inbox' = <<Abor>>
                        /\ inbox = <<Abor>> => inbox' = <<Abor, Abor>>
      /\ main' = "killed" => host # "up"
  BY <1>2, <1>3, <1>4, Sent
<1>6. /\ UNCHANGED <<ctl, status, offset, request, dtp, listener>>
      /\ Connected' => Connected
      /\ Connected <=> listener = "forked" /\ host = "up"
      /\ host = "up" <=> ctl # "exited"
      /\ Ends' /\ OneConnection' /\ Wires'
  BY <1>2, <1>5, ClientFrame
<1>7. Unforked'
  BY <1>2, <1>6 DEF Unforked
<1>8. Dialogue'
  <2>1. Connected' => main' = "abor"
    BY <1>5, <1>6
  <2>2. Connected => \/ Stands(Works \cup {"aborting"}, <<>>, 0)
                     \/ Stands(Rests, <<>>, 1)
                     \/ Stands(Rests, <<Abor>>, 0)
                     \/ Hears(Abor, <<>>, 0)
    BY <1>1 DEF IInv, Dialogue
  <2>3. QED
    BY <1>1, <1>5, <1>6, <2>1, <2>2 DEF Dialogue, Stands, Hears
<1>9. ModeFollows'
  BY <1>1, <1>5, <1>6 DEF IInv, ModeFollows
<1>10. PositionFollows'
  BY <1>1, <1>2, <1>5, <1>6 DEF IInv, PositionFollows, Client!Gone
<1>11. QED
  BY <1>6, <1>7, <1>8, <1>9, <1>10 DEF Kept

\* ^C after the child has ended sends ABOR just the same.
LEMMA InterruptLateKept == IInv /\ Client!InterruptLate /\ MainEffects => Kept' /\ Wires'
<1> SUFFICES ASSUME IInv, Client!InterruptLate, MainEffects PROVE Kept' /\ Wires'
  OBVIOUS
<1>1. /\ main = "transfer"
      /\ UNCHANGED <<main, command, script, mode, position, inbox, answers, host>>
  BY DEF Client!InterruptLate, Client!mainVars, Client!wireVars
<1>2. /\ main \notin Client!Gone /\ listener = "forked"
      /\ inbox' \in Seq(Requests) /\ script' \in Seq(Issued)
  BY <1>1 DEF Client!Gone, IInv, TypeOK, Unforked, Ends
<1>3. /\ UNCHANGED <<ctl, status, offset, request, dtp, listener>>
      /\ Connected' => Connected
      /\ Ends' /\ OneConnection' /\ Wires'
  BY <1>1, <1>2, ClientFrame
<1>4. Unforked'
  BY <1>2, <1>3 DEF Unforked
<1>5. Dialogue'
  BY <1>1, <1>3 DEF IInv, Dialogue, Stands, Hears
<1>6. ModeFollows'
  BY <1>1, <1>3 DEF IInv, ModeFollows
<1>7. PositionFollows'
  BY <1>1, <1>2, <1>3 DEF IInv, PositionFollows, Client!Gone
<1>8. QED
  BY <1>3, <1>4, <1>5, <1>6, <1>7 DEF Kept

\* All that the user does.
LEMMA UserKept == IInv /\ UserStep => Kept' /\ Wires'
  BY InputKept, InterruptKillsKept, InterruptKept, InterruptLateKept DEF UserStep, Client!User

-----------------------------------------------------------------------------
(* Each step is one of each component, or of the environment it assumes *)

\* A line is sent to a server that has room for it, by a process that goes on.
SendsLine ==
    /\ main \notin Client!Gone /\ main' \notin Client!Gone
    /\ Len(inbox) < MaxInbox
    /\ \E line \in Requests : inbox' = Append(inbox, line)

\* The main process sends nothing of itself;
LEMMA MainReads == IInv /\ MainStep => inbox' = inbox
<1> SUFFICES ASSUME IInv, MainStep PROVE inbox' = inbox
  OBVIOUS
<1>1. CASE Client!Greeting \/ Client!Replied \/ Client!Quits \/ Client!Started
           \/ Client!Result \/ Client!AborAnswered
  BY <1>1 DEF Client!Greeting, Client!Replied, Client!Quits, Client!Started, Client!Result,
     Client!AborAnswered, Client!GetMsg
<1>2. CASE Client!GetMsgFails \/ Client!Exits \/ Client!Watches \/ Client!Waited
  BY <1>2 DEF Client!GetMsgFails, Client!Exits, Client!Watches, Client!Waited, Client!wireVars
<1>3. QED
  BY <1>1, <1>2 DEF MainStep, Client!Main

\* what the user makes it send is one line, to a server that is there or not.
LEMMA UserSends == IInv /\ UserStep => inbox' = inbox \/ SendsLine
<1> SUFFICES ASSUME IInv, UserStep PROVE inbox' = inbox \/ SendsLine
  OBVIOUS
<1>1. MaxInbox \in Nat /\ MaxInbox >= 2
  BY TransferAssumption, AlphabetAssumption
<1>2. Len(<<>>) = 0 /\ Len(<<Abor>>) = 1
  BY Lines
<1>3. CASE Client!Input
  <2>1. CASE Client!SendKills
    BY <2>1 DEF Client!SendKills, Client!wireVars
  <2>2. CASE ~Client!SendKills
    <3>1. PICK r \in IF script = <<>> THEN Inputs ELSE {Head(script)} :
             \/ Client!Ask(r) \/ Client!AskPort(r) \/ Client!PortInUse(r) \/ Client!AskPasv(r)
             \/ Client!Rejects(r) \/ Client!Macro(r)
      BY <1>3, <2>2 DEF Client!Input
    <3>2. \/ UNCHANGED inbox
          \/ \E line \in Requests, next \in {"waiting", "starting"} :
                main = "prompt" /\ Client!SendMsg(line, next)
      <4>1. CASE Client!Ask(r)
        BY <3>1, <4>1, Input DEF Client!Ask, Client!Takes
      <4>2. CASE Client!AskPort(r)
        BY <3>1, <4>2, Input DEF Client!AskPort, Client!Takes
      <4>3. CASE Client!AskPasv(r)
        BY <3>1, <4>3, Input DEF Client!AskPasv, Client!Takes
      <4>4. CASE Client!PortInUse(r) \/ Client!Rejects(r) \/ Client!Macro(r)
        BY <4>4 DEF Client!PortInUse, Client!Rejects, Client!Macro, Client!wireVars
      <4>5. QED
        BY <3>1, <4>1, <4>2, <4>3, <4>4
    <3>3. main = "prompt" /\ host = "up" => inbox = <<>>
      BY DEF IInv, TypeOK, Dialogue, Connected, Stands, Unforked, Client!Gone
    <3>4. QED
      BY <1>1, <1>2, <3>2, <3>3 DEF SendsLine, Client!SendMsg, Client!Gone
  <2>3. QED
    BY <2>1, <2>2
<1>4. CASE Client!Interrupt
  <2>1. main = "transfer" /\ (inbox' = inbox \/ Client!SendMsg(Abor, "abor"))
    BY <1>4 DEF Client!Interrupt, Abor
  <2>2. Abor \in Requests
    BY AlphabetAssumption
  <2>3. host = "up" => inbox \in {<<>>, <<Abor>>}
    BY <2>1 DEF IInv, TypeOK, Dialogue, Connected, Stands, Hears, Unforked, Client!Gone
  <2>4. QED
    BY <1>1, <1>2, <2>1, <2>2, <2>3 DEF SendsLine, Client!SendMsg, Client!Gone
<1>5. CASE Client!InterruptKills \/ Client!InterruptLate
  BY <1>5 DEF Client!InterruptKills, Client!InterruptLate, Client!wireVars
<1>6. QED
  BY <1>3, <1>4, <1>5 DEF UserStep, Client!User

\* The client does nothing that the server does not expect of one,
LEMMA ClientMeets ==
    IInv /\ (MainStep \/ UserStep \/ ChildStep)
    => [Client!Next]_Client!vars /\ [Server!Next]_Server!vars
<1> SUFFICES ASSUME IInv, MainStep \/ UserStep \/ ChildStep
             PROVE  [Client!Next]_Client!vars /\ [Server!Next]_Server!vars
  OBVIOUS
<1>1. [Client!Next]_Client!vars
  <2>1. CASE MainStep \/ UserStep
    BY <2>1 DEF MainStep, UserStep, Client!Next
  <2>2. CASE ChildStep
    <3>1. Client!Child \/ UNCHANGED Client!vars
      BY <2>2 DEF ChildStep, ChildConnects, ChildCannotConnect, ChildReceives, ChildSends,
         ChildDone, ChildHeld, Client!Child, Client!vars, clientVars
    <3>2. QED
      BY <3>1 DEF Client!Next
  <2>3. QED
    BY <2>1, <2>2
<1>2. [Server!Next]_Server!vars
  <2>1. UNCHANGED <<ctl, status, offset, listening, data_socket, request, sentence, midline,
                    replies, dtp, term, pipe, left, ferror, peer>>
    BY DEF MainStep, UserStep, MainEffects, ChildStep, serverFrame, ctlVars, dtpVars
  <2>2. CASE ChildStep
    <3>1. UNCHANGED <<link, inbox>>
      BY <2>2 DEF ChildStep, ChildConnects, ChildCannotConnect, ChildReceives, ChildSends,
         ChildDone, ChildHeld, Client!ChildStarts, Client!ClosesPipe, Client!ChildOpens,
         Client!ChildCannotOpen, Client!ChildEnds, Client!ChildFails, Client!handle_abor_DTP, Client!HeldEnds,
         Client!childFrame, Client!wireVars
    <3>2. QED
      BY <2>1, <3>1 DEF Server!vars
  <2>3. CASE MainStep \/ UserStep
    <3>1. inbox' = inbox \/ SendsLine
      BY <2>3, MainReads, UserSends
    <3>2. link' = LinkAfter
      BY <2>3 DEF MainStep, UserStep, MainEffects
    <3>3. CASE main' \in Client!Gone /\ main \notin Client!Gone
      <4>1. link = "up" /\ link' \in {"fin", "broken"} /\ inbox' = inbox
        BY <3>1, <3>2, <3>3 DEF SendsLine, LinkAfter, IInv, Ends
      <4>2. Server!ClientCloses
        BY <2>1, <4>1 DEF Server!ClientCloses, Server!ctlVars, Server!dtpVars
      <4>3. QED
        BY <4>2 DEF Server!Next, Server!Environment
    <3>4. CASE ~(main' \in Client!Gone /\ main \notin Client!Gone) /\ inbox' = inbox
      BY <2>1, <3>2, <3>4 DEF LinkAfter, Server!vars
    <3>5. CASE ~(main' \in Client!Gone /\ main \notin Client!Gone) /\ SendsLine
      <4>1. main \notin Client!Gone
        BY <3>5 DEF SendsLine
      <4>2. UNCHANGED link /\ link = "up"
        BY <3>2, <3>5, <4>1 DEF LinkAfter, IInv, Ends
      <4>3. Server!ClientSends
        BY <2>1, <3>5, <4>2 DEF SendsLine, Server!ClientSends, Server!ctlVars, Server!dtpVars
      <4>4. QED
        BY <4>3 DEF Server!Next, Server!Environment
    <3>6. QED
      BY <3>1, <3>3, <3>4, <3>5
  <2>4. QED
    BY <2>2, <2>3
<1>3. QED
  BY <1>1, <1>2

\* What is answered is a reply the client may get, in the course of a command.
LEMMA ControlSends ==
    IInv /\ ControlStep
    => \/ answers' = answers
       \/ /\ ctl \in {"handling", "opening", "transfer", "aborting"}
          /\ \E c \in Codes : \E next : Server!Send(c, next)
<1> SUFFICES ASSUME IInv, ControlStep
             PROVE  \/ answers' = answers
                    \/ /\ ctl \in {"handling", "opening", "transfer", "aborting"}
                       /\ \E c \in Codes : \E next : Server!Send(c, next)
  OBVIOUS
<1> DEFINE Speaks(codes) ==
       /\ ctl \in {"handling", "opening", "transfer", "aborting"}
       /\ \E c \in codes : \E next : Server!Send(c, next)
<1>1. {150, 200, 213, 215, 220, 221, 226, 227, 230, 250, 257, 331, 350, 425, 426, 451,
       500, 501, 502, 504, 530, 550} \subseteq Codes
  BY AlphabetAssumption
<1>2. CASE Server!OnlyAnswered
  <2>1. ctl = "handling" /\ \E c \in Server!Answers : Server!Send(c, "reading")
    BY <1>2 DEF Server!OnlyAnswered
  <2>2. request \in Server!Request
    BY <2>1, TransferAssumption DEF IInv, Server!IInv, Server!RepliesFollow
  <2>3. Server!Answers \subseteq {200, 213, 215, 250, 257, 425, 451, 500, 501, 502, 504, 530, 550}
    BY <2>2, AnswerCodes
  <2>4. Server!Answers \subseteq Codes
    BY <1>1, <2>3
  <2>5. QED
    BY <2>1, <2>4
<1>3. CASE Server!Quit \/ Server!LogIn \/ Server!Port \/ Server!Pasv \/ Server!Rest
           \/ Server!StartTransfer
  <2>1. Speaks({150, 200, 221, 227, 230, 331, 350, 501})
    BY <1>3 DEF Server!Quit, Server!LogIn, Server!Port, Server!Pasv, Server!Rest,
       Server!StartTransfer, Server!Carries, Server!Is
  <2>2. QED
    BY <1>1, <2>1
<1>4. CASE Server!OpenFails \/ Server!PipeFails \/ Server!ForkFails \/ Server!AbortDone
  <2>1. Speaks({226, 425, 500})
    BY <1>4 DEF Server!OpenFails, Server!PipeFails, Server!ForkFails, Server!AbortDone
  <2>2. QED
    BY <1>1, <2>1
<1>5. CASE Server!TakeResult
  <2>1. pipe \in Seq({0, 1, 2}) /\ pipe # <<>> /\ ctl = "transfer"
    BY <1>5 DEF Server!TakeResult, IInv, TypeOK, Server!TypeOK
  <2>2. Head(pipe) \in {0, 1, 2}
    BY <2>1, HeadTailProperties
  <2>3. Speaks({226, 451, 426})
    BY <1>5, <2>1, <2>2 DEF Server!TakeResult
  <2>4. QED
    BY <1>1, <2>3
<1>6. CASE Server!HearCommand
  <2>1. ctl = "transfer" /\ (UNCHANGED replies \/ Server!Send(426, "aborting"))
    BY <1>6 DEF Server!HearCommand
  <2>2. UNCHANGED replies => answers' = answers
    BY NoReply, ControlFrame
  <2>3. QED
    BY <1>1, <2>1, <2>2
<1>7. CASE Server!ReadCommand \/ Server!SessionEnds \/ Server!Forks \/ Server!ClientGone
           \/ Server!Exit \/ Server!Finish
  <2>1. replies' \in {replies, <<>>}
    BY <1>7 DEF Server!ReadCommand, Server!SessionEnds, Server!Forks, Server!ClientGone,
       Server!Exit, Server!Finish
  <2>2. QED
    BY <2>1, NoReply, ControlFrame
<1>8. QED
  BY <1>2, <1>3, <1>4, <1>5, <1>6, <1>7 DEF ControlStep, Opening, Server!handle_request

\* nor the server what the client does not.
LEMMA ControlMeets ==
    IInv /\ ControlStep => [Client!Next]_Client!vars /\ [Server!Next]_Server!vars
<1> SUFFICES ASSUME IInv, ControlStep
             PROVE  [Client!Next]_Client!vars /\ [Server!Next]_Server!vars
  OBVIOUS
<1>1. Server!Next
  BY DEF ControlStep, Opening, Server!Next, Server!Control
<1>2. Client!Host
  <2>1. /\ host = "up" /\ TypeOK /\ answers' = Answers /\ UNCHANGED clientVars
        /\ host' \in {"up", "fin", "reset"}
    <3>1. /\ answers' = Answers /\ UNCHANGED clientVars
          /\ host' \in {"fin", "reset", host}
      BY DEF ControlStep, HostAfter
    <3>2. QED
      BY <3>1, ControlFrame
  <2>2. inbox \in Seq(Requests) /\ Len(inbox) \in Nat
    BY LenProperties DEF IInv, Ends
  <2>3. \E n \in 0..Len(inbox) : inbox' = SubSeq(inbox, n + 1, Len(inbox))
    <3>1. CASE Server!ReadCommand \/ Server!HearCommand
      <4>1. PICK n \in DOMAIN inbox : Server!Reads(n)
        BY <3>1 DEF Server!ReadCommand, Server!HearCommand
      <4>2. n \in 0..Len(inbox)
        BY <2>2, <4>1, LenProperties
      <4>3. QED
        BY <4>1, <4>2 DEF Server!Reads
    <3>2. CASE ~(Server!ReadCommand \/ Server!HearCommand)
      <4>1. UNCHANGED inbox
        BY <3>2 DEF ControlStep, Opening, Server!OpenFails, Server!PipeFails, Server!ForkFails,
           Server!Forks, Server!SessionEnds, Server!handle_request, Server!OnlyAnswered,
           Server!Quit, Server!LogIn, Server!Port, Server!Pasv, Server!Rest,
           Server!StartTransfer, Server!NoTransfer, Server!AbortDone, Server!ClientGone,
           Server!Exit, Server!TakeResult, Server!Finish, Server!netVars
      <4>2. SubSeq(inbox, 1, Len(inbox)) = inbox
        BY <2>2, SubSeqFull
      <4>3. QED
        BY <2>2, <4>1, <4>2
    <3>3. QED
      BY <3>1, <3>2
  <2>4. answers' = answers \/ \E c \in Codes : answers' = Append(answers, c)
                                              /\ Len(answers) < MaxAnswers
                                              /\ Len(inbox') < MaxInbox
    <3>1. CASE answers' = answers
      BY <3>1
    <3>2. CASE answers' # answers
      <4>1. PICK c \in Codes : \E next : Server!Send(c, next)
        BY <3>2, ControlSends
      <4>2. PICK next : Server!Send(c, next)
        BY <4>1
      <4>3. c \in Nat
        BY TransferAssumption
      <4>4. link = "up" /\ answers' = Append(answers, c)
        BY <2>1, <3>2, <4>2, <4>3, ReplyArrives DEF Says
      <4>5. Len(answers) \in 0..1 /\ Len(inbox) \in 0..1
        BY <3>2, <4>4, ControlSends, ControlFrame, BusyBounds
      <4>6. MaxInbox \in Nat /\ MaxAnswers \in Nat /\ MaxInbox >= 2 /\ MaxAnswers >= 2
        BY TransferAssumption, AlphabetAssumption
      <4>7. Len(inbox') < MaxInbox
        <5>1. PICK n \in 0..Len(inbox) : inbox' = SubSeq(inbox, n + 1, Len(inbox))
          BY <2>3
        <5>2. CASE n = 0
          <6>1. inbox' = inbox
            BY <2>2, <5>1, <5>2, SubSeqFull
          <6>2. Len(inbox') = Len(inbox) /\ Len(inbox) \in 0..1
            BY <4>5, <6>1
          <6>3. QED
            BY <4>6, <6>2
        <5>3. CASE n # 0
          <6>1. n + 1 = Len(inbox) + 1 /\ Len(inbox) \in Int
            BY <4>5, <5>1, <5>3
          <6>2. SubSeq(inbox, Len(inbox) + 1, Len(inbox)) = <<>>
            BY <6>1, SubSeqEmpty
          <6>3. inbox' = <<>>
            BY <5>1, <6>1, <6>2
          <6>4. Len(inbox') = 0
            BY <6>3
          <6>5. QED
            BY <4>6, <6>4
        <5>4. QED
          BY <5>2, <5>3
      <4>8. QED
        BY <4>4, <4>5, <4>6, <4>7
    <3>3. QED
      BY <3>1, <3>2
  <2>5. QED
    BY <2>1, <2>3, <2>4 DEF Client!Host, clientVars, Client!clientVars, Client!mainVars,
       Client!childVars
<1>3. QED
  BY <1>1, <1>2 DEF Client!Next

\* The child of the server, the network and the listener step as the client allows.
LEMMA OthersMeet ==
    IInv /\ (DtpStep \/ CloseArrives \/ Accepts \/ CannotFork)
    => [Client!Next]_Client!vars /\ [Server!Next]_Server!vars
<1> SUFFICES ASSUME IInv, DtpStep \/ CloseArrives \/ Accepts \/ CannotFork
             PROVE  [Client!Next]_Client!vars /\ [Server!Next]_Server!vars
  OBVIOUS
<1>1. CASE DtpStep
  <2>1. Server!Child
    BY <1>1 DEF DtpStep, DtpSends, DtpReceives, Server!Child
  <2>2. UNCHANGED <<clientVars, inbox, answers, host>>
    BY <1>1 DEF DtpStep, DtpSends, DtpReceives, Server!SendBlock, Server!ReceiveBlock,
       Server!ChildCannotOpen, Server!ChildOpens, Server!SendFails, Server!SendKills,
       Server!SentAll, Server!ReceiveEnds, Server!ChildExits, Server!close_DTP,
       Server!childFrame
  <2>3. QED
    BY <2>1, <2>2 DEF clientVars, Client!vars, Server!Next
<1>2. CASE CloseArrives
  <2>1. Server!PeerCloses /\ UNCHANGED <<clientVars, inbox, answers, host>>
    BY <1>2 DEF CloseArrives, Server!PeerCloses
  <2>2. QED
    BY <2>1 DEF clientVars, Client!vars, Server!Next, Server!Environment
<1>3. CASE Accepts \/ CannotFork
  <2>1. PICK c \in {220, 500} : /\ listener = "accepting" /\ answers' = Append(answers, c)
                               /\ UNCHANGED <<serverVars, clientVars, host>>
    BY <1>3 DEF Accepts, CannotFork
  <2>2. inbox = <<>> /\ answers = <<>> /\ ctl = "reading"
    BY <2>1 DEF IInv, Unforked
  <2>3. UNCHANGED Server!vars
    BY <2>1 DEF serverVars, ctlVars, dtpVars, Server!vars
  <2>4. Client!Host
    <3>1. host = "up" /\ host' = host
      BY <2>1, <2>2 DEF IInv, Ends
    <3>2. inbox' = inbox /\ inbox' = <<>>
      BY <2>1, <2>2 DEF serverVars, ctlVars
    <3>3. Len(inbox) = 0 /\ Len(inbox') = 0 /\ Len(answers) = 0
      BY <2>2, <3>2
    <3>4. Len(answers) < MaxAnswers /\ Len(inbox') < MaxInbox
      <4>1. MaxInbox \in Nat /\ MaxAnswers \in Nat /\ MaxInbox >= 2 /\ MaxAnswers >= 2
        BY TransferAssumption, AlphabetAssumption
      <4>2. QED
        BY <3>3, <4>1
    <3>5. \E n \in 0..Len(inbox) : inbox' = SubSeq(inbox, n + 1, Len(inbox))
      <4>1. SubSeq(inbox, 1, Len(inbox)) = inbox
        BY <2>2, <3>3, SubSeqEmpty
      <4>2. QED
        BY <3>2, <3>3, <4>1
    <3>6. c \in Codes
      BY AlphabetAssumption
    <3>7. UNCHANGED Client!clientVars
      BY <2>1 DEF clientVars, Client!clientVars, Client!mainVars, Client!childVars
    <3>8. QED
      BY <2>1, <3>1, <3>4, <3>5, <3>6, <3>7 DEF Client!Host
  <2>5. QED
    BY <2>3, <2>4 DEF Client!Next
<1>4. QED
  BY <1>1, <1>2, <1>3

\* Every step of the composition is one of the client or of the server it assumes, and
\* one of the server or of the environment that it assumes.
LEMMA StepsMet ==
    IInv /\ [Next]_vars => [Client!Next]_Client!vars /\ [Server!Next]_Server!vars
<1>1. UNCHANGED vars => UNCHANGED Client!vars /\ UNCHANGED Server!vars
  BY DEF vars, Client!vars, Server!vars
<1>2. QED
  BY <1>1, ClientMeets, ControlMeets, OthersMeet DEF Next, System

-----------------------------------------------------------------------------
(* The theorems *)

\* The data connection of a step of the control process.
LEMMA ControlWires == IInv /\ ControlStep => Wires'
<1> SUFFICES ASSUME IInv, ControlStep
             PROVE  Wires'
  OBVIOUS
<1>1. Wires
  BY DEF IInv, TypeOK, Wires
<1>2. listener' = listener /\ flight' = flight
  BY DEF ControlStep, Opening
<1>3. conn' \in {"queued", "up", conn}
  BY DEF ControlStep, Opening, Connects
<1>4. QED
  BY <1>1, <1>2, <1>3 DEF Wires

\* The server reads, the client waits for the greeting that is to come.
LEMMA InitInvariant == Init => IInv
<1> SUFFICES ASSUME Init
             PROVE  IInv
  OBVIOUS
<1>1. Server!IInv /\ Server!TypeOK
  BY ServerInvariant DEF Init, Server!IInv
<1>2. Client!TypeOK
  BY ClientInvariant DEF Init
<1>3. /\ ctl = "reading" /\ status = "CONNECTED" /\ dtp = "none" /\ peer = "none"
      /\ sentence = Server!NoRequest /\ ~midline /\ link = "up"
      /\ main = "greeting" /\ position = 0 /\ child = "none" /\ script = <<>>
      /\ inbox = <<>> /\ answers = <<>> /\ host = "up"
      /\ listener = "accepting" /\ conn = "none" /\ flight = 0
  BY DEF Init, Server!Init, Client!Init
<1>4. TypeOK
  BY <1>1, <1>2, <1>3, TransferAssumption DEF TypeOK
<1>5. Ends
  BY <1>3 DEF Ends, Client!Gone
<1>6. Unforked
  BY <1>3 DEF Unforked
<1>7. Dialogue
  BY <1>3 DEF Dialogue, Connected
<1>8. ModeFollows
  BY <1>3 DEF ModeFollows, Connected
<1>9. PositionFollows
  BY <1>3 DEF PositionFollows, Connected, Client!Gone
<1>10. OneConnection
  BY <1>3 DEF OneConnection
<1>11. QED
  BY <1>1, <1>4, <1>5, <1>6, <1>7, <1>8, <1>9, <1>10 DEF IInv

\* Every step preserves the invariant: that of the server and the types of the client
\* because each takes the step for one of its own, the rest step by step.
LEMMA StepInvariant == IInv /\ [Next]_vars => IInv'
<1> SUFFICES ASSUME IInv, [Next]_vars
             PROVE  IInv'
  OBVIOUS
<1>1. [Client!Next]_Client!vars /\ [Server!Next]_Server!vars
  BY StepsMet
<1>2. Server!IInv' /\ Server!TypeOK'
  BY <1>1, ServerInvariant DEF IInv, Server!IInv
<1>3. Client!TypeOK'
  BY <1>1, ClientInvariant DEF IInv, TypeOK
<1>4. Kept' /\ Wires'
  <2>1. CASE Accepts \/ CannotFork
    BY <2>1, ListenerKept
  <2>2. CASE ControlStep
    BY <2>2, ControlKept, ControlWires
  <2>3. CASE DtpStep
    BY <2>3, DtpKept
  <2>4. CASE CloseArrives
    BY <2>4, CloseArrivesKept
  <2>5. CASE MainStep
    BY <2>5, MainKept
  <2>6. CASE ChildStep
    BY <2>6, ChildKept
  <2>7. CASE UserStep
    BY <2>7, UserKept
  <2>8. CASE UNCHANGED vars
    <3>1. Kept /\ Wires
      BY DEF IInv, TypeOK, Kept, Wires
    <3>2. Wires'
      BY <2>8, <3>1 DEF Wires, vars
    <3>3. Kept'
      BY <2>8, <3>1 DEF Kept, Ends, Unforked, Dialogue, ModeFollows, PositionFollows,
         OneConnection, Connected, Asked, Hears, Stands, Line, vars
    <3>4. QED
      BY <3>2, <3>3
  <2>9. QED
    BY <2>1, <2>2, <2>3, <2>4, <2>5, <2>6, <2>7, <2>8 DEF Next, System
<1>5. TypeOK'
  BY <1>2, <1>3, <1>4 DEF TypeOK, Wires
<1>6. QED
  BY <1>2, <1>4, <1>5 DEF IInv, Kept

\* In every state of the composition the invariant holds.
THEOREM Invariance == Spec => []IInv
<1>1. Init => IInv
  BY InitInvariant
<1>2. IInv /\ [Next]_vars => IInv'
  BY StepInvariant
<1>3. QED
  BY <1>1, <1>2, PTL DEF Spec

\* Every variable of the client, the server and the connections between them keeps its
\* type.
THEOREM TypeCorrect == Spec => []TypeOK
<1>1. IInv => TypeOK
  BY DEF IInv
<1>2. QED
  BY <1>1, Invariance, PTL

\* When the user may type again, no command is on its way to the server and no reply to
\* the client, whatever was refused, failed, aborted or interrupted before.
THEOREM ClientAndServerInStep == Spec => []InStep
<1>1. IInv => InStep
  <2> SUFFICES ASSUME IInv, main = "prompt", host = "up", listener = "forked"
               PROVE  inbox = <<>> /\ answers = <<>>
    BY DEF InStep
  <2>1. Stands(Rests, <<>>, 0)
    BY DEF IInv, Dialogue, Connected, Client!Gone
  <2>2. QED
    BY <2>1, EmptySeq DEF IInv, TypeOK, Client!TypeOK, Stands
<1>2. QED
  BY <1>1, Invariance, PTL

\* When the server opens the data connection it does what the client expects: it
\* connects to the client that listens, or accepts the client that connects.
THEOREM ModesNeverDisagree == Spec => []ModesAgree
<1>1. IInv => ModesAgree
  <2> SUFFICES ASSUME IInv, ctl = "opening", main \notin Client!Gone
               PROVE  status = mode
    BY DEF ModesAgree
  <2>1. Connected
    BY DEF IInv, Unforked, Ends, Connected
  <2>2. status \in {"PORT", "PASV"}
    BY DEF IInv, ModeFollows
  <2>3. main # "waiting"
    <3> SUFFICES ASSUME main = "waiting"
                 PROVE  FALSE
      OBVIOUS
    <3>1. Asked \/ Stands({"reading"}, <<>>, 1)
      BY <2>1 DEF IInv, Dialogue
    <3>2. QED
      BY <3>1 DEF Asked, Hears, Stands, Rests
  <2>4. QED
    BY <2>1, <2>2, <2>3 DEF IInv, ModeFollows
<1>2. QED
  BY <1>1, Invariance, PTL

\* An int is what atoi leaves of it.
LEMMA AnInt ==
    ASSUME NEW n \in 0..IntMax
    PROVE  Server!atoi(n) = n
<1>1. IntMax \in Nat
  BY TransferAssumption
<1> DEFINE m == 2 * (IntMax + 1)
<1>2. n + IntMax + 1 \in 0..(m - 1) /\ m \in Nat \ {0}
  BY <1>1
<1>3. \A d \in Nat \ {0} : \A k \in 0..(d - 1) : k % d = k
  OBVIOUS
<1>4. (n + IntMax + 1) % m = n + IntMax + 1
  BY <1>2, <1>3
<1>5. QED
  BY <1>1, <1>4 DEF Server!atoi

\* While blocks of a file move, a client that skips the beginning of it, and as much as the
\* server has in an int (server.c:1292), skips what the server skips: whatever was refused,
\* replaced or forgotten on the way.  Of a wider position the server has what atoi leaves of it
\* (PositionFollows).
THEOREM ClientNeverAhead == Spec => []NeverAhead
<1>1. IInv => NeverAhead
  <2> SUFFICES ASSUME IInv, dtp = "moving", child = "moving",
                      position \in 0..IntMax, position # 0
               PROVE  position = offset
    BY DEF NeverAhead
  <2>1. offset = Server!atoi(position)
    BY DEF IInv, PositionFollows
  <2>2. Server!atoi(position) = position
    BY AnInt
  <2>3. QED
    BY <2>1, <2>2
<1>2. QED
  BY <1>1, Invariance, PTL

\* The composition implements both of its components as they were checked and proved
\* about alone: the server, for any client that FtpServer allows, and the client, for
\* any server that FtpClient allows, are given nothing else here.
THEOREM ComponentsImplemented == Spec => EnvironmentsMet
<1>1. Init => Client!Init /\ Server!Init
  BY DEF Init
<1>2. IInv /\ [Next]_vars => [Client!Next]_Client!vars /\ [Server!Next]_Server!vars
  BY StepsMet
<1>3. QED
  BY <1>1, <1>2, Invariance, PTL DEF Spec, EnvironmentsMet, Client!Spec, Server!Spec

-----------------------------------------------------------------------------
(* What has arrived when a transfer is complete *)

\* A client that has gone asks for nothing more.
LEMMA GoneArrives == main' \in Client!Gone => Arrival'
BY DEF Arrival, Counted, SameCommand, ClosedEnds, Received, OpenedOnce, AbortKills,
       CompleteFollows, Carrying, Client!Gone

\* Between two transfers there is no child, and no data connection the server knows of.
LEMMA IdleArrives ==
    ASSUME IInv', main' \in {"greeting", "prompt", "waiting"}, Counted',
           verdict' = <<>>, ctl' = "exited" => peer' = "none"
    PROVE  Arrival'
<1>1. main' \notin Client!Gone /\ child' = "none" /\ Ended'
  BY DEF Client!Gone, IInv, Ends, Ended
<1>2. ctl' # "transfer"
  <2>1. CASE Connected'
    BY <2>1 DEF IInv, Dialogue, Stands, Hears, Asked, Rests
  <2>2. CASE listener' # "forked"
    BY <2>2 DEF IInv, Unforked
  <2>3. CASE host' # "up"
    BY <2>3 DEF IInv, Ends
  <2>4. QED
    BY <1>1, <2>1, <2>2, <2>3 DEF Connected
<1>3. ClosedEnds'
  BY <1>1, <1>2 DEF ClosedEnds
<1>4. SameCommand' /\ Received' /\ OpenedOnce' /\ CompleteFollows'
  BY DEF SameCommand, Received, OpenedOnce, CompleteFollows, Carrying
<1>5. AbortKills'
  BY <1>1 DEF AbortKills
<1>6. QED
  BY <1>3, <1>4, <1>5 DEF Arrival

\* A server that is at work, or has been left by a client that is there, is connected.
LEMMA StaysConnected ==
    ASSUME IInv, main \notin Client!Gone, ctl # "exited", ctl # "reading" \/ listener = "forked"
    PROVE  Connected
BY DEF IInv, Ends, Unforked, Connected

\* What is left of the replies when one is taken.
LEMMA OneTaken ==
    ASSUME TypeOK, Took
    PROVE  /\ Len(answers') = Len(answers) - 1
           /\ Len(answers) \in 0..1 => answers' = <<>>
           /\ Len(answers) \in 0..2 => Len(answers') \in 0..1
           /\ answers' # <<>> => Last(answers') = Last(answers)
           /\ answers' = <<226>> => Len(answers) = 2 /\ answers[2] = 226
           /\ Len(answers) = 2 => answers' = <<answers[2]>>
<1>1. /\ answers \in Seq(Nat) /\ answers # <<>> /\ answers' = Tail(answers)
      /\ Len(answers) \in Nat
  BY Kinds DEF Took
<1>2. /\ Len(answers') = Len(answers) - 1 /\ answers' \in Seq(Nat)
      /\ \A i \in 1..Len(answers') : answers'[i] = answers[i + 1]
  BY <1>1, HeadTailProperties
<1>3. answers' # <<>> => Len(answers') > 0
  BY <1>2, EmptySeq, LenProperties
<1>4. answers' # <<>> => Last(answers') = Last(answers)
  <2>1. SUFFICES ASSUME answers' # <<>> PROVE Last(answers') = Last(answers)
    OBVIOUS
  <2>2. Len(answers') \in 1..Len(answers') /\ Len(answers') + 1 = Len(answers)
    BY <1>1, <1>2, <1>3, <2>1
  <2>3. answers'[Len(answers')] = answers[Len(answers)]
    BY <1>2, <2>2
  <2>4. QED
    BY <2>3 DEF Last
<1>5. ASSUME answers' = << 226 >> PROVE Len(answers) = 2 /\ answers[2] = 226
  <2>1. Len(answers') = 1 /\ answers'[1] = 226
    BY <1>5
  <2>2. Len(answers') = Len(answers) - 1 /\ Len(answers) \in Nat
    BY <1>1, <1>2
  <2>3. Len(answers) = 2
    <3>1. ASSUME NEW m \in Nat, NEW n, n = m - 1, n = 1 PROVE m = 2
      BY <3>1
    <3>2. Len(answers') = 1
      BY <2>1
    <3>3. QED
      BY <2>2, <3>1, <3>2, Zenon
  <2>4. 1 \in 1..Len(answers')
    BY <2>1
  <2>5. answers'[1] = answers[1 + 1]
    BY <1>2, <2>4
  <2>6. QED
    BY <2>1, <2>3, <2>5
<1>6. ASSUME Len(answers) = 2 PROVE answers' = <<answers[2]>>
  <2>1. Len(answers') = 1 /\ answers'[1] = answers[2]
    BY <1>2, <1>6
  <2>2. QED
    BY <1>2, <2>1
<1>7. ASSUME NEW m \in Nat, NEW n \in Nat, n = m - 1
      PROVE  (m \in 0..1 => n = 0) /\ (m \in 0..2 => n \in 0..1)
  BY <1>7
<1>8. Len(answers') \in Nat /\ (Len(answers') = 0 => answers' = <<>>)
  BY <1>2, EmptySeq, LenProperties
<1>9. /\ Len(answers) \in 0..1 => answers' = <<>>
      /\ Len(answers) \in 0..2 => Len(answers') \in 0..1
  BY <1>1, <1>2, <1>7, <1>8, Zenon
<1>10. QED
  BY <1>2, <1>4, <1>5, <1>6, <1>9

\* Taking a reply does not bring the server into an abort.
LEMMA NoAbort ==
    ASSUME TypeOK, UNCHANGED <<ctl, replies>>, Took \/ answers' = answers
    PROVE  /\ Aborting' => Aborting
           /\ Aborting /\ answers' # <<>> => Aborting'
<1>1. answers' # <<>> => answers # <<>> /\ Last(answers') = Last(answers)
  BY OneTaken DEF Took
<1>2. QED
  BY <1>1 DEF Aborting

-----------------------------------------------------------------------------
(* The main process of the client *)

\* A step of the client leaves the server where it is; the socket on which the client
\* listens is open as long as it is the same.
LEMMA ClientLeaves ==
    ASSUME IInv, IInv', MainEffects, main \notin Client!Gone
    PROVE  /\ UNCHANGED <<ctl, request, replies, dtp, pipe, left, ferror, peer, listener>>
           /\ Connected' => Connected
           /\ host' = "up" <=> host = "up"
           /\ main' \notin Client!Gone /\ accepting' = accepting => Backlog = conn
<1>1. UNCHANGED <<ctl, request, replies, dtp, pipe, left, ferror, peer, listener>>
  BY DEF MainEffects, serverFrame, ctlVars, dtpVars
<1>2. host' = "up" <=> host = "up"
  BY <1>1 DEF IInv, Ends
<1>3. Connected' => Connected
  BY <1>1, <1>2 DEF Connected
<1>4. main' \notin Client!Gone /\ accepting' = accepting => Backlog = conn
  BY DEF Backlog, ClientListens
<1>5. QED
  BY <1>1, <1>2, <1>3, <1>4

\* The replies to a transfer end with the second: the client is back at the prompt.
LEMMA PromptArrives ==
    ASSUME IInv, IInv', Arrival, MainEffects,
           main \in {"greeting", "waiting", "result"}, main' = "prompt",
           Took \/ Junk, UNCHANGED verdict
    PROVE  Arrival'
<1>1. main \notin Client!Gone /\ TypeOK
  BY DEF Client!Gone, IInv
<1>2. UNCHANGED <<ctl, peer>>
  BY <1>1, ClientLeaves
<1>3. Len(answers) \in 0..1
  BY DEF Arrival, Counted
<1>4. answers' = <<>>
  <2>1. CASE Took
    BY <1>1, <1>3, <2>1, OneTaken
  <2>2. CASE Junk
    BY <2>2 DEF Junk
  <2>3. QED
    BY <2>1, <2>2
<1>5. Counted'
  BY <1>4 DEF Counted
<1>6. verdict' = <<>>
  BY <1>1 DEF Arrival, AbortKills, IInv, Ends
<1>7. ctl' = "exited" => peer' = "none"
  BY <1>1, <1>2 DEF Arrival, ClosedEnds
<1>8. QED
  BY <1>5, <1>6, <1>7, IdleArrives

\* What the client hears of greetings, of commands without a transfer, and at the end.
LEMMA HeardArrives ==
    IInv /\ IInv' /\ Arrival /\ MainEffects
        /\ (Client!Greeting \/ Client!Replied \/ Client!Result)
    => Arrival'
<1> SUFFICES ASSUME IInv, IInv', Arrival, MainEffects,
                    Client!Greeting \/ Client!Replied \/ Client!Result
             PROVE  Arrival'
  OBVIOUS
<1>1. CASE Client!Greeting
  BY <1>1, PromptArrives
     DEF Client!Greeting, Client!GetMsg, Client!childVars, Took, Junk
<1>2. CASE Client!Replied
  BY <1>2, PromptArrives
     DEF Client!Replied, Client!GetMsg, Client!childVars, Took, Junk
<1>3. CASE Client!Result
  BY <1>3, PromptArrives
     DEF Client!Result, Client!GetMsg, Client!Done, Took, Junk
<1>4. QED
  BY <1>1, <1>2, <1>3

\* The timeout, and the end of the server.
LEMMA EndArrives ==
    IInv /\ IInv' /\ Arrival /\ MainEffects
        /\ (Client!GetMsgFails \/ Client!Exits \/ Client!Quits)
    => Arrival'
<1> SUFFICES ASSUME IInv, IInv', Arrival, MainEffects,
                    Client!GetMsgFails \/ Client!Exits \/ Client!Quits
             PROVE  Arrival'
  OBVIOUS
<1>1. CASE main' \in Client!Gone
  BY <1>1, GoneArrives
<1>2. CASE main' \notin Client!Gone
  <2>1. /\ main' = "exiting" /\ main \in {"greeting", "waiting", "starting", "abor", "result"}
        /\ UNCHANGED <<child, accepting, verdict, command, code>>
    BY <1>2 DEF Client!GetMsgFails, Client!Exits, Client!Quits, Client!GetMsg, Client!Ends,
       Client!Gone
  <2>2. main \notin Client!Gone
    BY <2>1 DEF Client!Gone
  <2>3. /\ UNCHANGED <<ctl, request, pipe, left, ferror, peer>>
        /\ conn' = conn /\ flight' = flight
    BY <1>2, <2>1, <2>2, ClientLeaves DEF MainEffects
  <2>4. ClosedEnds'
    BY <2>1, <2>2, <2>3 DEF Arrival, ClosedEnds, Ended
  <2>5. AbortKills'
    BY <2>1, <2>2, <2>3 DEF Arrival, AbortKills
  <2>6. QED
    BY <2>1, <2>4, <2>5
       DEF Arrival, Counted, SameCommand, Received, OpenedOnce, CompleteFollows, Carrying
<1>3. QED
  BY <1>1, <1>2

\* The reply to RETR, STOR or LIST: a child, or the second reply to wait for, or nothing.
LEMMA StartedArrives ==
    IInv /\ IInv' /\ Arrival /\ MainEffects /\ Client!Started => Arrival'
<1> SUFFICES ASSUME IInv, IInv', Arrival, MainEffects, Client!Started PROVE Arrival'
  OBVIOUS
<1> DEFINE Then(class) ==
       \/ class = 1 /\ main' = "forked" /\ child' = "born"
          /\ UNCHANGED <<command, position, code, interrupts>>
       \/ class = 1 /\ main' = "result" /\ code' = 1
          /\ UNCHANGED <<command, position, child, interrupts>>
       \/ class # 1 /\ Client!Done /\ UNCHANGED child
<1>1. main = "starting" /\ UNCHANGED <<script, mode, accepting, verdict>>
  BY DEF Client!Started
<1>2. Client!GetMsg(Then)
  BY DEF Client!Started
<1> HIDE DEF Then
<1>3. \/ Took /\ Then(Head(answers) \div 100)
      \/ Junk /\ \E class \in 0..9 : Then(class)
  BY <1>2 DEF Client!GetMsg, Took, Junk
<1> USE DEF Then
<1>4. PICK class : Then(class) /\ ((Took /\ class = Head(answers) \div 100) \/ Junk)
  BY <1>3
<1>5. /\ TypeOK /\ main \notin Client!Gone
      /\ child = "none" /\ verdict' = <<>>
      /\ command.verb \in Client!Transfers
      /\ conn = "none" \/ (conn = "queued" /\ mode = "PORT")
      /\ ~Aborting
  BY <1>1 DEF Client!Gone, IInv, Ends, Arrival, AbortKills, SameCommand, ClosedEnds
<1>6. /\ UNCHANGED <<ctl, request, replies, pipe, left, ferror, peer>>
      /\ Connected' => Connected
  BY <1>1, <1>5, ClientLeaves
<1>7. Len(answers) \in 0..2 /\ (Len(answers) = 2 => Head(answers) = 150)
  BY <1>1 DEF Arrival, Counted
<1>8. ~Aborting'
  <2>1. CASE Took
    BY <1>5, <1>6, <2>1, NoAbort
  <2>2. CASE Junk
    BY <1>5, <1>6, <2>2 DEF Aborting, Junk
  <2>3. QED
    BY <1>4, <2>1, <2>2
<1>9. CASE class # 1
  <2>1. main' = "prompt"
    BY <1>4, <1>9 DEF Client!Done
  <2>2. answers' = <<>>
    <3>1. CASE Took
      <4>1. class = Head(answers) \div 100 \/ answers = <<>>
        BY <1>4, <3>1 DEF Junk
      <4>2. Len(answers) # 2
        <5>1. 150 \div 100 = 1
          OBVIOUS
        <5>2. QED
          BY <1>7, <1>9, <3>1, <4>1, <5>1 DEF Took
      <4>3. Len(answers) \in 0..1
        BY <1>7, <4>2
      <4>4. QED
        BY <1>5, <3>1, <4>3, OneTaken
    <3>2. CASE Junk
      BY <3>2 DEF Junk
    <3>3. QED
      BY <1>4, <3>1, <3>2
  <2>3. ctl' = "exited" => peer' = "none"
    BY <1>5, <1>6 DEF Arrival, ClosedEnds
  <2>4. QED
    BY <1>5, <2>1, <2>2, <2>3, IdleArrives DEF Counted
<1>10. CASE class = 1
  <2>1. /\ \/ main' = "forked" /\ child' = "born" /\ UNCHANGED code
           \/ main' = "result" /\ child' = "none" /\ code' = 1
        /\ UNCHANGED command
    BY <1>4, <1>5, <1>10 DEF Client!Done
  <2>2. main' \notin Client!Gone
    BY <2>1 DEF Client!Gone
  <2>3. conn' = conn /\ flight' = flight
    BY <1>1, <1>5, <2>1, <2>2, ClientLeaves DEF MainEffects
  <2>4. Len(answers') \in 0..1
    <3>1. CASE Took
      BY <1>5, <1>7, <3>1, OneTaken
    <3>2. CASE Junk
      BY <3>2 DEF Junk
    <3>3. QED
      BY <1>4, <3>1, <3>2
  <2>5. Counted'
    BY <2>1, <2>4 DEF Counted
  <2>6. Connected => answers # <<>>
    BY <1>4 DEF Took, Junk, Connected
  <2>7. SameCommand'
    BY <1>1, <1>5, <1>6, <2>1, <2>6 DEF Arrival, SameCommand
  <2>8. ClosedEnds'
    <3>1. ctl = "transfer" => peer = "open"
      BY <1>1, <1>5, StaysConnected DEF Arrival, ClosedEnds
    <3>2. QED
      BY <1>1, <1>5, <1>6, <2>1, <2>3, <3>1 DEF Arrival, ClosedEnds
  <2>9. Received' /\ OpenedOnce'
    BY <1>1, <1>6, <2>1, <2>3 DEF Arrival, OpenedOnce, Received, Ended
  <2>10. AbortKills'
    BY <1>5, <1>8, <2>1 DEF AbortKills
  <2>11. CompleteFollows'
    <3>1. ASSUME answers' = << 226 >>
          PROVE  (~ferror => left = 0) /\ command.verb # "STOR"
      <4>1. Took
        BY <1>4, <3>1 DEF Junk
      <4>2. Len(answers) = 2 /\ answers[2] = 226
        BY <1>5, <3>1, <4>1, OneTaken
      <4>3. QED
        BY <1>1, <4>2 DEF Arrival, CompleteFollows
    <3>2. QED
      BY <1>6, <2>1, <2>3, <3>1 DEF CompleteFollows
  <2>12. QED
    BY <2>5, <2>7, <2>8, <2>9, <2>10, <2>11 DEF Arrival
<1>11. QED
  BY <1>9, <1>10

\* The client begins to wait for its child, and has waited.
LEMMA WaitedArrives ==
    IInv /\ IInv' /\ Arrival /\ MainEffects /\ (Client!Watches \/ Client!Waited) => Arrival'
<1> SUFFICES ASSUME IInv, IInv', Arrival, MainEffects, Client!Watches \/ Client!Waited
             PROVE  Arrival'
  OBVIOUS
<1>1. /\ \/ main = "forked" /\ main' = "transfer" /\ UNCHANGED <<child, sigterm, verdict>>
         \/ main = "transfer" /\ main' = "result" /\ child = "dead" /\ child' = "none"
            /\ verdict' = <<>>
      /\ UNCHANGED <<command, mode, accepting, code, answers>>
  BY DEF Client!Watches, Client!Waited, Client!childVars, Client!wireVars
<1>2. main \notin Client!Gone /\ main' \notin Client!Gone /\ TypeOK
  BY <1>1 DEF Client!Gone, IInv
<1>3. /\ UNCHANGED <<ctl, request, replies, pipe, left, ferror, peer>>
      /\ Connected' => Connected
      /\ conn' = conn /\ flight' = flight
  BY <1>1, <1>2, ClientLeaves DEF MainEffects
<1>4. /\ Aborting' <=> Aborting
      /\ Ended' <=> Ended
  BY <1>1, <1>3 DEF Aborting, Ended
<1>5. Counted' /\ Received' /\ OpenedOnce'
  BY <1>1, <1>3, <1>4 DEF Arrival, Counted, Received, OpenedOnce, Carrying, Retrieves
<1>6. SameCommand'
  BY <1>1, <1>3 DEF Arrival, SameCommand, Carrying
<1>7. ClosedEnds'
  BY <1>1, <1>2, <1>3, <1>4 DEF Arrival, ClosedEnds
<1>8. AbortKills'
  <2>1. main = "forked" => ~Aborting
    BY DEF Arrival, AbortKills
  <2>2. main = "transfer" /\ Aborting => Condemned'
    BY <1>1 DEF Arrival, AbortKills, Condemned, Waits, Ended, Client!Held
  <2>3. QED
    BY <1>1, <1>2, <1>3, <1>4, <2>1, <2>2 DEF Arrival, AbortKills
<1>9. CompleteFollows'
  BY <1>1, <1>3, <1>4 DEF Arrival, CompleteFollows
<1>10. QED
  BY <1>5, <1>6, <1>7, <1>8, <1>9 DEF Arrival

\* The reply to ABOR: 426, the first of an abort, condemns the child.
LEMMA AborAnsweredArrives ==
    IInv /\ IInv' /\ Arrival /\ MainEffects /\ Client!AborAnswered => Arrival'
<1> SUFFICES ASSUME IInv, IInv', Arrival, MainEffects, Client!AborAnswered PROVE Arrival'
  OBVIOUS
<1> DEFINE Then(class) ==
       IF child = "dead"
       THEN main' = "killed" /\ UNCHANGED verdict
       ELSE main' = "transfer" /\ verdict' = Append(verdict, IF class = 4 THEN 0 ELSE 1)
<1>1. /\ main = "abor"
      /\ UNCHANGED <<command, mode, accepting, child, code, sigterm>>
  BY DEF Client!AborAnswered
<1>2. Client!GetMsg(Then)
  BY DEF Client!AborAnswered
<1> HIDE DEF Then
<1>3. \/ Took /\ Then(Head(answers) \div 100)
      \/ Junk /\ \E class \in 0..9 : Then(class)
  BY <1>2 DEF Client!GetMsg, Took, Junk
<1> USE DEF Then
<1>4. CASE main' \in Client!Gone
  BY <1>4, GoneArrives
<1>5. CASE main' \notin Client!Gone
  <2>1. /\ child # "dead" /\ main' = "transfer"
        /\ \/ Took /\ verdict' = Append(verdict, IF Head(answers) \div 100 = 4 THEN 0 ELSE 1)
           \/ Junk
    BY <1>3, <1>5 DEF Client!Gone
  <2>2. /\ TypeOK /\ main \notin Client!Gone /\ child # "none"
        /\ command.verb \in Client!Transfers
    BY <1>1 DEF Client!Gone, IInv, Arrival, SameCommand, Carrying
  <2>3. /\ UNCHANGED <<ctl, request, replies, pipe, left, ferror, peer>>
        /\ Connected' => Connected
        /\ conn' = conn /\ flight' = flight
    BY <1>1, <1>5, <2>1, <2>2, ClientLeaves DEF MainEffects
  <2>4. Len(answers) \in 0..2
    BY <1>1 DEF Arrival, Counted
  <2>5. Counted'
    <3>1. Len(answers') \in 0..1
      BY <2>1, <2>2, <2>4, OneTaken DEF Junk
    <3>2. QED
      BY <2>1, <3>1 DEF Counted
  <2>6. SameCommand'
    BY <1>1, <2>1, <2>2, <2>3 DEF Arrival, SameCommand, Carrying
  <2>7. ~Ended /\ ~Ended'
    BY <1>1, <2>1, <2>2 DEF Ended
  <2>8. ClosedEnds'
    BY <1>1, <2>1, <2>2, <2>3, <2>7 DEF Arrival, ClosedEnds
  <2>9. Received'
    BY <2>7 DEF Received
  <2>10. OpenedOnce'
    BY <1>1, <2>1, <2>3, <2>7 DEF Arrival, OpenedOnce, Carrying
  <2>11. Took => ctl \notin Works
    <3>1. Took /\ Connected => Len(answers) # 0
      BY <2>2, OneLess DEF Took
    <3>2. Connected /\ ctl \in Works => Len(answers) = 0
      BY <1>1 DEF IInv, Dialogue, Stands, Hears, Works, Rests
    <3>3. ctl \in Works => Connected
      BY <2>2, StaysConnected DEF Works
    <3>4. QED
      BY <3>1, <3>2, <3>3
  <2>12. Junk => ctl = "exited" /\ answers' = <<>>
    BY DEF Junk, IInv, Ends
  <2>13. ctl \notin Works
    BY <2>1, <2>11, <2>12 DEF Works
  <2>14. Aborting' => Took /\ Aborting
    <3>1. Took /\ Aborting' => Aborting
      BY <2>2, <2>3, NoAbort
    <3>2. Junk => ~Aborting'
      BY <2>3, <2>12 DEF Aborting
    <3>3. QED
      BY <2>1, <3>1, <3>2
  <2>15. Aborting' => Condemned'
    <3>1. SUFFICES ASSUME Aborting' PROVE Condemned'
      OBVIOUS
    <3>2. Took /\ Aborting /\ verdict \in Seq({0, 1})
      BY <2>2, <2>14, <3>1 DEF TypeOK, Client!TypeOK
    <3>3. verdict' = Append(verdict, IF Head(answers) \div 100 = 4 THEN 0 ELSE 1)
      BY <2>1, <3>2 DEF Took, Junk
    <3>4. CASE Unheard
      <4>1. verdict = <<>> /\ Waits
        BY <1>1, <2>1, <3>2, <3>4 DEF Arrival, AbortKills
      <4>2. 426 \div 100 = 4
        OBVIOUS
      <4>3. verdict' = <<0>>
        BY <3>3, <3>4, <4>1, <4>2 DEF Unheard
      <4>4. verdict' # <<>> /\ Head(verdict') = 0
        BY <4>3
      <4>5. Waits'
        BY <1>1, <4>1 DEF Waits
      <4>6. QED
        BY <4>4, <4>5 DEF Condemned
    <3>5. CASE ~Unheard
      <4>1. Waits /\ verdict # <<>> /\ Head(verdict) = 0
        BY <1>1, <2>7, <3>2, <3>5 DEF Arrival, AbortKills, Condemned
      <4>2. verdict' # <<>> /\ Head(verdict') = Head(verdict)
        BY <3>2, <3>3, <4>1, AppendProperties
      <4>3. Waits'
        BY <1>1, <4>1 DEF Waits
      <4>4. QED
        BY <4>1, <4>2, <4>3 DEF Condemned
    <3>6. QED
      BY <3>4, <3>5
  <2>16. AbortKills'
    BY <1>1, <2>1, <2>2, <2>3, <2>13, <2>15 DEF AbortKills
  <2>17. CompleteFollows'
    <3>1. SUFFICES ASSUME answers' = << 226 >>, ~Aborting' PROVE FALSE
      BY <2>1 DEF CompleteFollows
    <3>2. Took
      BY <2>1, <3>1 DEF Junk
    <3>3. Len(answers) = 2 /\ answers[2] = 226
      BY <2>2, <3>1, <3>2, OneTaken
    <3>4. Aborting
      BY <1>1, <3>3 DEF Arrival, CompleteFollows
    <3>5. QED
      BY <2>2, <2>3, <3>1, <3>2, <3>4, NoAbort
  <2>18. QED
    BY <2>5, <2>6, <2>8, <2>9, <2>10, <2>16, <2>17 DEF Arrival
<1>6. QED
  BY <1>4, <1>5

LEMMA MainArrives == IInv /\ IInv' /\ Arrival /\ MainStep => Arrival'
  BY HeardArrives, EndArrives, StartedArrives, WaitedArrives, AborAnsweredArrives
     DEF MainStep, Client!Main

-----------------------------------------------------------------------------
(* The user *)

\* A command is sent when no transfer is in anybody's mind.
LEMMA InputArrives ==
    IInv /\ IInv' /\ Arrival /\ MainEffects /\ Client!Input => Arrival'
<1> SUFFICES ASSUME IInv, IInv', Arrival, MainEffects, Client!Input PROVE Arrival'
  OBVIOUS
<1>1. CASE Client!SendKills
  BY <1>1, GoneArrives DEF Client!SendKills, Client!Ends, Client!Gone
<1>2. CASE ~Client!SendKills
  <2>1. PICK request_ \in IF script = <<>> THEN Inputs ELSE {Head(script)} :
           \/ Client!Ask(request_) \/ Client!AskPort(request_) \/ Client!PortInUse(request_)
           \/ Client!AskPasv(request_) \/ Client!Rejects(request_) \/ Client!Macro(request_)
    BY <1>2 DEF Client!Input
  <2>2. /\ main = "prompt"
        /\ UNCHANGED <<child, verdict, answers, code, sigterm, mode>>
        /\ \/ main' \in {"prompt", "waiting"}
           \/ main' = "starting" /\ command'.verb \in Client!Transfers
    BY <2>1 DEF Client!Ask, Client!AskPort, Client!PortInUse, Client!AskPasv, Client!Rejects,
       Client!Macro, Client!Takes, Client!SendMsg, Client!childVars, Client!wireVars
  <2>3. answers' = <<>> /\ verdict' = <<>> /\ main \notin Client!Gone /\ child' = "none"
    BY <2>2 DEF Arrival, Counted, AbortKills, IInv, Ends, Client!Gone
  <2>4. /\ UNCHANGED <<ctl, request, replies, pipe, left, ferror, peer>>
        /\ Connected' => Connected
    BY <2>3, ClientLeaves
  <2>5. ctl' = "exited" => peer' = "none"
    BY <2>3, <2>4 DEF Arrival, ClosedEnds
  <2>6. CASE main' \in {"prompt", "waiting"}
    <3>1. Counted'
      BY <2>3, <2>6 DEF Counted
    <3>2. QED
      BY <2>3, <2>5, <2>6, <3>1, IdleArrives
  <2>7. CASE main' = "starting" /\ command'.verb \in Client!Transfers
    <3>1. conn' = "none" /\ flight' = 0
      BY <2>2, <2>7 DEF MainEffects
    <3>2. ctl \notin {"transfer", "aborting"}
      <4>1. Connected => ctl \in Rests
        BY <2>2 DEF IInv, Dialogue, Stands
      <4>2. QED
        BY <2>3, <4>1, StaysConnected DEF Rests
    <3>3. Counted'
      BY <2>3, <2>7 DEF Counted
    <3>4. SameCommand'
      BY <2>3, <2>7 DEF SameCommand, Carrying
    <3>5. ClosedEnds'
      BY <2>4, <2>5, <2>7, <3>1, <3>2 DEF ClosedEnds
    <3>6. Received' /\ OpenedOnce'
      BY <2>3, <2>7, <3>1 DEF Received, OpenedOnce, Carrying
    <3>7. AbortKills'
      BY <2>3, <2>4, <2>7, <3>2 DEF AbortKills, Aborting
    <3>8. CompleteFollows'
      BY <2>3, <2>7 DEF CompleteFollows
    <3>9. QED
      BY <3>3, <3>4, <3>5, <3>6, <3>7, <3>8 DEF Arrival
  <2>8. QED
    BY <2>2, <2>6, <2>7
<1>3. QED
  BY <1>1, <1>2

\* ^C where it is not handled.
LEMMA InterruptKillsArrives == Client!InterruptKills => Arrival'
BY GoneArrives DEF Client!InterruptKills, Client!Ends, Client!Gone

\* ^C during a transfer: the child is asked to hold still, or has been killed.
LEMMA InterruptArrives ==
    IInv /\ IInv' /\ Arrival /\ MainEffects /\ (Client!Interrupt \/ Client!InterruptLate)
    => Arrival'
<1> SUFFICES ASSUME IInv, IInv', Arrival, MainEffects, Client!Interrupt \/ Client!InterruptLate
             PROVE  Arrival'
  OBVIOUS
<1>1. CASE main' \in Client!Gone
  BY <1>1, GoneArrives
<1>2. CASE main' \notin Client!Gone
  <2>1. /\ main = "transfer"
        /\ \/ child = "born" /\ child' = "dead" /\ code' = Client!Signal
           \/ main' = "abor" /\ child # "born" /\ UNCHANGED <<child, code>>
              /\ sigterm' = (child # "dead")
        /\ main' = "abor" \/ (main' = "transfer" /\ child = "born")
        /\ UNCHANGED <<command, mode, accepting, verdict, answers>>
    BY <1>2 DEF Client!Interrupt, Client!InterruptLate, Client!Dies, Client!SendMsg,
       Client!mainVars, Client!wireVars, Client!Gone
  <2>2. /\ TypeOK /\ main \notin Client!Gone /\ child # "none"
        /\ command.verb \in Client!Transfers
    BY <2>1 DEF Client!Gone, IInv, Arrival, SameCommand, Carrying
  <2>3. /\ UNCHANGED <<ctl, request, replies, pipe, left, ferror, peer>>
        /\ Connected' => Connected
        /\ conn' = conn /\ flight' = flight
    BY <1>2, <2>1, <2>2, ClientLeaves DEF MainEffects
  <2>4. Aborting' <=> Aborting
    BY <2>1, <2>3 DEF Aborting
  <2>5. code' # 0 \/ UNCHANGED <<child, code>>
    BY <2>1 DEF Client!Signal
  <2>6. Ended => Ended' /\ UNCHANGED <<child, code>>
    BY <2>1 DEF Ended
  <2>7. Counted'
    BY <2>1 DEF Arrival, Counted
  <2>8. SameCommand'
    BY <2>1, <2>2, <2>3 DEF Arrival, SameCommand, Carrying
  <2>9. ClosedEnds'
    BY <2>1, <2>2, <2>3, <2>6 DEF Arrival, ClosedEnds
  <2>10. Received' /\ OpenedOnce'
    <3>1. CASE UNCHANGED <<child, code>>
      BY <2>1, <2>3, <3>1 DEF Arrival, Received, OpenedOnce, Carrying, Retrieves, Ended
    <3>2. CASE child' = "dead" /\ code' # 0
      BY <2>1, <2>3, <3>2 DEF Arrival, Received, OpenedOnce, Carrying
    <3>3. QED
      BY <2>1, <2>5, <3>1, <3>2
  <2>11. Aborting => Condemned' /\ Condemned /\ child # "born"
    <3>1. Aborting => Condemned
      BY <2>1 DEF Arrival, AbortKills
    <3>2. Condemned => child # "born"
      BY DEF Condemned, Waits, Ended, Client!Held
    <3>3. child # "born" /\ Condemned => Condemned'
      BY <2>1, <2>2 DEF Condemned, Waits, Ended, Client!Held
    <3>4. QED
      BY <3>1, <3>2, <3>3
  <2>12. Aborting => ~Unheard
    <3>1. SUFFICES ASSUME Aborting, answers # <<>> PROVE Head(answers) # 426
      BY DEF Unheard
    <3>2. Len(answers) = 1
      BY <2>1, <2>2, <3>1, OneLess DEF Arrival, Counted
    <3>3. Head(answers) = Last(answers)
      BY <2>2, <3>1, <3>2, Kinds DEF Last
    <3>4. ctl # "aborting"
      <4>1. ctl = "aborting" => Connected
        BY <2>2, StaysConnected
      <4>2. Connected /\ ctl = "aborting" => Len(answers) = 0
        BY <2>1 DEF IInv, Dialogue, Stands, Hears, Rests
      <4>3. QED
        BY <3>2, <4>1, <4>2
    <3>5. QED
      BY <3>1, <3>3, <3>4 DEF Aborting
  <2>13. child \in {"dead", "born", "armed", "opening", "moving"} \cup Client!Held
    BY <2>2 DEF TypeOK, Client!TypeOK
  <2>14. AbortKills'
    <3>1. main' = "abor" /\ ctl \in Works => verdict' = <<>> /\ (child' = "dead" \/ Waits')
      BY <2>1, <2>13 DEF Arrival, AbortKills, Waits, Client!Held
    <3>2. Unheard' <=> Unheard
      BY <2>1 DEF Unheard
    <3>3. ctl' \in Works /\ main' = "transfer" => verdict' = <<>>
      BY <2>1, <2>3 DEF Arrival, AbortKills
    <3>4. child' # "none" /\ main' \in {"abor", "transfer"}
      BY <2>1, <2>2
    <3>5. QED
      BY <2>3, <2>4, <2>11, <2>12, <3>1, <3>2, <3>3, <3>4 DEF AbortKills
  <2>15. CompleteFollows'
    <3>1. Len(answers) # 2
      BY <2>1 DEF Arrival, Counted
    <3>2. QED
      BY <2>1, <2>3, <2>4, <2>6, <3>1 DEF Arrival, CompleteFollows
  <2>16. QED
    BY <2>7, <2>8, <2>9, <2>10, <2>14, <2>15 DEF Arrival
<1>3. QED
  BY <1>1, <1>2

LEMMA UserArrives == IInv /\ IInv' /\ Arrival /\ UserStep => Arrival'
  BY InputArrives, InterruptKillsArrives, InterruptArrives DEF UserStep, Client!User

-----------------------------------------------------------------------------
(* The children, the data connection and the listener *)

\* A child there is runs beside a main process that waits for it, or for nothing.
LEMMA ChildFrame ==
    ASSUME IInv, Arrival, ChildStep, main \notin Client!Gone
    PROVE  /\ UNCHANGED <<main, command, mode, accepting, answers, ctl, request, replies,
                          pipe, left, ferror, peer>>
           /\ Connected' <=> Connected
           /\ ~Ended /\ main \notin {"greeting", "prompt", "waiting", "starting", "result"}
           /\ Aborting' <=> Aborting
           /\ Backlog = conn
<1>1. UNCHANGED <<main, command, mode, accepting, answers, host>>
  BY DEF ChildStep, ChildConnects, ChildCannotConnect, ChildReceives, ChildSends, ChildDone,
     ChildHeld, Client!ChildStarts, Client!ClosesPipe, Client!ChildOpens,
     Client!ChildCannotOpen, Client!ChildEnds, Client!ChildFails, Client!handle_abor_DTP, Client!HeldEnds,
     Client!childFrame, Client!mainVars, Client!wireVars, clientVars
<1>2. UNCHANGED <<ctl, request, replies, pipe, left, ferror, peer, listener>>
  BY DEF ChildStep, serverFrame, ctlVars, dtpVars
<1>3. child \in {"born", "armed", "opening", "moving"} \cup Client!Held
  BY DEF ChildStep, ChildConnects, ChildCannotConnect, ChildReceives, ChildSends, ChildDone,
     ChildHeld, Client!ChildStarts, Client!ClosesPipe, Client!ChildOpens,
     Client!ChildCannotOpen, Client!ChildEnds, Client!ChildFails, Client!handle_abor_DTP, Client!HeldEnds,
     Client!At, Client!Held
<1>4. ~Ended /\ main \notin {"greeting", "prompt", "waiting", "starting", "result"}
  BY <1>3 DEF Ended, IInv, Ends, Client!Held
<1>5. Connected' <=> Connected
  BY <1>1, <1>2 DEF Connected
<1>6. Aborting' <=> Aborting
  BY <1>1, <1>2 DEF Aborting
<1>7. Backlog = conn
  BY <1>1 DEF Backlog, ClientListens
<1>8. QED
  BY <1>1, <1>2, <1>4, <1>5, <1>6, <1>7 DEF IInv

\* Without a signal for it a child is not to be killed.
LEMMA ChildRuns ==
    ASSUME child \in {"born", "armed", "opening", "moving"}, ~sigterm
    PROVE  ~Condemned /\ ~Waits /\ child # "dead"
BY DEF Condemned, Waits, Ended, Client!Held

\* The child of the client takes what is on the data connection before it ends well.
LEMMA ChildArrives == IInv /\ Arrival /\ ChildStep => Arrival'
<1> SUFFICES ASSUME IInv, Arrival, ChildStep PROVE Arrival'
  OBVIOUS
<1>1. CASE main \in Client!Gone
  <2>1. main' = main
    BY DEF ChildStep, ChildConnects, ChildCannotConnect, ChildReceives, ChildSends, ChildDone,
       ChildHeld, Client!ChildStarts, Client!ClosesPipe, Client!ChildOpens,
       Client!ChildCannotOpen, Client!ChildEnds, Client!ChildFails, Client!handle_abor_DTP, Client!HeldEnds,
       Client!childFrame, Client!mainVars, clientVars
  <2>2. QED
    BY <1>1, <2>1, GoneArrives
<1>2. CASE main \notin Client!Gone
  <2>1. /\ UNCHANGED <<main, command, mode, accepting, answers, ctl, request, replies,
                       pipe, left, ferror, peer>>
        /\ Connected' <=> Connected
        /\ ~Ended /\ main \notin {"greeting", "prompt", "waiting", "starting", "result"}
        /\ Aborting' <=> Aborting
        /\ Backlog = conn
    BY <1>2, ChildFrame
  <2>2. /\ main \in {"forked", "transfer", "abor"} => command.verb \in Client!Transfers
        /\ conn \notin {"closed", "reset"}
        /\ ctl = "transfer" => peer \in {"none", "open"}
        /\ ~(main \in {"forked", "transfer", "result"} /\ answers = <<226>> /\ ~Aborting
             /\ command.verb = "STOR")
    BY <1>2, <2>1 DEF Arrival, ClosedEnds, SameCommand, Carrying, CompleteFollows
  <2>3. child' # "none"
    BY <2>1 DEF ChildStep, ChildConnects, ChildCannotConnect, ChildReceives, ChildSends,
       ChildDone, ChildHeld, Client!ChildStarts, Client!ClosesPipe, Client!ChildOpens,
       Client!ChildCannotOpen, Client!ChildEnds, Client!ChildFails, Client!handle_abor_DTP, Client!HeldEnds,
       Client!Resumes, Client!Dies, clientVars, Ended
  <2>4. Counted' /\ SameCommand'
    BY <2>1, <2>3 DEF Arrival, Counted, SameCommand, Carrying
  <2>5. ASSUME conn' \in {"closed", "reset"} => Ended' PROVE ClosedEnds'
    <3>1. ctl = "exited" => peer = "none"
      BY <1>2 DEF Arrival, ClosedEnds
    <3>2. ctl = "transfer" /\ pipe # <<>> /\ Head(pipe) = 0 /\ request.verb = "STOR" =>
              peer = "fin"
      BY <1>2 DEF Arrival, ClosedEnds
    <3>3. QED
      BY <2>1, <2>2, <2>5, <3>1, <3>2 DEF ClosedEnds
  <2>6. CompleteFollows'
    BY <2>1, <2>2 DEF Arrival, CompleteFollows
  <2>7. ASSUME conn' \in {"closed", "reset"} => Ended', Received', OpenedOnce', AbortKills'
        PROVE  Arrival'
    BY <2>4, <2>5, <2>6, <2>7 DEF Arrival
  <2>8. ASSUME child \in {"born", "armed", "opening", "moving"}, ~sigterm, UNCHANGED verdict
        PROVE  AbortKills'
    <3>1. ~Condemned /\ ~Waits /\ child # "dead"
      BY <2>8, ChildRuns
    <3>2. ~(main = "transfer" /\ Aborting) /\ main # "result"
          /\ ~(main = "abor" /\ (Aborting \/ ctl \in Works))
      BY <2>1, <3>1 DEF Arrival, AbortKills
    <3>3. QED
      BY <2>1, <2>3, <2>8, <3>2 DEF Arrival, AbortKills
  <2>9. CASE (Client!ChildStarts \/ Client!ClosesPipe) /\ UNCHANGED <<conn, flight>>
    <3>1. /\ \/ child = "born" /\ child' = "armed"
             \/ child = "armed" /\ child' = "opening"
          /\ ~sigterm /\ UNCHANGED <<verdict, code>>
      BY <2>9 DEF Client!ChildStarts, Client!ClosesPipe, Client!At
    <3>2. Received' /\ OpenedOnce'
      BY <2>1, <2>9, <3>1 DEF Arrival, Received, OpenedOnce, Ended
    <3>3. QED
      BY <2>2, <2>7, <2>8, <2>9, <3>1, <3>2
  <2>10. CASE ChildConnects
    <3>1. /\ child = "opening" /\ child' = "moving" /\ ~sigterm /\ UNCHANGED verdict
          /\ conn' \in {"queued", "up"} /\ (mode = "PORT" => conn = "queued")
      BY <2>10 DEF ChildConnects, Client!ChildOpens, Client!At
    <3>2. Received' /\ OpenedOnce'
      BY <2>1, <3>1 DEF Arrival, Received, OpenedOnce, Ended
    <3>3. QED
      BY <2>7, <2>8, <3>1, <3>2
  <2>11. CASE ChildCannotConnect
    <3>1. /\ child = "opening" /\ child' = "dead" /\ code' = 1 /\ ~sigterm /\ UNCHANGED verdict
          /\ conn' \in {"none", "closed"}
      BY <2>1, <2>11 DEF ChildCannotConnect, Client!ChildCannotOpen, Client!At, Client!Dies
    <3>2. Received' /\ OpenedOnce'
      BY <3>1 DEF Received, OpenedOnce
    <3>3. QED
      BY <2>7, <2>8, <3>1, <3>2 DEF Ended
  <2>12. CASE ChildReceives \/ ChildSends
    <3>1. /\ child = "moving" /\ ~sigterm /\ UNCHANGED <<child, verdict, code, conn>>
      BY <2>12 DEF ChildReceives, ChildSends, Client!At, clientVars
    <3>2. Received' /\ OpenedOnce'
      BY <2>1, <3>1 DEF Arrival, Received, OpenedOnce, Ended
    <3>3. QED
      BY <2>2, <2>7, <2>8, <3>1, <3>2
  <2>13. CASE ChildDone
    <3>1. /\ child = "moving" /\ child' = "dead" /\ ~sigterm /\ UNCHANGED verdict
          /\ conn' = "closed" /\ flight' = flight
          /\ Retrieves => flight = 0
      BY <2>13 DEF ChildDone, Client!ChildEnds, Client!ChildFails, Client!At, Client!Dies
    <3>2. Received' /\ OpenedOnce'
      BY <2>1, <3>1 DEF Arrival, Received, OpenedOnce, Retrieves
    <3>3. QED
      BY <2>7, <2>8, <3>1, <3>2 DEF Ended
  <2>14. CASE ChildHeld /\ Client!handle_abor_DTP
    <3>1. /\ sigterm /\ UNCHANGED <<verdict, code>>
          /\ \/ child = "armed" /\ child' = "heldArmed"
             \/ child = "opening" /\ child' = "heldOpening"
             \/ child = "moving" /\ child' = "heldMoving"
          /\ conn' = conn
      BY <2>1, <2>14 DEF ChildHeld, Client!handle_abor_DTP
    <3>2. Received' /\ OpenedOnce'
      BY <2>1, <3>1 DEF Arrival, Received, OpenedOnce, Ended
    <3>3. Condemned => Condemned'
      BY <2>1, <3>1 DEF Condemned, Waits, Client!Held
    <3>4. Waits'
      BY <3>1 DEF Waits, Client!Held
    <3>5. AbortKills'
      BY <2>1, <2>3, <3>1, <3>3, <3>4 DEF Arrival, AbortKills, Unheard
    <3>6. QED
      BY <2>2, <2>7, <3>1, <3>2, <3>5
  <2>15. CASE ChildHeld /\ Client!HeldEnds
    <3>1. /\ child \in Client!Held /\ verdict # <<>>
          /\ \/ Head(verdict) = 0 /\ child' = "dead" /\ code' = 2
             \/ Head(verdict) # 0 /\ Client!Resumes
      BY <1>2, <2>15 DEF Client!HeldEnds, Client!Dies
    <3>2. \/ child' = "dead" /\ code' # 0
          \/ child = "heldArmed" /\ child' = "armed" /\ UNCHANGED code
          \/ child = "heldMoving" /\ child' = "moving" /\ UNCHANGED code
          \/ child = "heldOpening" /\ child' = "opening" /\ UNCHANGED code
      BY <3>1 DEF Client!Resumes, Client!Dies, Client!Held
    <3>3. conn' \in {"closed", conn} /\ (conn' = "closed" => child' = "dead" \/ conn = "closed")
      BY <2>1, <2>15 DEF ChildHeld
    <3>4. Received' /\ OpenedOnce'
      BY <2>1, <3>2, <3>3 DEF Arrival, Received, OpenedOnce, Ended
    <3>5. AbortKills'
      <4>1. Condemned => Condemned'
        BY <2>1, <3>1 DEF Condemned, Ended
      <4>2. /\ ~(main = "abor" /\ (ctl \in Works \/ (Aborting /\ Unheard)))
            /\ ~(main \in {"forked", "transfer"} /\ ctl \in Works)
        BY <3>1 DEF Arrival, AbortKills
      <4>3. QED
        BY <2>1, <2>3, <4>1, <4>2 DEF Arrival, AbortKills, Unheard
    <3>6. QED
      BY <2>2, <2>7, <3>2, <3>3, <3>4, <3>5 DEF Ended
  <2>16. QED
    BY <2>9, <2>10, <2>11, <2>12, <2>13, <2>14, <2>15 DEF ChildStep, ChildHeld
<1>3. QED
  BY <1>1, <1>2

\* What the client closed is seen by the server with what was on the connection then.
LEMMA CloseArrivesArrives == IInv /\ Arrival /\ CloseArrives => Arrival'
<1> SUFFICES ASSUME IInv, Arrival, CloseArrives PROVE Arrival'
  OBVIOUS
<1>1. /\ UNCHANGED <<main, command, mode, accepting, child, code, sigterm, verdict, answers,
                     host, listener, ctl, request, replies, pipe, ferror, flight>>
      /\ conn \in {"closed", "reset"} /\ conn' = "none"
      /\ peer = "open" /\ peer' \in {"reset", "fin"}
      /\ left' = IF peer' = "fin" /\ request.verb = "STOR" THEN flight ELSE left
  BY DEF CloseArrives, Server!PeerCloses, Server!ctlVars, clientVars
<1>2. CASE main \in Client!Gone
  BY <1>1, <1>2, GoneArrives
<1>3. CASE main \notin Client!Gone
  <2>1. /\ Ended /\ main # "starting" /\ ctl # "exited" /\ ctl # "reading"
        /\ Connected' <=> Connected
        /\ Aborting' <=> Aborting
    <3>1. Ended /\ main # "starting" /\ ctl # "exited"
      BY <1>1, <1>3 DEF Arrival, ClosedEnds
    <3>2. ctl # "reading"
      BY <1>1 DEF IInv, OneConnection
    <3>3. QED
      BY <1>1, <3>1, <3>2 DEF Connected, Aborting
  <2>2. Connected
    BY <1>3, <2>1, StaysConnected
  <2>3. Counted' /\ SameCommand'
    BY <1>1, <2>1 DEF Arrival, Counted, SameCommand, Carrying
  <2>4. ClosedEnds'
    <3>1. Ended'
      BY <1>1, <2>1 DEF Ended
    <3>2. ~(ctl = "transfer" /\ pipe # <<>> /\ Head(pipe) = 0 /\ request.verb = "STOR")
      BY <1>1, <1>3 DEF Arrival, ClosedEnds
    <3>3. QED
      BY <1>1, <2>1, <3>1, <3>2 DEF ClosedEnds
  <2>5. Received' /\ OpenedOnce'
    BY <1>1 DEF Arrival, Received, OpenedOnce, Carrying, Ended, Retrieves
  <2>6. AbortKills'
    BY <1>1, <2>1 DEF Arrival, AbortKills, Condemned, Waits, Ended, Unheard
  <2>7. CompleteFollows'
    <3>1. ASSUME main \in {"forked", "transfer", "result"}
          PROVE  request = command
      <4>1. ctl \in {"transfer", "aborting", "reaping", "exiting"}
        BY <1>1, <2>1 DEF IInv, OneConnection
      <4>2. ctl # "exiting"
        BY <2>2, <3>1 DEF IInv, Dialogue, Stands, Hears, Works, Rests
      <4>3. QED
        BY <2>2, <3>1, <4>1, <4>2 DEF Arrival, SameCommand, Carrying, Works
    <3>2. QED
      BY <1>1, <2>1, <3>1 DEF Arrival, CompleteFollows, Ended
  <2>8. QED
    BY <2>3, <2>4, <2>5, <2>6, <2>7 DEF Arrival
<1>4. QED
  BY <1>2, <1>3

\* Where the server is while its child opens the file, moves data or ends.
LEMMA DtpAt ==
    ASSUME IInv, main \notin Client!Gone, dtp # "none"
    PROVE  /\ Connected
           /\ ctl \notin {"reading", "handling", "opening", "exited"}
           /\ dtp \in {"opening", "moving"} => ctl # "reaping" /\ pipe = <<>>
<1>1. ctl # "exited" /\ listener = "forked"
  BY DEF IInv, Ends, Unforked
<1>2. ctl \notin {"reading", "handling", "opening"}
  BY DEF IInv, Server!IInv, Server!NothingLeft
<1>3. dtp \in {"opening", "moving"} => ctl # "reaping" /\ pipe = <<>>
  BY DEF IInv, Server!IInv, Server!ResultFits
<1>4. QED
  BY <1>1, <1>2, <1>3, StaysConnected

\* The child of the server reports a file stored when the client has closed.
LEMMA DtpArrives == IInv /\ Arrival /\ DtpStep => Arrival'
<1> SUFFICES ASSUME IInv, Arrival, DtpStep PROVE Arrival'
  OBVIOUS
<1>1. /\ UNCHANGED <<main, command, mode, accepting, child, code, sigterm, verdict, answers,
                     host, listener, conn>>
      /\ UNCHANGED <<ctl, request, replies>>
      /\ dtp # "none"
  BY DEF DtpStep, DtpSends, DtpReceives, Server!ChildCannotOpen, Server!ChildOpens,
     Server!SendBlock, Server!SendFails, Server!SendKills, Server!SentAll,
     Server!ReceiveBlock, Server!ReceiveEnds, Server!ChildExits, Server!close_DTP,
     Server!childFrame, Server!ctlVars, Server!Sends, Server!Moving, clientVars
<1>2. CASE main \in Client!Gone
  BY <1>1, <1>2, GoneArrives
<1>3. CASE main \notin Client!Gone
  <2>1. /\ Connected
        /\ ctl \notin {"reading", "handling", "opening", "exited"}
        /\ dtp \in {"opening", "moving"} => ctl # "reaping" /\ pipe = <<>>
    BY <1>1, <1>3, DtpAt
  <2>2. Aborting' <=> Aborting
    BY <1>1 DEF Aborting
  <2>3. \/ /\ dtp = "moving" /\ request.verb \in {"RETR", "LIST"} /\ left > 0
           /\ peer \in {"open", "fin"}
           /\ peer' = peer \/ (peer = "fin" /\ peer' = "broken")
           /\ flight' = IF conn \in {"queued", "up"} THEN flight + 1 ELSE flight
           /\ pipe' = pipe
        \/ /\ dtp = "moving" /\ request.verb = "STOR" /\ left > 0 /\ flight > 0
           /\ left' = left - 1 /\ flight' = flight - 1
           /\ UNCHANGED <<pipe, peer>>
        \/ /\ UNCHANGED <<flight, left, peer>>
           /\ \/ UNCHANGED <<pipe, ferror>>
              \/ dtp \in {"opening", "moving"}
                 /\ \E how \in {0, 1, 2} :
                       /\ pipe' = Append(pipe, how)
                       /\ how = 0 => request.verb # "STOR" \/ peer = "fin"
    <3>1. CASE DtpSends
      BY <3>1 DEF DtpSends, Server!SendBlock, Server!Sends, Server!Moving
    <3>2. CASE DtpReceives
      BY <3>2 DEF DtpReceives, Server!ReceiveBlock, Server!Moving
    <3>3. CASE UNCHANGED flight /\ Server!SentAll
      BY <3>3 DEF Server!SentAll, Server!Sends, Server!Moving, Server!Writes
    <3>4. CASE /\ UNCHANGED flight
               /\ Server!ChildCannotOpen \/ Server!SendFails \/ Server!ReceiveEnds
      BY <3>4 DEF Server!ChildCannotOpen, Server!SendFails, Server!ReceiveEnds,
         Server!Sends, Server!Moving, Server!Writes
    <3>5. CASE /\ UNCHANGED flight
               /\ \/ Server!ChildOpens \/ Server!SendKills
                  \/ Server!ChildExits \/ Server!close_DTP
      BY <3>5 DEF Server!ChildOpens, Server!SendKills, Server!ChildExits, Server!close_DTP
    <3>6. QED
      BY <3>1, <3>2, <3>3, <3>4, <3>5 DEF DtpStep
  <2>4. ASSUME NEW how \in {0, 1, 2}, pipe = <<>>, pipe' = Append(pipe, how)
        PROVE  Head(pipe') = how
    BY <2>4
  <2>5. flight \in Nat /\ left \in Nat
    BY TransferAssumption DEF IInv, TypeOK, Server!TypeOK
  <2>6. ASSUME dtp \in {"opening", "moving"}
        PROVE  main = "starting" => ctl = "transfer" /\ request = command /\ peer = "open"
    <3>1. SUFFICES ASSUME main = "starting"
                   PROVE  ctl = "transfer" /\ request = command /\ peer = "open"
      OBVIOUS
    <3>2. ctl = "transfer" /\ Len(answers) # 0
      BY <2>1, <2>6, <3>1 DEF IInv, Dialogue, Stands, Hears, Asked, Works, Rests
    <3>3. Len(<<>>) = 0
      OBVIOUS
    <3>4. answers # <<>>
      BY <3>2, <3>3, Zenon
    <3>5. request = command
      BY <2>1, <3>1, <3>2, <3>4 DEF Arrival, SameCommand, Works
    <3>6. peer = "open"
      BY <2>1, <3>1, <3>2 DEF Arrival, ClosedEnds
    <3>7. QED
      BY <3>2, <3>5, <3>6
  <2>7. Connected' <=> Connected
    BY <1>1 DEF Connected
  <2>14. ASSUME dtp \in {"opening", "moving"}
         PROVE  CompleteFollows'
    <3>1. ctl \notin Rests
      BY <2>1, <2>14 DEF Rests
    <3>2. /\ main \in {"forked", "transfer", "result"} => Len(answers) = 0
          /\ main = "starting" => Len(answers) \in 0..1
      BY <2>1, <3>1 DEF IInv, Dialogue, Stands, Hears, Asked
    <3>3. Len(<< 226 >>) = 1
      OBVIOUS
    <3>4. ~(main \in {"forked", "transfer", "result"} /\ answers = << 226 >>)
      BY <3>2, <3>3
    <3>5. ~(main = "starting" /\ Len(answers) = 2)
      BY <3>2
    <3>6. main = "abor" /\ Len(answers) = 2 /\ answers[2] = 226 => Aborting
      BY DEF Arrival, CompleteFollows
    <3>7. QED
      BY <1>1, <2>2, <3>4, <3>5, <3>6 DEF CompleteFollows
  <2>8. Counted' /\ SameCommand' /\ OpenedOnce'
    BY <1>1, <2>7 DEF Arrival, Counted, SameCommand, OpenedOnce, Carrying, Ended
  <2>9. AbortKills'
    BY <1>1, <2>2 DEF Arrival, AbortKills, Condemned, Waits, Ended, Unheard
  <2>10. CASE /\ dtp = "moving" /\ request.verb \in {"RETR", "LIST"} /\ left > 0
              /\ peer \in {"open", "fin"}
              /\ peer' = peer \/ (peer = "fin" /\ peer' = "broken")
              /\ flight' = IF conn \in {"queued", "up"} THEN flight + 1 ELSE flight
              /\ pipe' = pipe
    <3>1. request.verb # "STOR" /\ pipe = <<>> /\ ctl # "exited"
      BY <2>1, <2>10
    <3>2. main = "starting" => command.verb # "STOR" /\ peer' = "open"
      BY <2>6, <2>10, <3>1
    <3>3. ClosedEnds'
      BY <1>1, <2>7, <2>10, <3>1, <3>2 DEF Arrival, ClosedEnds, Ended
    <3>4. Received'
      BY <1>1, <2>10 DEF Arrival, Received, Ended, Carrying, Retrieves
    <3>5. CompleteFollows'
      BY <2>10, <2>14
    <3>6. QED
      BY <2>8, <2>9, <3>3, <3>4, <3>5 DEF Arrival
  <2>11. CASE /\ dtp = "moving" /\ request.verb = "STOR" /\ left > 0 /\ flight > 0
              /\ left' = left - 1 /\ flight' = flight - 1
              /\ UNCHANGED <<pipe, peer>>
    <3>1. flight # 0 /\ left # 0 /\ (flight = left => flight' = left') /\ pipe = <<>>
      BY <2>1, <2>5, <2>11
    <3>2. main # "starting"
      BY <2>6, <2>11, <3>1 DEF Arrival, ClosedEnds
    <3>3. ClosedEnds'
      BY <1>1, <2>7, <2>11, <3>1, <3>2 DEF Arrival, ClosedEnds, Ended
    <3>4. Received'
      BY <1>1, <3>1 DEF Arrival, Received, Ended, Carrying, Retrieves
    <3>5. CompleteFollows'
      BY <2>11, <2>14
    <3>6. QED
      BY <2>8, <2>9, <3>3, <3>4, <3>5 DEF Arrival
  <2>12. CASE /\ UNCHANGED <<flight, left, peer>>
              /\ \/ UNCHANGED <<pipe, ferror>>
                 \/ dtp \in {"opening", "moving"}
                    /\ \E how \in {0, 1, 2} :
                          /\ pipe' = Append(pipe, how)
                          /\ how = 0 => request.verb # "STOR" \/ peer = "fin"
    <3>1. pipe' # <<>> /\ Head(pipe') = 0 /\ request.verb = "STOR" =>
             peer = "fin" \/ pipe' = pipe
      BY <2>1, <2>4, <2>12
    <3>2. ClosedEnds'
      BY <1>1, <1>3, <2>7, <2>12, <3>1 DEF Arrival, ClosedEnds, Ended
    <3>3. Received'
      BY <1>1, <2>12 DEF Arrival, Received, Ended, Carrying, Retrieves
    <3>4. CompleteFollows'
      <4>1. CASE dtp \in {"opening", "moving"}
        BY <2>14, <4>1
      <4>2. CASE UNCHANGED ferror
        BY <1>1, <2>2, <2>12, <4>2 DEF Arrival, CompleteFollows, Ended
      <4>3. QED
        BY <2>12, <4>1, <4>2
    <3>5. QED
      BY <2>8, <2>9, <3>2, <3>3, <3>4 DEF Arrival
  <2>13. QED
    BY <2>3, <2>10, <2>11, <2>12, Zenon
<1>4. QED
  BY <1>2, <1>3

\* The listener greets a client that has done nothing yet, or has gone.
LEMMA ListenerArrives == IInv /\ IInv' /\ Arrival /\ (Accepts \/ CannotFork) => Arrival'
<1> SUFFICES ASSUME IInv, IInv', Arrival, Accepts \/ CannotFork PROVE Arrival'
  OBVIOUS
<1>1. /\ UNCHANGED <<main, child, verdict, ctl, peer>>
      /\ listener = "accepting"
      /\ \E c \in {220, 500} : answers' = Append(answers, c)
  BY DEF Accepts, CannotFork, clientVars, serverVars, ctlVars
<1>2. main \in {"greeting", "exited", "killed"} /\ answers = <<>> /\ TypeOK
  BY <1>1 DEF IInv, Unforked
<1>3. CASE main \in {"exited", "killed"}
  BY <1>1, <1>3, GoneArrives DEF Client!Gone
<1>4. CASE main = "greeting"
  <2>1. Len(answers') = 1
    BY <1>1, <1>2
  <2>2. Counted'
    BY <1>1, <1>4, <2>1 DEF Counted
  <2>3. main \notin Client!Gone /\ child = "none"
    BY <1>4 DEF Client!Gone, IInv, Ends
  <2>4. verdict' = <<>> /\ (ctl' = "exited" => peer' = "none")
    BY <1>1, <2>3 DEF Arrival, AbortKills, ClosedEnds
  <2>5. QED
    BY <1>1, <1>4, <2>2, <2>4, IdleArrives
<1>5. QED
  BY <1>2, <1>3, <1>4

-----------------------------------------------------------------------------
(* The control process *)

\* While the server works on a command: how many replies are on the way, and that it
\* works on the command of the client.
LEMMA AtWork ==
    ASSUME IInv, Arrival, Connected
    PROVE  /\ main \notin {"exited", "killed"}
           /\ ctl \notin {"exiting", "exited"}
           /\ ctl \in {"handling", "opening", "transfer", "aborting"} =>
                 /\ main \notin {"greeting", "prompt"}
                 /\ main \in {"waiting", "forked", "transfer", "result"} => answers = <<>>
                 /\ Len(answers) \in 0..1
           /\ ctl = "handling" /\ main \in {"starting", "waiting"} =>
                 request = Line /\ answers = <<>>
           /\ ctl = "handling" => main # "forked"
           /\ ctl = "handling" /\ main \in {"transfer", "result", "abor", "exiting"} =>
                 request = Abor
           /\ ctl \in Works /\ main = "starting" => Len(answers) = 1 /\ Head(answers) = 150
           /\ ctl \in Works /\ main \in {"abor", "exiting"} => inbox = <<Abor>> /\ answers = <<>>
           /\ ctl \in Works => main # "waiting"
           /\ ctl = "aborting" => main \in {"transfer", "result", "abor", "exiting"}
           /\ inbox # <<>> /\ ctl \in Works \cup {"aborting"} => main \in {"abor", "exiting"}
           /\ inbox # <<>> /\ main \in {"starting", "forked", "transfer", "result"} =>
                 answers = <<>>
           /\ inbox # <<>> /\ main = "abor" => Len(answers) \in 0..1
<1>1. TypeOK /\ main \notin {"exited", "killed"} /\ listener = "forked" /\ link = "up"
  BY DEF Connected, Client!Gone, IInv, Ends
<1>2. main \in {"greeting", "prompt", "waiting", "starting", "forked", "transfer", "abor",
                "result", "exiting"}
  BY <1>1, Kinds
<1>3. answers = <<>> <=> Len(answers) = 0
  BY <1>1, OneLess
<1>4. <<Abor>> # <<>> /\ <<Line>> # <<>> /\ <<Abor, Abor>> # <<>>
  OBVIOUS
<1>5. ctl \in {"handling", "opening", "transfer", "aborting"} => Len(answers) \in 0..1
  BY <1>1, BusyBounds
<1>6. CASE main = "greeting"
  BY <1>1, <1>6 DEF IInv, Dialogue, Stands, Works
<1>7. CASE main = "prompt"
  BY <1>1, <1>7 DEF IInv, Dialogue, Stands, Works, Rests
<1>8. CASE main = "waiting"
  BY <1>1, <1>3, <1>5, <1>8 DEF IInv, Dialogue, Stands, Hears, Asked, Works, Rests
<1>9. CASE main = "starting"
  BY <1>1, <1>3, <1>4, <1>5, <1>9 DEF IInv, Dialogue, Stands, Hears, Asked, Works, Rests
<1>10. CASE main = "forked"
  BY <1>1, <1>3, <1>4, <1>5, <1>10 DEF IInv, Dialogue, Stands, Works, Rests
<1>11. CASE main \in {"transfer", "result"}
  BY <1>1, <1>3, <1>4, <1>5, <1>11 DEF IInv, Dialogue, Stands, Hears, Works, Rests
<1>12. CASE main \in {"abor", "exiting"}
  BY <1>1, <1>3, <1>4, <1>5, <1>12 DEF IInv, Dialogue, Stands, Hears, Works, Rests
<1>13. QED
  BY <1>2, <1>6, <1>7, <1>8, <1>9, <1>10, <1>11, <1>12

\* A step of the control process that answers while the client is there.
LEMMA Replies ==
    ASSUME IInv, Connected, NEW c \in Nat, NEW next, Server!Send(c, next), answers' = Answers
    PROVE  /\ ctl' = next
           /\ replies' = Append(replies, c)
           /\ answers' = Append(answers, c)
           /\ Len(answers) = 1 => Len(answers') = 2
           /\ Len(answers) \in 0..1 => Len(answers') \in 1..2
           /\ answers' # <<>>
           /\ Last(answers') = c
           /\ answers # <<>> => Head(answers') = Head(answers)
           /\ answers = <<>> => answers' = <<c>> /\ Head(answers') = c /\ Len(answers') = 1
           /\ Len(answers') = 2 => answers'[2] = c
<1>1. TypeOK /\ link = "up"
  BY DEF Connected, IInv, Ends
<1>2. Says(c, next)
  BY <1>1, ReplyArrives
<1>3. ctl' = next /\ answers' = Append(answers, c)
  BY <1>1, <1>2 DEF Says
<1>4. replies' = Append(replies, c)
  BY <1>1 DEF Server!Send
<1>5. /\ Len(answers') = Len(answers) + 1 /\ answers' # <<>>
      /\ answers # <<>> => Head(answers') = Head(answers)
      /\ answers = <<>> => Head(answers') = c
      /\ Len(answers) \in Nat
  BY <1>1, <1>3, OneMore, Kinds
<1>6. answers \in Seq(Nat)
  BY <1>1, Kinds
<1>7. answers'[Len(answers')] = c
  BY <1>3, <1>5, <1>6, AppendProperties
<1>8. Last(answers') = c
  BY <1>7 DEF Last
<1>9. Len(answers') = 2 => answers'[2] = c
  BY <1>7
<1>10. answers = <<>> => answers' = <<c>>
  BY <1>3
<1>11. /\ Len(answers) = 1 => Len(answers') = 2
       /\ Len(answers) \in 0..1 => Len(answers') \in 1..2
  <2>1. Len(answers') = Len(answers) + 1 /\ Len(answers) \in Nat
    BY <1>1, <1>5, Kinds
  <2>2. ASSUME NEW m \in Nat, NEW n, n = m + 1
        PROVE  (m = 1 => n = 2) /\ (m \in 0..1 => n \in 1..2)
    BY <2>2
  <2>3. QED
    BY <2>1, <2>2, Zenon
<1>12. answers = <<>> => Len(answers') = 1
  BY <1>10
<1>13. QED
  BY <1>3, <1>4, <1>5, <1>8, <1>9, <1>10, <1>11, <1>12

\* What the server has said of a transfer then.
LEMMA Said ==
    ASSUME NEW c \in Nat
    PROVE  /\ Append(<<150>>, c) = <<150, c>>
           /\ Append(<<150, 426>>, c) = <<150, 426, c>>
BY ServerProofs!AppendToOne, ServerProofs!AppendToTwo, TransferAssumption
   DEF SplitLines, Server!Request, ServerProofs!Request, Server!Verb, ServerProofs!Verb,
       Server!Numeral, ServerProofs!Numeral

\* When the server opens the data connection the client expects it.
LEMMA OpensInMode == IInv => ModesAgree
<1> SUFFICES ASSUME IInv, ctl = "opening", main \notin Client!Gone
             PROVE  status = mode
  BY DEF ModesAgree
<1>1. Connected
  BY StaysConnected
<1>2. status \in {"PORT", "PASV"}
  BY DEF IInv, ModeFollows
<1>3. main # "waiting"
  <2> SUFFICES ASSUME main = "waiting"
               PROVE  FALSE
    OBVIOUS
  <2>1. Asked \/ Stands({"reading"}, <<>>, 1)
    BY <1>1 DEF IInv, Dialogue
  <2>2. QED
    BY <2>1 DEF Asked, Hears, Stands, Rests
<1>4. QED
  BY <1>1, <1>2, <1>3 DEF IInv, ModeFollows

\* Nothing connects to a client whose child has ended well.
LEMMA Connecting ==
    ASSUME IInv, Arrival, ctl = "opening", main \notin Client!Gone,
           UNCHANGED <<main, command, mode, child, code, flight>>,
           Connects \/ conn' = conn
    PROVE  /\ conn' \in {"closed", "reset"} => conn' = conn
           /\ main = "starting" => conn' = "none" \/ (conn' = "queued" /\ mode = "PORT")
           /\ Received'
<1>1. status = mode /\ status \in {"PORT", "PASV"}
  BY OpensInMode DEF ModesAgree, IInv, ModeFollows
<1>2. conn' \in {"closed", "reset"} => conn' = conn
  BY DEF Connects
<1>3. main = "starting" => conn' = "none" \/ (conn' = "queued" /\ mode = "PORT")
  <2>1. main = "starting" => conn = "none" \/ (conn = "queued" /\ mode = "PORT")
    BY DEF Arrival, ClosedEnds
  <2>2. QED
    BY <1>1, <2>1 DEF Connects
<1>4. Received'
  <2>1. SUFFICES ASSUME main \in Carrying, Ended, code = 0, Retrieves
                 PROVE  flight = 0 /\ conn' \notin {"queued", "up"}
    BY DEF Received, Ended, Retrieves, Carrying
  <2>2. flight = 0 /\ conn \notin {"queued", "up"}
    BY <2>1 DEF Arrival, Received
  <2>3. mode # "PORT"
    BY <2>1 DEF Arrival, OpenedOnce
  <2>4. QED
    BY <1>1, <2>2, <2>3 DEF Connects
<1>5. QED
  BY <1>2, <1>3, <1>4

\* What a step of the control process leaves alone, and where it begins.
LEMMA ControlOf ==
    ASSUME IInv, ControlStep, main \notin Client!Gone
    PROVE  /\ Connected /\ TypeOK /\ answers' = Answers
           /\ UNCHANGED <<main, command, mode, child, code, sigterm, verdict, flight>>
           /\ Connected' <=> ctl' # "exited"
           /\ main' \notin Client!Gone
           /\ ctl # "opening" => conn' = conn
<1>1. /\ listener = "forked" /\ listener' = "forked"
      /\ answers' = Answers
      /\ host' = "up" <=> ctl' # "exited"
      /\ UNCHANGED <<main, command, mode, child, code, sigterm, verdict, flight>>
      /\ ctl # "opening" => UNCHANGED conn
      /\ TypeOK
      /\ host = "up"
  BY ControlFrame
<1>2. Connected
  BY <1>1 DEF Connected
<1>3. Connected' <=> ctl' # "exited"
  BY <1>1 DEF Connected
<1>4. QED
  BY <1>1, <1>2, <1>3

\* After a step that leaves the server with no transfer.
LEMMA RestArrives ==
    ASSUME IInv, Arrival, ControlStep, main \notin Client!Gone,
           ctl' \notin {"opening", "transfer", "aborting", "reaping"},
           Counted', CompleteFollows', Received',
           ctl' = "exited" => peer' = "none",
           Aborting' => Aborting /\ answers' = answers,
           conn' \in {"closed", "reset"} => conn' = conn,
           main = "starting" =>
               /\ conn' = "none" \/ (conn' = "queued" /\ mode = "PORT")
               /\ answers' = <<>> => answers = <<>> /\ conn' = conn
    PROVE  Arrival'
<1>1. /\ Connected /\ main' \notin Client!Gone
      /\ UNCHANGED <<main, command, mode, child, code, sigterm, verdict, flight>>
  BY ControlOf
<1>2. SameCommand'
  BY <1>1 DEF Arrival, SameCommand, Carrying, Works
<1>3. ClosedEnds'
  BY <1>1 DEF Arrival, ClosedEnds, Ended
<1>4. OpenedOnce'
  BY DEF OpenedOnce
<1>5. AbortKills'
  <2>1. Condemned' <=> Condemned
    BY <1>1 DEF Condemned, Waits, Ended
  <2>2. Waits' <=> Waits
    BY <1>1 DEF Waits
  <2>3. Aborting' => (Unheard' <=> Unheard)
    BY DEF Unheard
  <2>4. QED
    BY <1>1, <2>1, <2>2, <2>3 DEF Arrival, AbortKills, Works
<1>6. QED
  BY <1>2, <1>3, <1>4, <1>5 DEF Arrival

\* A step that leaves the data connection alone does so for Received.
LEMMA StillReceived ==
    ASSUME Arrival, UNCHANGED <<main, command, child, code, flight, conn>>
    PROVE  Received'
BY DEF Arrival, Received, Ended, Retrieves, Carrying

\* A command is read, and the session left.
LEMMA ReadArrives ==
    IInv /\ Arrival /\ ControlStep /\ main \notin Client!Gone
        /\ (Server!ReadCommand \/ Server!SessionEnds)
    => Arrival'
<1> SUFFICES ASSUME IInv, Arrival, ControlStep, main \notin Client!Gone,
                    Server!ReadCommand \/ Server!SessionEnds
             PROVE  Arrival'
  OBVIOUS
<1>1. /\ Connected /\ TypeOK /\ answers' = Answers
      /\ UNCHANGED <<main, command, mode, child, code, flight>>
      /\ ctl # "opening" => conn' = conn
  BY ControlOf
<1>2. /\ ctl = "reading" /\ UNCHANGED <<peer, left, ferror>>
      /\ \/ ctl' = "handling" /\ replies' = <<>> /\ inbox # <<>>
         \/ ctl' = "exited" /\ replies' = replies
  BY DEF Server!ReadCommand, Server!SessionEnds, Server!dtpVars, Server!netVars, Server!Reads
<1>3. answers' = answers
  BY <1>1, <1>2, NoReply
<1>4. Counted'
  BY <1>1, <1>3 DEF Arrival, Counted
<1>5. Aborting' => Aborting
  BY <1>2, <1>3 DEF Aborting
<1>6. Aborting /\ ctl' = "exited" => Aborting'
  BY <1>2, <1>3 DEF Aborting
<1>7. CompleteFollows'
  <2>1. inbox # <<>> => /\ main = "abor" => Len(answers) # 2
                        /\ main \in {"forked", "transfer", "result"} => answers # <<226>>
    BY <1>1, AtWork
  <2>2. QED
    BY <1>1, <1>2, <1>3, <1>6, <2>1 DEF Arrival, CompleteFollows, Ended
<1>8. conn' = conn /\ Received'
  BY <1>1, <1>2, StillReceived
<1>9. peer = "none"
  BY <1>2 DEF IInv, OneConnection
<1>10. main = "starting" => conn = "none" \/ (conn = "queued" /\ mode = "PORT")
  BY DEF Arrival, ClosedEnds
<1>11. QED
  BY <1>2, <1>3, <1>4, <1>5, <1>7, <1>8, <1>9, <1>10, RestArrives

\* A command that is answered, but not with 226, which only transfers are.
LEMMA HandledArrives ==
    ASSUME IInv, Arrival, ControlStep, main \notin Client!Gone,
           ctl = "handling", UNCHANGED <<peer, left, ferror>>,
           NEW c \in Nat \ {226}, NEW next \in {"reading", "exited"}, Server!Send(c, next)
    PROVE  Arrival'
<1>1. /\ Connected /\ TypeOK /\ answers' = Answers
      /\ UNCHANGED <<main, command, mode, child, code, flight>>
      /\ conn' = conn
  BY ControlOf
<1>2. /\ ctl' = next /\ replies' = Append(replies, c)
      /\ answers' # <<>>
      /\ Len(answers) \in 0..1 => Len(answers') \in 1..2
      /\ answers = <<>> => answers' = <<c>> /\ Len(answers') = 1
      /\ Len(answers') = 2 => answers'[2] = c
  BY <1>1, Replies
<1>3. /\ main \notin {"greeting", "prompt", "forked"}
      /\ main \in {"starting", "waiting", "transfer", "result"} => answers = <<>>
      /\ Len(answers) \in 0..1
  BY <1>1, AtWork
<1>4. Len(answers') \in 1..2 /\ (answers = <<>> => Len(answers') = 1)
  BY <1>2, <1>3
<1>5. main \in {"starting", "waiting", "transfer", "result"} =>
          Len(answers') = 1 /\ answers' # <<226>>
  BY <1>2, <1>3, <1>4
<1>6. main' = main
  BY <1>1
<1>7. Counted'
  <2>1. main = "abor" => Len(answers') \in 0..2
    BY <1>4
  <2>2. main \in {"waiting", "transfer", "result"} => Len(answers') \in 0..1
    BY <1>5
  <2>3. main = "starting" => Len(answers') \in 0..2 /\ Len(answers') # 2
    BY <1>5
  <2>4. QED
    BY <1>3, <1>6, <2>1, <2>2, <2>3 DEF Counted
<1>8. ~Aborting'
  <2>1. replies = <<>>
    BY DEF IInv, Server!IInv, Server!RepliesFollow
  <2>2. replies' = <<c>>
    BY <1>2, <2>1
  <2>3. replies' # <<150, 426, 226>>
    BY <2>2
  <2>4. QED
    BY <1>2, <2>3 DEF Aborting
<1>9. CompleteFollows'
  <2>1. main = "starting" => Len(answers') # 2
    BY <1>5
  <2>2. Len(answers') = 2 => answers'[2] # 226
    BY <1>2
  <2>3. main \in {"forked", "transfer", "result"} => answers' # <<226>>
    BY <1>3, <1>5
  <2>4. QED
    BY <1>6, <2>1, <2>2, <2>3 DEF CompleteFollows
<1>10. Received'
  BY <1>1, StillReceived
<1>11. peer = "none"
  BY DEF IInv, OneConnection
<1>12. main = "starting" => conn = "none" \/ (conn = "queued" /\ mode = "PORT")
  BY DEF Arrival, ClosedEnds
<1>13. QED
  BY <1>1, <1>2, <1>7, <1>8, <1>9, <1>10, <1>11, <1>12, RestArrives

LEMMA AnsweredArrives ==
    IInv /\ Arrival /\ ControlStep /\ main \notin Client!Gone
        /\ (Server!OnlyAnswered \/ Server!LogIn \/ Server!Port \/ Server!Pasv \/ Server!Rest
            \/ Server!Quit)
    => Arrival'
<1> SUFFICES ASSUME IInv, Arrival, ControlStep, main \notin Client!Gone,
                    \/ Server!OnlyAnswered \/ Server!LogIn \/ Server!Port \/ Server!Pasv
                    \/ Server!Rest \/ Server!Quit
             PROVE  Arrival'
  OBVIOUS
<1>1. ctl = "handling" /\ UNCHANGED <<peer, left, ferror>>
  BY DEF Server!OnlyAnswered, Server!LogIn, Server!Port, Server!Pasv, Server!Rest, Server!Quit,
     Server!NoTransfer, Server!Carries, Server!Is
<1>2. \E c \in Nat \ {226}, next \in {"reading", "exited"} : Server!Send(c, next)
  <2>1. CASE Server!OnlyAnswered
    <3>1. PICK c \in Server!Answers : Server!Send(c, "reading")
      BY <2>1 DEF Server!OnlyAnswered
    <3>2. request \in Server!Request
      BY <1>1, TransferAssumption DEF IInv, Server!IInv, Server!RepliesFollow
    <3>3. c \in {200, 213, 215, 250, 257, 425, 451, 500, 501, 502, 504, 530, 550}
      BY <3>2, AnswerCodes
    <3>4. c \in Nat \ {226}
      BY <3>3
    <3>5. QED
      BY <3>1, <3>4
  <2>2. CASE Server!LogIn
    BY <2>2 DEF Server!LogIn
  <2>3. CASE Server!Port
    BY <2>3 DEF Server!Port
  <2>4. CASE Server!Pasv
    BY <2>4 DEF Server!Pasv
  <2>5. CASE Server!Rest
    BY <2>5 DEF Server!Rest
  <2>6. CASE Server!Quit
    BY <2>6 DEF Server!Quit
  <2>7. QED
    BY <2>1, <2>2, <2>3, <2>4, <2>5, <2>6
<1>3. QED
  BY <1>1, <1>2, HandledArrives

\* A transfer that cannot be opened has its second reply.
LEMMA OpeningFailsArrives ==
    IInv /\ Arrival /\ ControlStep /\ main \notin Client!Gone /\ Opening /\ ctl' # "transfer"
    => Arrival'
<1> SUFFICES ASSUME IInv, Arrival, ControlStep, main \notin Client!Gone, Opening,
                    ctl' # "transfer"
             PROVE  Arrival'
  OBVIOUS
<1>1. /\ Connected /\ TypeOK /\ answers' = Answers
      /\ UNCHANGED <<main, command, mode, child, code, flight>>
  BY ControlOf
<1>2. /\ ctl = "opening" /\ UNCHANGED <<peer, left, ferror>>
      /\ conn' = conn \/ Connects
      /\ Server!Send(425, "reading") \/ Server!Send(500, "reading")
  BY DEF Opening, Server!OpenFails, Server!PipeFails, Server!ForkFails, Server!Forks,
     Server!NoTransfer
<1>3. PICK c \in Nat \ {226} : Server!Send(c, "reading")
  BY <1>2
<1>4. /\ ctl' = "reading" /\ replies' = Append(replies, c)
      /\ answers' # <<>>
      /\ Len(answers) = 1 => Len(answers') = 2
      /\ answers # <<>> => Head(answers') = Head(answers)
      /\ answers = <<>> => answers' = <<c>>
      /\ Len(answers') = 2 => answers'[2] = c
  BY <1>1, <1>3, Replies
<1>5. /\ main \notin {"greeting", "prompt", "waiting"}
      /\ main \in {"forked", "transfer", "result", "abor"} => answers = <<>>
      /\ main = "starting" => Len(answers) = 1 /\ Head(answers) = 150
  BY <1>1, <1>2, AtWork DEF Works
<1>6. main' = main
  BY <1>1
<1>7. answers = <<>> => Len(answers') = 1 /\ answers' # <<226>>
  BY <1>4
<1>8. main = "starting" => Len(answers') = 2 /\ Head(answers') = 150
  <2>1. Len(<<>>) = 0
    OBVIOUS
  <2>2. main = "starting" => answers # <<>>
    BY <1>5, <2>1
  <2>3. QED
    BY <1>4, <1>5, <2>2, Zenon
<1>9. Counted'
  BY <1>5, <1>6, <1>7, <1>8 DEF Counted
<1>10. ~Aborting'
  <2>1. replies = <<150>> /\ replies' = Append(replies, c)
    BY <1>2, <1>4 DEF IInv, Server!IInv, Server!RepliesFollow
  <2>2. replies' = <<150, c>>
    BY <2>1, Said
  <2>3. replies' # <<150, 426, 226>>
    BY <2>2
  <2>4. QED
    BY <1>4, <2>3 DEF Aborting
<1>11. CompleteFollows'
  BY <1>4, <1>5, <1>6, <1>7 DEF CompleteFollows
<1>12. QED
  BY <1>1, <1>2, <1>4, <1>9, <1>10, <1>11, Connecting, RestArrives

\* RETR, STOR or LIST is accepted: the transfer of the server is that of the client, for
\* which nothing has connected yet.
LEMMA StartTransferArrives ==
    IInv /\ IInv' /\ Arrival /\ ControlStep /\ main \notin Client!Gone /\ Server!StartTransfer
    => Arrival'
<1> SUFFICES ASSUME IInv, IInv', Arrival, ControlStep, main \notin Client!Gone,
                    Server!StartTransfer
             PROVE  Arrival'
  OBVIOUS
<1>1. /\ Connected /\ TypeOK /\ answers' = Answers
      /\ UNCHANGED <<main, command, mode, child, code, sigterm, verdict, flight>>
      /\ conn' = conn /\ main' \notin Client!Gone
  BY ControlOf DEF Server!StartTransfer, Server!Carries, Server!Is
<1>2. /\ ctl = "handling" /\ UNCHANGED <<peer, left, ferror, request>>
      /\ Server!Send(150, "opening")
      /\ request.verb \in {"RETR", "STOR", "LIST"}
  BY DEF Server!StartTransfer, Server!NoTransfer, Server!Carries, Server!Is
<1>3. /\ ctl' = "opening" /\ answers' # <<>>
      /\ answers = <<>> => answers' = <<150>>
  BY <1>1, <1>2, Replies
<1>4. /\ main \notin {"greeting", "prompt", "forked"}
      /\ main \in {"waiting", "starting"} => answers = <<>> /\ request = Line
      /\ main \in {"transfer", "result", "abor", "exiting"} => request = Abor
  BY <1>1, <1>2, AtWork
<1>5. main \in {"waiting", "starting"}
  <2>1. main \in {"greeting", "prompt", "waiting", "starting", "forked", "transfer", "abor",
                  "result", "exiting", "exited", "killed"}
    BY <1>1, Kinds
  <2>2. request # Abor
    BY <1>2 DEF Abor
  <2>3. QED
    BY <1>4, <2>1, <2>2 DEF Client!Gone
<1>6. Len(answers') = 1
  BY <1>3, <1>4, <1>5
<1>7. Counted'
  BY <1>1, <1>5, <1>6 DEF Counted
<1>8. CASE main = "waiting"
  <2>1. verdict' = <<>>
    BY <1>1, <1>8 DEF Arrival, AbortKills, IInv, Ends
  <2>2. QED
    BY <1>1, <1>3, <1>7, <1>8, <2>1, IdleArrives
<1>9. CASE main = "starting"
  <2>1. command.verb \in Client!Transfers /\ command \in Client!Typed
    <3>1. command.verb \in Client!Transfers
      BY <1>9 DEF Arrival, SameCommand
    <3>2. command # Client!NoCommand
      BY <3>1 DEF Client!NoCommand, Client!Transfers
    <3>3. QED
      BY <1>1, <3>1, <3>2 DEF TypeOK, Client!TypeOK
  <2>2. request = command
    BY <1>4, <1>9, <2>1 DEF Line, Client!Transfers
  <2>3. SameCommand'
    BY <1>1, <1>2, <1>9, <2>1, <2>2 DEF SameCommand, Carrying
  <2>4. conn = "none" /\ child = "none"
    BY <1>1, <1>4, <1>9 DEF Arrival, ClosedEnds, IInv, Ends
  <2>5. ClosedEnds'
    BY <1>1, <1>3, <1>9, <2>4 DEF Arrival, ClosedEnds, Ended
  <2>6. Received' /\ OpenedOnce'
    BY <1>1, <1>9, <2>4 DEF Received, OpenedOnce, Carrying
  <2>7. AbortKills'
    <3>1. replies' # <<150, 426, 226>>
      BY <1>3 DEF IInv, Server!IInv, Server!RepliesFollow
    <3>2. ~Aborting'
      BY <1>3, <3>1 DEF Aborting
    <3>3. verdict' = <<>>
      BY <1>1, <1>9, <2>4 DEF Arrival, AbortKills
    <3>4. QED
      BY <1>1, <1>9, <3>2, <3>3 DEF AbortKills
  <2>8. CompleteFollows'
    BY <1>1, <1>6, <1>9 DEF CompleteFollows
  <2>9. QED
    BY <1>7, <2>3, <2>5, <2>6, <2>7, <2>8 DEF Arrival
<1>10. QED
  BY <1>5, <1>8, <1>9

\* The child of the server gets a connection nobody has closed.
LEMMA ForksArrives ==
    IInv /\ IInv' /\ Arrival /\ ControlStep /\ main \notin Client!Gone
        /\ Opening /\ ctl' = "transfer"
    => Arrival'
<1> SUFFICES ASSUME IInv, IInv', Arrival, ControlStep, main \notin Client!Gone, Opening,
                    ctl' = "transfer"
             PROVE  Arrival'
  OBVIOUS
<1>1. /\ Connected /\ TypeOK
      /\ UNCHANGED <<main, command, mode, child, code, sigterm, verdict, flight>>
      /\ main' \notin Client!Gone
  BY ControlOf
<1>2. /\ ctl = "opening" /\ UNCHANGED <<request, replies>> /\ Connects
      /\ pipe' = <<>> /\ peer' = "open"
  BY <1>1 DEF Opening, Server!OpenFails, Server!PipeFails, Server!ForkFails, Server!Forks,
     Server!Send, Connected, IInv, Ends
<1>3. answers' = answers
  BY <1>1, <1>2, ControlOf, NoReply
<1>4. /\ main \notin {"greeting", "prompt", "waiting"}
      /\ main \in {"forked", "transfer", "result", "abor"} => answers = <<>>
      /\ main = "starting" => Len(answers) = 1
  BY <1>1, <1>2, AtWork DEF Works
<1>5. /\ conn' \in {"closed", "reset"} => conn' = conn
      /\ main = "starting" => conn' = "none" \/ (conn' = "queued" /\ mode = "PORT")
      /\ Received'
  BY <1>1, <1>2, Connecting
<1>6. ~Aborting /\ ~Aborting'
  <2>1. replies = <<150>>
    BY <1>2 DEF IInv, Server!IInv, Server!RepliesFollow
  <2>2. replies # <<150, 426, 226>>
    BY <2>1
  <2>3. QED
    BY <1>2, <2>2 DEF Aborting
<1>7. Counted'
  BY <1>1, <1>3 DEF Arrival, Counted
<1>8. SameCommand'
  BY <1>1, <1>2, <1>3 DEF Arrival, SameCommand, Carrying, Works
<1>9. ClosedEnds'
  <2>1. main = "starting" => answers # <<>>
    BY <1>4
  <2>2. QED
    BY <1>1, <1>2, <1>3, <1>5, <2>1 DEF Arrival, ClosedEnds, Ended
<1>10. OpenedOnce'
  BY DEF OpenedOnce
<1>11. AbortKills'
  BY <1>1, <1>2, <1>6 DEF Arrival, AbortKills, Works, Waits
<1>12. CompleteFollows'
  <2>1. Len(<<>>) = 0 /\ <<>> # <<226>>
    OBVIOUS
  <2>2. QED
    BY <1>1, <1>3, <1>4, <2>1 DEF CompleteFollows
<1>13. QED
  BY <1>5, <1>7, <1>8, <1>9, <1>10, <1>11, <1>12 DEF Arrival

\* ABOR reaches a server that transfers.
LEMMA HearCommandArrives ==
    IInv /\ Arrival /\ ControlStep /\ main \notin Client!Gone /\ Server!HearCommand => Arrival'
<1> SUFFICES ASSUME IInv, Arrival, ControlStep, main \notin Client!Gone, Server!HearCommand
             PROVE  Arrival'
  OBVIOUS
<1>0. PICK n \in DOMAIN inbox :
         /\ Server!Reads(n)
         /\ \E line \in Server!FirstLine(n) :
               IF line.verb \in {"ABOR", "QUIT"}
               THEN Server!Kill /\ Server!Send(426, "aborting")
               ELSE UNCHANGED <<term, ctl, replies, link>>
  BY DEF Server!HearCommand
<1>1. PICK line \in Server!FirstLine(n) :
         IF line.verb \in {"ABOR", "QUIT"}
         THEN Server!Kill /\ Server!Send(426, "aborting")
         ELSE UNCHANGED <<term, ctl, replies, link>>
  BY <1>0
<1>2. ctl = "transfer" /\ UNCHANGED <<request, pipe, left, ferror, peer>>
  BY DEF Server!HearCommand
<1>3. /\ Connected /\ TypeOK /\ answers' = Answers
      /\ UNCHANGED <<main, command, mode, child, code, sigterm, verdict, flight>>
      /\ conn' = conn /\ main' \notin Client!Gone
  BY <1>2, ControlOf
<1>4. inbox # <<>> /\ (Len(inbox) = 1 => line = inbox[1])
  BY <1>0, <1>1, Read, WholeLine
<1>5. main \in {"abor", "exiting"} /\ inbox = <<Abor>> /\ answers = <<>>
  BY <1>2, <1>3, <1>4, AtWork DEF Works
<1>6. line.verb = "ABOR"
  BY <1>4, <1>5, Lines DEF Abor
<1>7. /\ ctl' = "aborting" /\ answers' = <<426>>
  <2>1. Server!Send(426, "aborting")
    BY <1>1, <1>6
  <2>2. QED
    BY <1>3, <1>5, <2>1, Replies
<1>8. Len(answers') = 1 /\ Head(answers') = 426
  BY <1>7
<1>9. Counted'
  BY <1>3, <1>5, <1>8 DEF Counted
<1>10. SameCommand'
  BY <1>2, <1>3, <1>5 DEF Arrival, SameCommand, Carrying, Works
<1>11. ClosedEnds'
  BY <1>2, <1>3, <1>5, <1>7 DEF Arrival, ClosedEnds, Ended
<1>12. Received' /\ OpenedOnce'
  BY <1>3, <1>7, StillReceived DEF OpenedOnce
<1>13. AbortKills'
  <2>1. Unheard'
    BY <1>7, <1>8 DEF Unheard
  <2>2. main = "abor" => verdict = <<>> /\ (child = "dead" \/ Waits)
    BY <1>2, <1>3 DEF Arrival, AbortKills, Works
  <2>3. Waits' <=> Waits
    BY <1>3 DEF Waits
  <2>4. child = "none" => verdict = <<>>
    BY DEF Arrival, AbortKills
  <2>5. QED
    BY <1>3, <1>5, <2>1, <2>2, <2>3, <2>4 DEF AbortKills
<1>14. CompleteFollows'
  BY <1>3, <1>5, <1>8 DEF CompleteFollows
<1>15. QED
  BY <1>9, <1>10, <1>11, <1>12, <1>13, <1>14 DEF Arrival

\* The child has been killed: the 226 that follows is not that of a complete transfer.
LEMMA AbortDoneArrives ==
    IInv /\ Arrival /\ ControlStep /\ main \notin Client!Gone /\ Server!AbortDone => Arrival'
<1> SUFFICES ASSUME IInv, Arrival, ControlStep, main \notin Client!Gone, Server!AbortDone
             PROVE  Arrival'
  OBVIOUS
<1>1. /\ ctl = "aborting" /\ UNCHANGED <<request, pipe, left, ferror, peer>>
      /\ Server!Send(226, "reaping")
  BY DEF Server!AbortDone
<1>2. /\ Connected /\ TypeOK /\ answers' = Answers
      /\ UNCHANGED <<main, command, mode, child, code, sigterm, verdict, flight>>
      /\ conn' = conn /\ main' \notin Client!Gone
  BY <1>1, ControlOf
<1>3. /\ ctl' = "reaping" /\ replies' = Append(replies, 226)
      /\ answers' # <<>> /\ Last(answers') = 226
      /\ Len(answers) \in 0..1 => Len(answers') \in 1..2
      /\ answers # <<>> => Head(answers') = Head(answers)
      /\ answers = <<>> => answers' = <<226>> /\ Head(answers') = 226
  BY <1>1, <1>2, Replies
<1>4. /\ main \in {"transfer", "result", "abor", "exiting"}
      /\ main \in {"transfer", "result"} => answers = <<>>
      /\ Len(answers) \in 0..1
  BY <1>1, <1>2, AtWork
<1>5. Aborting /\ Aborting'
  <2>1. replies = <<150, 426>> /\ replies' = Append(replies, 226)
    BY <1>1, <1>3 DEF IInv, Server!IInv, Server!RepliesFollow
  <2>2. replies' = <<150, 426, 226>>
    BY <2>1, Said
  <2>3. QED
    BY <1>1, <1>3, <2>2 DEF Aborting
<1>6. Counted'
  <2>1. Len(answers') \in 0..2
    BY <1>3, <1>4
  <2>2. main \in {"transfer", "result"} => Len(answers') \in 0..1
    BY <1>3, <1>4
  <2>3. QED
    BY <1>2, <1>4, <2>1, <2>2 DEF Counted
<1>7. SameCommand'
  BY <1>1, <1>2, <1>4 DEF Arrival, SameCommand, Carrying, Works
<1>8. ClosedEnds'
  BY <1>1, <1>2, <1>3, <1>4 DEF Arrival, ClosedEnds, Ended
<1>9. Received' /\ OpenedOnce'
  BY <1>2, <1>3, StillReceived DEF OpenedOnce
<1>10. AbortKills'
  <2>1. Condemned' <=> Condemned
    BY <1>2 DEF Condemned, Waits, Ended
  <2>2. Waits' <=> Waits
    BY <1>2 DEF Waits
  <2>3. Unheard' <=> Unheard
    <3>1. answers = <<>> => ~Unheard /\ ~Unheard'
      BY <1>3 DEF Unheard
    <3>2. QED
      BY <1>3, <3>1 DEF Unheard
  <2>4. QED
    BY <1>2, <1>3, <1>4, <1>5, <2>1, <2>2, <2>3 DEF Arrival, AbortKills, Works
<1>11. CompleteFollows'
  BY <1>2, <1>4, <1>5 DEF CompleteFollows
<1>12. QED
  BY <1>6, <1>7, <1>8, <1>9, <1>10, <1>11 DEF Arrival

\* The result of the child is the second reply of the transfer: 226 when it has sent or
\* stored everything.
LEMMA TakeResultArrives ==
    IInv /\ Arrival /\ ControlStep /\ main \notin Client!Gone /\ Server!TakeResult => Arrival'
<1> SUFFICES ASSUME IInv, Arrival, ControlStep, main \notin Client!Gone, Server!TakeResult
             PROVE  Arrival'
  OBVIOUS
<1>1. /\ ctl = "transfer" /\ pipe # <<>> /\ UNCHANGED <<request, left, ferror, peer>>
      /\ Head(pipe) \in {0, 1, 2}
  <2>1. pipe \in Seq({0, 1, 2})
    BY DEF IInv, TypeOK, Server!TypeOK
  <2>2. QED
    BY <2>1, HeadTailProperties DEF Server!TakeResult
<1>2. /\ Connected /\ TypeOK /\ answers' = Answers
      /\ UNCHANGED <<main, command, mode, child, code, sigterm, verdict, flight>>
      /\ conn' = conn /\ main' \notin Client!Gone
  BY <1>1, ControlOf
<1>3. PICK c \in {226, 451, 426} :
         /\ Server!Send(c, "reaping")
         /\ c = 226 => Head(pipe) = 0
  BY <1>1 DEF Server!TakeResult
<1>4. /\ ctl' = "reaping" /\ replies' = Append(replies, c)
      /\ answers' # <<>>
      /\ Len(answers) = 1 => Len(answers') = 2
      /\ answers # <<>> => Head(answers') = Head(answers)
      /\ answers = <<>> => answers' = <<c>> /\ Len(answers') = 1
      /\ Len(answers') = 2 => answers'[2] = c
  BY <1>2, <1>3, Replies
<1>5. /\ main \notin {"greeting", "prompt", "waiting"}
      /\ main \in {"forked", "transfer", "result", "abor"} => answers = <<>>
      /\ main = "starting" => Len(answers) = 1 /\ Head(answers) = 150
  BY <1>1, <1>2, AtWork DEF Works
<1>6. main = "starting" => Len(answers') = 2 /\ Head(answers') = 150 /\ answers # <<>>
  <2>1. Len(<<>>) = 0
    OBVIOUS
  <2>2. main = "starting" => answers # <<>>
    BY <1>5, <2>1
  <2>3. QED
    BY <1>4, <1>5, <2>2, Zenon
<1>7. Counted'
  BY <1>2, <1>4, <1>5, <1>6 DEF Counted
<1>8. ~Aborting'
  <2>1. replies = <<150>>
    BY <1>1 DEF IInv, Server!IInv, Server!RepliesFollow
  <2>2. replies' = <<150, c>>
    BY <1>4, <2>1, Said
  <2>3. replies' # <<150, 426, 226>>
    BY <2>2
  <2>4. QED
    BY <1>4, <2>3 DEF Aborting
<1>9. SameCommand'
  BY <1>1, <1>2, <1>4, <1>6 DEF Arrival, SameCommand, Carrying, Works
<1>10. ClosedEnds'
  BY <1>1, <1>2, <1>4, <1>6 DEF Arrival, ClosedEnds, Ended
<1>11. Received' /\ OpenedOnce'
  BY <1>2, <1>4, StillReceived DEF OpenedOnce
<1>12. AbortKills'
  BY <1>2, <1>4, <1>8 DEF Arrival, AbortKills, Works
<1>13. c = 226 /\ (ferror => request.verb = "STOR") => left = 0
  <2>1. pipe \in Seq({0, 1, 2})
    BY DEF IInv, TypeOK, Server!TypeOK
  <2>2. Head(pipe) = pipe[1]
    BY <1>1, <2>1, HeadTailProperties
  <2>3. QED
    BY <1>1, <1>3, <2>2 DEF IInv, Server!IInv, Server!ResultFits
<1>14. c = 226 /\ request.verb = "STOR" =>
          peer = "fin" /\ flight = left /\ Ended /\ main # "starting"
  BY <1>1, <1>2, <1>3 DEF Arrival, ClosedEnds
<1>15. main \in Carrying \cup {"starting"} => request = command
  BY <1>1, <1>2, <1>6 DEF Arrival, SameCommand, Works
<1>16. CompleteFollows'
  <2>1. main = "starting" /\ Len(answers') = 2 /\ answers'[2] = 226 =>
            (~ferror => left = 0) /\ command.verb # "STOR"
    BY <1>4, <1>13, <1>14, <1>15
  <2>2. main = "abor" => Len(answers') # 2
    BY <1>4, <1>5
  <2>3. main \in {"forked", "transfer", "result"} /\ answers' = <<226>> =>
            /\ ~ferror => left = 0
            /\ command.verb = "STOR" => flight = 0 /\ Ended
    <3>1. <<c>> = <<226>> => c = 226
      OBVIOUS
    <3>2. main \in {"forked", "transfer", "result"} /\ answers' = <<226>> => c = 226
      BY <1>4, <1>5, <3>1
    <3>3. main \in {"forked", "transfer", "result"} => request = command
      BY <1>15 DEF Carrying
    <3>4. c = 226 /\ request = command /\ command.verb = "STOR" => flight = 0 /\ Ended
      BY <1>13, <1>14
    <3>5. QED
      BY <1>13, <3>2, <3>3, <3>4
  <2>4. Ended' <=> Ended
    BY <1>2 DEF Ended
  <2>5. QED
    BY <1>1, <1>2, <2>1, <2>2, <2>3, <2>4 DEF CompleteFollows
<1>17. QED
  BY <1>7, <1>9, <1>10, <1>11, <1>12, <1>16 DEF Arrival

\* The child has been waited for, and its connection is gone.
LEMMA FinishArrives ==
    IInv /\ Arrival /\ ControlStep /\ main \notin Client!Gone /\ Server!Finish => Arrival'
<1> SUFFICES ASSUME IInv, Arrival, ControlStep, main \notin Client!Gone, Server!Finish
             PROVE  Arrival'
  OBVIOUS
<1>1. /\ ctl = "reaping" /\ ctl' = "reading" /\ left' = 0 /\ peer' = "none"
      /\ UNCHANGED replies
  BY DEF Server!Finish
<1>2. /\ Connected /\ TypeOK /\ answers' = Answers
      /\ UNCHANGED <<main, command, mode, child, code, flight>>
      /\ conn' = conn
  BY <1>1, ControlOf
<1>3. answers' = answers
  BY <1>1, <1>2, NoReply
<1>4. Counted' /\ Received'
  BY <1>2, <1>3, StillReceived DEF Arrival, Counted
<1>5. Aborting' <=> Aborting
  BY <1>1, <1>3 DEF Aborting
<1>6. CompleteFollows'
  BY <1>1, <1>2, <1>3, <1>5 DEF Arrival, CompleteFollows, Ended
<1>7. main = "starting" => conn = "none" \/ (conn = "queued" /\ mode = "PORT")
  BY DEF Arrival, ClosedEnds
<1>8. QED
  BY <1>1, <1>2, <1>3, <1>4, <1>5, <1>6, <1>7, RestArrives

\* The control process ends or answers, and the client that has gone hears nothing of it.
LEMMA ControlArrives == IInv /\ IInv' /\ Arrival /\ ControlStep => Arrival'
<1> SUFFICES ASSUME IInv, IInv', Arrival, ControlStep PROVE Arrival'
  OBVIOUS
<1>1. CASE main \in Client!Gone
  <2>1. main' = main
    BY DEF ControlStep, clientVars
  <2>2. QED
    BY <1>1, <2>1, GoneArrives
<1>2. CASE main \notin Client!Gone
  <2>1. Connected /\ link = "up"
    BY <1>2, ControlOf DEF IInv, Ends
  <2>2. ~Server!ClientGone /\ ~Server!Exit
    BY <2>1, AtWork DEF Server!ClientGone, Server!Exit
  <2>3. CASE Opening
    BY <1>2, <2>3, OpeningFailsArrives, ForksArrives
  <2>4. CASE Server!handle_request
    BY <1>2, <2>4, AnsweredArrives, StartTransferArrives DEF Server!handle_request
  <2>5. QED
    BY <1>2, <2>2, <2>3, <2>4, ReadArrives, HearCommandArrives, AbortDoneArrives,
       TakeResultArrives, FinishArrives DEF ControlStep
<1>3. QED
  BY <1>1, <1>2

-----------------------------------------------------------------------------
(* The theorem *)

\* Nothing has been asked for.
LEMMA InitArrives == Init => Arrival
<1> SUFFICES ASSUME Init
             PROVE  Arrival
  OBVIOUS
<1>1. /\ main = "greeting" /\ child = "none" /\ verdict = <<>> /\ answers = <<>>
      /\ ctl = "reading" /\ conn = "none"
  BY DEF Init, Server!Init, Client!Init
<1>2. Counted
  <2>1. Len(answers) = 0
    BY <1>1
  <2>2. QED
    BY <1>1, <2>1 DEF Counted
<1>3. SameCommand /\ Received /\ OpenedOnce /\ CompleteFollows
  BY <1>1 DEF SameCommand, Received, OpenedOnce, CompleteFollows, Carrying
<1>4. ClosedEnds
  BY <1>1 DEF ClosedEnds
<1>5. AbortKills
  BY <1>1 DEF AbortKills
<1>6. QED
  BY <1>2, <1>3, <1>4, <1>5 DEF Arrival

\* Every step preserves it: those of the user and of the main process of the client, of
\* its child, of the server and its child, of the listener and of the data connection.
LEMMA StepArrives == IInv /\ Arrival /\ [Next]_vars => Arrival'
<1> SUFFICES ASSUME IInv, Arrival, [Next]_vars
             PROVE  Arrival'
  OBVIOUS
<1>1. IInv'
  BY StepInvariant
<1>2. CASE Next
  BY <1>1, <1>2, ListenerArrives, ControlArrives, DtpArrives, CloseArrivesArrives, MainArrives,
     ChildArrives, UserArrives DEF Next, System
<1>3. CASE UNCHANGED vars
  <2>1. Counted' /\ Received' /\ OpenedOnce'
    BY <1>3 DEF Arrival, Counted, Received, OpenedOnce, Ended, Retrieves, Carrying, vars
  <2>2. SameCommand' /\ ClosedEnds'
    BY <1>3 DEF Arrival, SameCommand, ClosedEnds, Connected, Ended, Carrying, Works, vars
  <2>3. AbortKills'
    BY <1>3 DEF Arrival, AbortKills, Aborting, Condemned, Waits, Ended, Unheard, Works, vars
  <2>4. CompleteFollows'
    BY <1>3 DEF Arrival, CompleteFollows, Aborting, Ended, vars
  <2>5. QED
    BY <2>1, <2>2, <2>3, <2>4 DEF Arrival
<1>4. QED
  BY <1>2, <1>3

\* What the client and the server both call complete has arrived.
LEMMA CompleteArrives ==
    ASSUME IInv, Arrival, main = "result", code = 0, answers # <<>>, Head(answers) = 226
    PROVE  flight = 0 /\ (~ferror => left = 0)
<1>1. child = "none"
  BY DEF IInv, Ends
<1>2. answers = <<226>>
  <2>1. Len(answers) = 1 /\ answers \in Seq(Nat)
    <3>1. answers \in Seq(Nat) /\ Len(answers) \in Nat /\ (Len(answers) = 0 => answers = <<>>)
      BY Kinds, OneLess DEF IInv
    <3>2. Len(answers) \in 0..1
      BY DEF Arrival, Counted
    <3>3. QED
      BY <3>1, <3>2
  <2>2. answers[1] = 226
    BY <2>1, HeadTailProperties
  <2>3. <<226>> \in Seq(Nat) /\ Len(<<226>>) = 1 /\ <<226>>[1] = 226
    OBVIOUS
  <2>4. \A i \in 1..Len(answers) : answers[i] = <<226>>[i]
    BY <2>1, <2>2, <2>3
  <2>5. QED
    BY <2>1, <2>3, <2>4, SeqEqual
<1>3. ~Aborting
  BY <1>1 DEF Arrival, AbortKills, Condemned, Waits, Client!Held
<1>4. (~ferror => left = 0) /\ (command.verb = "STOR" => flight = 0)
  BY <1>2, <1>3 DEF Arrival, CompleteFollows
<1>5. command.verb \in {"RETR", "STOR", "LIST"}
  BY DEF Arrival, SameCommand, Carrying, Client!Transfers
<1>6. command.verb # "STOR" => flight = 0
  BY <1>1, <1>5 DEF Arrival, Received, Ended, Retrieves, Carrying
<1>7. QED
  BY <1>4, <1>6

\* A transfer that both sides call complete, the client by the end of its child and the
\* server by 226, has ended with nothing on the way, and with nothing of the file left to
\* move unless the server's disk has failed, which it does not look for (server.c:312, 377).
THEOREM CompleteHasArrived == Spec => CompleteArrived
<1>1. Spec => [](IInv /\ Arrival)
  <2>1. Init => IInv /\ Arrival
    BY InitInvariant, InitArrives
  <2>2. IInv /\ Arrival /\ [Next]_vars => (IInv /\ Arrival)'
    BY StepInvariant, StepArrives
  <2>3. QED
    BY <2>1, <2>2, PTL DEF Spec
<1>2. IInv /\ Arrival
      => [main = "result" /\ main' = "prompt" /\ code = 0 /\ answers # <<>>
             /\ Head(answers) = 226 => flight = 0 /\ (~ferror => left = 0)]_vars
  BY CompleteArrives
<1>3. QED
  BY <1>1, <1>2, PTL DEF CompleteArrived
=============================================================================
