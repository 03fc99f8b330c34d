--------------------------- MODULE FtpClientProofs ---------------------------
(***************************************************************************)
(* Proofs about the FTP client, for whatever the user types, the server    *)
(* answers and however often ^C is pressed.                                *)
(***************************************************************************)
EXTENDS FtpClient, SequenceTheorems, TLAPS

\* What is assumed of the constants; FtpTransfer gives them values that meet it.
ClientConstants ==
    /\ Inputs \subseteq Typed
    /\ Number \in [{"good", "zero", "wide", "bad"} -> Int]
    /\ Codes \subseteq Nat
    /\ MaxInterrupts \in Nat

-----------------------------------------------------------------------------
(* Messages *)

\* The state of the control connection as the client sees it.
WireOK ==
    /\ inbox \in Seq(Typed)
    /\ answers \in Seq(Nat)
    /\ host \in {"up", "fin", "reset", "broken"}

LEMMA SendMsgTypes ==
    ASSUME TypeOK, host # "broken", NEW message \in Typed, NEW next, SendMsg(message, next)
    PROVE  /\ main' = next
           /\ inbox' \in Seq(Typed)
           /\ host' \in {"up", "fin", "reset", "broken"}
<1>1. inbox \in Seq(Typed) /\ host \in {"up", "fin", "reset"}
  BY DEF TypeOK
<1>2. Append(inbox, message) \in Seq(Typed)
  BY <1>1, AppendProperties
<1>3. QED
  BY <1>1, <1>2 DEF SendMsg

\* The first digit of a reply is a number.
LEMMA ReplyTypes ==
    ASSUME TypeOK, answers # <<>>
    PROVE  Head(answers) \div 100 \in Nat /\ Tail(answers) \in Seq(Nat)
<1>1. answers \in Seq(Nat)
  BY DEF TypeOK
<1>2. Head(answers) \in Nat /\ Tail(answers) \in Seq(Nat)
  BY <1>1, HeadTailProperties
<1>3. QED
  BY <1>2

\* What `get` and `put` issue after SIZE are commands a user could type.
LEMMA TransferTypes ==
    ASSUME NEW verb, NEW size \in Sizes
    PROVE  Transfer(verb, size) \in Seq(Typed)
<1> DEFINE pasv == [verb |-> "PASV", arg |-> "none"]
           rest == [verb |-> "REST", arg |-> size]
           last == Request(IF verb = "put" THEN "STOR" ELSE "RETR")
<1>1. pasv \in Typed /\ rest \in Typed /\ last \in Typed
  BY DEF Typed, Request, Simple, Transfers, Sizes
<1> HIDE DEF pasv, rest, last
<1>2. /\ <<pasv>> \in Seq(Typed) /\ <<last>> \in Seq(Typed)
      /\ (IF size = "zero" THEN <<>> ELSE <<rest>>) \in Seq(Typed)
  BY <1>1
<1>3. <<pasv>> \o (IF size = "zero" THEN <<>> ELSE <<rest>>) \in Seq(Typed)
  BY <1>2, ConcatProperties
<1>4. <<pasv>> \o (IF size = "zero" THEN <<>> ELSE <<rest>>) \o <<last>> \in Seq(Typed)
  BY <1>2, <1>3, ConcatProperties
<1>5. QED
  BY <1>4 DEF Transfer, pasv, rest, last

-----------------------------------------------------------------------------
(* The main process *)

\* The process that ends leaves nothing that is not typed.
LEMMA EndsTypes ==
    ASSUME ClientConstants, NEW how \in {"exited", "killed"}, Ends(how), WireOK'
    PROVE  TypeOK'
<1>1. <<>> \in Seq(Typed) /\ <<>> \in Seq({0, 1})
  BY EmptySeq
<1>2. 0 \in 0..MaxInterrupts /\ 0 \in Int
  BY DEF ClientConstants
<1>3. QED
  BY <1>1, <1>2 DEF Ends, TypeOK, WireOK

LEMMA EndedTypes ==
    ClientConstants /\ TypeOK /\ (GetMsgFails \/ Exits \/ Quits \/ SendKills) => TypeOK'
<1> SUFFICES ASSUME ClientConstants, TypeOK, GetMsgFails \/ Exits \/ Quits \/ SendKills
             PROVE  TypeOK'
  OBVIOUS
<1>1. CASE GetMsgFails
  <2>1. UNCHANGED wireVars
    BY <1>1 DEF GetMsgFails
  <2>2. WireOK'
    BY <2>1 DEF wireVars, WireOK, TypeOK
  <2>3. CASE Ends("exited")
    BY <2>2, <2>3, EndsTypes
  <2>4. CASE /\ main' = "exiting" /\ sigterm' = TRUE
             /\ UNCHANGED <<command, macro, script, mode, position, accepting,
                            child, code, verdict, interrupts>>
    BY <2>2, <2>4 DEF WireOK, TypeOK
  <2>5. QED
    BY <1>1, <2>3, <2>4 DEF GetMsgFails
<1>2. CASE Exits \/ SendKills
  <2>1. UNCHANGED wireVars /\ (Ends("exited") \/ Ends("killed"))
    BY <1>2 DEF Exits, SendKills
  <2>2. WireOK'
    BY <2>1 DEF wireVars, WireOK, TypeOK
  <2>3. QED
    BY <2>1, <2>2, EndsTypes
<1>3. CASE Quits
  <2>1. GetMsg(LAMBDA class : Ends("exited"))
    BY <1>3 DEF Quits
  <2>2. WireOK' /\ \E class \in Nat : Ends("exited")
    BY <2>1, ReplyTypes DEF GetMsg, WireOK, TypeOK
  <2>3. QED
    BY <2>2, EndsTypes
<1>4. QED
  BY <1>1, <1>2, <1>3

\* A request is one the user may type.
LEMMA InputTypes == ClientConstants /\ TypeOK /\ Input => TypeOK'
<1> SUFFICES ASSUME ClientConstants, TypeOK, Input PROVE TypeOK'
  OBVIOUS
<1>1. CASE SendKills
  BY <1>1, EndedTypes
<1>2. CASE \E request \in IF script = <<>> THEN Inputs ELSE {Head(script)} :
               \/ Ask(request) \/ AskPort(request) \/ PortInUse(request) \/ AskPasv(request)
               \/ Rejects(request) \/ Macro(request)
  <2>1. PICK request \in IF script = <<>> THEN Inputs ELSE {Head(script)} :
               \/ Ask(request) \/ AskPort(request) \/ PortInUse(request) \/ AskPasv(request)
               \/ Rejects(request) \/ Macro(request)
    BY <1>2
  <2>2. script \in Seq(Typed)
    BY DEF TypeOK
  <2>3. script # <<>> => Head(script) \in Typed /\ Tail(script) \in Seq(Typed)
    BY <2>2, HeadTailProperties
  <2>4. request \in Typed
    BY <2>1, <2>3 DEF ClientConstants
  <2>5. [request EXCEPT !.arg = "good"] \in Typed
    BY <2>4 DEF Typed
  <2>6. ASSUME Takes(request)
        PROVE  script' \in Seq(Typed) /\ macro' \in Macros \cup {"none"} /\ position' \in Int
    <3>1. script' \in Seq(Typed) /\ macro' \in Macros \cup {"none"}
      BY <2>2, <2>3, <2>6 DEF Takes, TypeOK
    <3>2. position \in Int /\ 0 \in Int
      BY DEF TypeOK
    <3>3. position' = position \/ position' = 0
      BY <2>6 DEF Takes, PositionFor
    <3>4. QED
      BY <3>1, <3>2, <3>3
  <2>7. CASE Ask(request)
    <3>1. /\ Takes(request) /\ host # "broken" /\ command' = request
          /\ SendMsg(request, IF request.verb \in Transfers THEN "starting" ELSE "waiting")
          /\ UNCHANGED <<mode, accepting, child, code, sigterm, verdict, interrupts, answers>>
      BY <2>7 DEF Ask, childVars
    <3>2. /\ main' \in {"starting", "waiting"} /\ inbox' \in Seq(Typed)
          /\ host' \in {"up", "fin", "reset", "broken"}
      BY <2>4, <3>1, SendMsgTypes
    <3>3. QED
      BY <2>4, <2>6, <3>1, <3>2 DEF TypeOK
  <2>8. CASE AskPort(request)
    <3>1. /\ Takes(request) /\ host # "broken" /\ command' = request /\ accepting' = TRUE
          /\ SendMsg([request EXCEPT !.arg = "good"], "waiting")
          /\ UNCHANGED <<mode, child, code, sigterm, verdict, interrupts, answers>>
      BY <2>8 DEF AskPort, childVars
    <3>2. /\ main' = "waiting" /\ inbox' \in Seq(Typed)
          /\ host' \in {"up", "fin", "reset", "broken"}
      BY <2>5, <3>1, SendMsgTypes
    <3>3. QED
      BY <2>4, <2>6, <3>1, <3>2 DEF TypeOK
  <2>9. CASE AskPasv(request)
    <3>1. /\ Takes(request) /\ host # "broken" /\ command' = request /\ accepting' = FALSE
          /\ SendMsg(request, "waiting")
          /\ UNCHANGED <<mode, child, code, sigterm, verdict, interrupts, answers>>
      BY <2>9 DEF AskPasv, childVars
    <3>2. /\ main' = "waiting" /\ inbox' \in Seq(Typed)
          /\ host' \in {"up", "fin", "reset", "broken"}
      BY <2>4, <3>1, SendMsgTypes
    <3>3. QED
      BY <2>4, <2>6, <3>1, <3>2 DEF TypeOK
  <2>10. CASE PortInUse(request) \/ Rejects(request)
    <3>1. /\ Takes(request) /\ (accepting' = FALSE \/ accepting' = accepting)
          /\ UNCHANGED <<main, command, mode, child, code, sigterm, verdict, interrupts,
                         inbox, answers, host>>
      BY <2>10 DEF PortInUse, Rejects, childVars, wireVars
    <3>2. accepting' \in BOOLEAN
      BY <3>1 DEF TypeOK
    <3>3. script' \in Seq(Typed) /\ macro' \in Macros \cup {"none"} /\ position' \in Int
      BY <2>6, <3>1
    <3>4. QED
      BY <3>1, <3>2, <3>3 DEF TypeOK
  <2>11. CASE Macro(request)
    <3>1. /\ request.verb \in Macros /\ macro' = request.verb /\ position' = 0
          /\ UNCHANGED <<main, command, mode, accepting, child, code, sigterm, verdict,
                         interrupts, inbox, answers, host>>
      BY <2>11 DEF Macro, childVars, wireVars
    <3>2. PICK size \in Sizes :
             script' = <<Request("SIZE")>> \o Transfer(request.verb, size)
      BY <2>11 DEF Macro, Sizes
    <3>3. Request("SIZE") \in Typed
      BY DEF Request, Typed, Simple
    <3>4. <<Request("SIZE")>> \in Seq(Typed)
      BY <3>3
    <3>5. Transfer(request.verb, size) \in Seq(Typed)
      BY TransferTypes
    <3>6. script' \in Seq(Typed)
      BY <3>2, <3>4, <3>5, ConcatProperties
    <3>7. QED
      BY <3>1, <3>6 DEF TypeOK
  <2>12. QED
    BY <2>1, <2>7, <2>8, <2>9, <2>10, <2>11
<1>3. QED
  BY <1>1, <1>2 DEF Input

LEMMA RepliedTypes == ClientConstants /\ TypeOK /\ Replied => TypeOK'
<1> SUFFICES ASSUME ClientConstants, TypeOK, Replied PROVE TypeOK'
  OBVIOUS
<1> DEFINE Then(class) ==
       /\ mode' = IF command.verb \in {"PORT", "PASV"} /\ class = 2 THEN command.verb ELSE mode
       /\ accepting' = (accepting /\ (command.verb = "PORT" => class = 2))
       /\ position' = IF command.verb = "REST" THEN Restart(class) ELSE position
       /\ script' \in ScriptAfter(class)
<1>1. /\ main' = "prompt" /\ command' = NoCommand
      /\ UNCHANGED <<macro, child, code, sigterm, verdict, interrupts>>
  BY DEF Replied, childVars
<1>2. GetMsg(Then)
  BY DEF Replied
<1> HIDE DEF Then
<1>3. WireOK'
  BY <1>2, ReplyTypes DEF GetMsg, WireOK, TypeOK
<1>8. \/ answers # <<>> /\ Then(Head(answers) \div 100)
      \/ \E class \in 0..9 : Then(class)
  BY <1>2 DEF GetMsg
<1>9. \E class \in Nat : Then(class)
  BY <1>8, ReplyTypes
<1> USE DEF Then
<1>4. PICK class \in Nat : Then(class)
  BY <1>9
<1>5. script' \in Seq(Typed)
  <2>1. script \in Seq(Typed) /\ <<>> \in Seq(Typed)
    BY EmptySeq DEF TypeOK
  <2>2. \A size \in Sizes : Transfer("put", size) \in Seq(Typed)
    BY TransferTypes
  <2>3. script' \in ScriptAfter(class)
    BY <1>4
  <2>4. \/ \E size \in Sizes : script' = Transfer("put", size)
        \/ script' = script \/ script' = <<>>
    BY <2>3 DEF ScriptAfter, Sizes
  <2>5. QED
    BY <2>1, <2>2, <2>4
<1>6. /\ mode' \in {"CONNECTED", "PORT", "PASV"} /\ accepting' \in BOOLEAN
  BY <1>4 DEF TypeOK
<1>10. position' \in Int
  <2>1. command \in Typed \cup {NoCommand} /\ position \in Int
    BY DEF TypeOK
  <2>2. command.verb = "REST" => command \in Typed
    BY <2>1 DEF NoCommand
  <2>3. command.verb = "REST" /\ command.arg # "none" => Number[command.arg] \in Int
    BY <2>2 DEF Typed, ClientConstants
  <2>4. QED
    BY <1>4, <2>1, <2>3 DEF Restart
<1>7. QED
  BY <1>1, <1>3, <1>5, <1>6, <1>10 DEF TypeOK, WireOK

LEMMA TransferRepliedTypes ==
    ClientConstants /\ TypeOK /\ (Greeting \/ Started \/ Result) => TypeOK'
<1> SUFFICES ASSUME ClientConstants, TypeOK, Greeting \/ Started \/ Result PROVE TypeOK'
  OBVIOUS
<1>1. 0 \in 0..MaxInterrupts
  BY DEF ClientConstants
<1>2. CASE Greeting
  <2>1. GetMsg(LAMBDA class : main' = "prompt")
        /\ UNCHANGED <<command, macro, script, mode, position, accepting,
                       child, code, sigterm, verdict, interrupts>>
    BY <1>2 DEF Greeting, childVars
  <2>2. WireOK' /\ \E class \in Nat : main' = "prompt"
    BY <2>1, ReplyTypes DEF GetMsg, WireOK, TypeOK
  <2>3. QED
    BY <2>1, <2>2 DEF TypeOK, WireOK
<1>3. CASE Started
  <2> DEFINE Then(class) ==
         \/ class = 1 /\ main' = "forked" /\ child' = "born"
            /\ UNCHANGED <<command, position, code, interrupts>>
         \/ class = 1 /\ main' = "result" /\ code' = 1
            /\ UNCHANGED <<command, position, child, interrupts>>
         \/ class # 1 /\ Done /\ UNCHANGED child
  <2>1. GetMsg(Then) /\ UNCHANGED <<macro, script, mode, accepting, sigterm, verdict>>
    BY <1>3 DEF Started
  <2> HIDE DEF Then
  <2>2. WireOK'
    BY <2>1, ReplyTypes DEF GetMsg, WireOK, TypeOK
  <2>5. \/ answers # <<>> /\ Then(Head(answers) \div 100)
        \/ \E class \in 0..9 : Then(class)
    BY <2>1 DEF GetMsg
  <2>6. \E class \in Nat : Then(class)
    BY <2>5, ReplyTypes
  <2> USE DEF Then
  <2>3. PICK class \in Nat : Then(class)
    BY <2>6
  <2>4. QED
    BY <1>1, <2>1, <2>2, <2>3 DEF TypeOK, WireOK, Done
<1>4. CASE Result
  <2>1. GetMsg(LAMBDA class : Done)
        /\ UNCHANGED <<macro, script, mode, accepting, child, sigterm, verdict>>
    BY <1>4 DEF Result
  <2>2. WireOK' /\ \E class \in Nat : Done
    BY <2>1, ReplyTypes DEF GetMsg, WireOK, TypeOK
  <2>3. QED
    BY <1>1, <2>1, <2>2 DEF TypeOK, WireOK, Done
<1>5. QED
  BY <1>2, <1>3, <1>4

LEMMA WaitedTypes == TypeOK /\ (Watches \/ Waited) => TypeOK'
<1> SUFFICES ASSUME TypeOK, Watches \/ Waited PROVE TypeOK'
  OBVIOUS
<1>1. <<>> \in Seq({0, 1})
  BY EmptySeq
<1>2. QED
  BY <1>1 DEF TypeOK, Watches, Waited, childVars, wireVars

-----------------------------------------------------------------------------
(* ^C *)

LEMMA InterruptTypes ==
    ClientConstants /\ TypeOK /\ (InterruptKills \/ Interrupt \/ InterruptLate) => TypeOK'
<1> SUFFICES ASSUME ClientConstants, TypeOK, InterruptKills \/ Interrupt \/ InterruptLate
             PROVE  TypeOK'
  OBVIOUS
<1>1. Interrupted => interrupts' \in 0..MaxInterrupts
  BY DEF ClientConstants, Interrupted, TypeOK
<1>2. CASE InterruptKills
  <2>1. UNCHANGED wireVars
    BY <1>2 DEF InterruptKills
  <2>2. WireOK'
    BY <2>1 DEF wireVars, WireOK, TypeOK
  <2>3. CASE Ends("killed")
    BY <2>2, <2>3, EndsTypes
  <2>4. CASE /\ main' = "killed"
             /\ IF child = "born" THEN Dies(Signal) ELSE UNCHANGED <<child, code>>
             /\ UNCHANGED <<command, macro, script, mode, position, accepting,
                            sigterm, verdict, interrupts>>
    BY <2>2, <2>4 DEF Dies, TypeOK, WireOK
  <2>5. QED
    BY <1>2, <2>3, <2>4 DEF InterruptKills
<1>3. CASE Interrupt
  <2> DEFINE abor == [verb |-> "ABOR", arg |-> "none"]
  <2>1. /\ Interrupted
        /\ UNCHANGED <<command, macro, script, mode, position, accepting, verdict, answers>>
        /\ IF child = "born"
           THEN Dies(Signal) /\ UNCHANGED sigterm
           ELSE sigterm' = (child # "dead") /\ UNCHANGED <<child, code>>
    BY <1>3 DEF Interrupt
  <2>2. child' \in {"none", "born", "armed", "opening", "moving", "dead"} \cup Held
        /\ code' \in {0, 1, 2, Signal} /\ sigterm' \in BOOLEAN
    BY <2>1 DEF Dies, TypeOK
  <2>3. abor \in Typed
    BY DEF Typed, Simple
  <2>4. /\ main' \in {"killed", "abor"} /\ inbox' \in Seq(Typed)
        /\ host' \in {"up", "fin", "reset", "broken"}
    <3>1. CASE host = "broken"
      BY <1>3, <3>1 DEF Interrupt, TypeOK
    <3>2. CASE host # "broken"
      <4>1. SendMsg(abor, "abor")
        BY <1>3, <3>2 DEF Interrupt
      <4>2. QED
        BY <2>3, <3>2, <4>1, SendMsgTypes
    <3>3. QED
      BY <3>1, <3>2
  <2>5. QED
    BY <1>1, <2>1, <2>2, <2>4 DEF TypeOK
<1>4. CASE InterruptLate
  BY <1>1, <1>4 DEF InterruptLate, Dies, mainVars, wireVars, TypeOK
<1>5. QED
  BY <1>2, <1>3, <1>4

LEMMA AborAnsweredTypes == TypeOK /\ AborAnswered => TypeOK'
<1> SUFFICES ASSUME TypeOK, AborAnswered PROVE TypeOK'
  OBVIOUS
<1> DEFINE Then(class) ==
       IF child = "dead"
       THEN main' = "killed" /\ UNCHANGED verdict
       ELSE main' = "transfer" /\ verdict' = Append(verdict, IF class = 4 THEN 0 ELSE 1)
<1>1. GetMsg(Then)
      /\ UNCHANGED <<command, macro, script, mode, position, accepting,
                     child, code, sigterm, interrupts>>
  BY DEF AborAnswered
<1>2. WireOK' /\ \E class \in Nat : Then(class)
  BY <1>1, ReplyTypes DEF GetMsg, WireOK, TypeOK
<1>3. PICK class \in Nat : Then(class)
  BY <1>2
<1>4. verdict \in Seq({0, 1}) /\ (IF class = 4 THEN 0 ELSE 1) \in {0, 1}
  BY DEF TypeOK
<1>5. Append(verdict, IF class = 4 THEN 0 ELSE 1) \in Seq({0, 1})
  BY <1>4, AppendProperties
<1>6. verdict' \in Seq({0, 1}) /\ main' \in {"killed", "transfer"}
  BY <1>3, <1>4, <1>5
<1>7. QED
  BY <1>1, <1>2, <1>6 DEF TypeOK, WireOK

-----------------------------------------------------------------------------
(* The child, and the server *)

LEMMA ChildTypes == TypeOK /\ Child => TypeOK'
<1> SUFFICES ASSUME TypeOK, Child PROVE TypeOK'
  OBVIOUS
<1>1. /\ UNCHANGED <<main, command, macro, script, mode, position, accepting, interrupts,
                     inbox, answers, host>>
      /\ child' \in {"none", "born", "armed", "opening", "moving", "dead"} \cup Held
      /\ code' \in {0, 1, 2, Signal} /\ sigterm' \in BOOLEAN
  BY DEF Child, ChildStarts, ClosesPipe, ChildCannotOpen, ChildOpens, ChildEnds, ChildFails,
     handle_abor_DTP, HeldEnds, Resumes, Dies, childFrame, mainVars, wireVars, TypeOK, Held
<1>2. verdict \in Seq({0, 1})
  BY DEF TypeOK
<1>3. verdict # <<>> => Tail(verdict) \in Seq({0, 1})
  BY <1>2, HeadTailProperties
<1>4. verdict' = verdict \/ (verdict # <<>> /\ verdict' = Tail(verdict))
  BY DEF Child, ChildStarts, ClosesPipe, ChildCannotOpen, ChildOpens, ChildEnds, ChildFails,
     handle_abor_DTP, HeldEnds
<1>5. verdict' \in Seq({0, 1})
  BY <1>2, <1>3, <1>4
<1>6. QED
  BY <1>1, <1>5 DEF TypeOK

LEMMA HostTypes == ClientConstants /\ TypeOK /\ Host => TypeOK'
<1> SUFFICES ASSUME ClientConstants, TypeOK, Host PROVE TypeOK'
  OBVIOUS
<1>1. inbox \in Seq(Typed) /\ answers \in Seq(Nat)
  BY DEF TypeOK
<1>2. PICK n \in 0..Len(inbox) : inbox' = SubSeq(inbox, n + 1, Len(inbox))
  BY DEF Host
<1>3. Len(inbox) \in Nat /\ \A i \in 1..Len(inbox) : inbox[i] \in Typed
  BY <1>1, LenProperties, ElementOfSeq
<1>4. n + 1 \in Int /\ Len(inbox) \in Int /\ \A i \in (n + 1)..Len(inbox) : inbox[i] \in Typed
  BY <1>3
<1>5. inbox' \in Seq(Typed)
  BY <1>2, <1>4, SubSeqProperties
<1>6. answers' = answers \/ \E c \in Codes : answers' = Append(answers, c)
  BY DEF Host
<1>7. \A c \in Codes : Append(answers, c) \in Seq(Nat)
  BY <1>1, AppendProperties DEF ClientConstants
<1>8. answers' \in Seq(Nat)
  BY <1>1, <1>6, <1>7
<1>9. QED
  BY <1>5, <1>8 DEF Host, clientVars, mainVars, childVars, TypeOK

-----------------------------------------------------------------------------
(* Type correctness *)

LEMMA InitTypes == ClientConstants /\ Init => TypeOK
<1> SUFFICES ASSUME ClientConstants, Init PROVE TypeOK
  OBVIOUS
<1>1. /\ <<>> \in Seq(Typed) /\ <<>> \in Seq({0, 1}) /\ <<>> \in Seq(Nat)
  BY EmptySeq
<1>2. 0 \in 0..MaxInterrupts /\ 0 \in Int
  BY DEF ClientConstants
<1>3. QED
  BY <1>1, <1>2 DEF Init, TypeOK

LEMMA NextTypes == ClientConstants /\ TypeOK /\ [Next]_vars => TypeOK'
<1> SUFFICES ASSUME ClientConstants, TypeOK, [Next]_vars PROVE TypeOK'
  OBVIOUS
<1>1. CASE Main
  BY <1>1, EndedTypes, RepliedTypes, TransferRepliedTypes, WaitedTypes, AborAnsweredTypes
     DEF Main
<1>2. CASE User
  BY <1>2, InputTypes, InterruptTypes DEF User
<1>3. CASE Child
  BY <1>3, ChildTypes
<1>4. CASE Host
  BY <1>4, HostTypes
<1>5. CASE UNCHANGED vars
  BY <1>5 DEF vars, TypeOK
<1>6. QED
  BY <1>1, <1>2, <1>3, <1>4, <1>5 DEF Next

\* Whatever the server answers, and when it does not, every variable of the client
\* keeps a value of its kind: no reply made up from a buffer that was not filled, and no
\* verdict, is anything the code does not expect (client.c).
THEOREM TypeCorrect ==
    ASSUME ClientConstants
    PROVE  Spec => []TypeOK
<1>1. Init => TypeOK
  BY InitTypes
<1>2. TypeOK /\ [Next]_vars => TypeOK'
  BY NextTypes
<1>3. QED
  BY <1>1, <1>2, PTL DEF Spec
=============================================================================
