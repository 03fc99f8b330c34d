--------------------------- MODULE FtpServerProofs ---------------------------
(***************************************************************************)
(* Proofs about a session of the FTP server, for every set of requests,    *)
(* every size of files and every number of unread segments.                *)
(***************************************************************************)
EXTENDS FtpServer, SequenceTheorems, TLAPS

-----------------------------------------------------------------------------
(* Helpers *)

ControlStates ==
    {"reading", "handling", "opening", "transfer", "aborting", "reaping", "exiting", "exited"}

\* A reply is one more code, unless SIGPIPE ends the process.
LEMMA SendReplies ==
    ASSUME TypeOK, NEW code \in Nat, NEW next, Send(code, next)
    PROVE  /\ link' \in {"up", "fin", "broken"}
           /\ replies' \in Seq(Nat)
           /\ \/ ctl' = "exited"
              \/ /\ ctl' = next
                 /\ replies' = Append(replies, code)
                 /\ Len(replies') = Len(replies) + 1
                 /\ replies'[Len(replies) + 1] = code
                 /\ \A i \in 1..Len(replies) : replies'[i] = replies[i]
<1>1. replies \in Seq(Nat) /\ link \in {"up", "fin", "broken"}
  BY DEF TypeOK
<1>2. CASE link = "broken"
  BY <1>1, <1>2 DEF Send
<1>3. CASE link # "broken"
  <2>1. /\ ctl' = next
        /\ replies' = Append(replies, code)
        /\ link' \in IF link = "fin" THEN {"fin", "broken"} ELSE {link}
    BY <1>3 DEF Send
  <2>2. QED
    BY <1>1, <2>1, AppendProperties
<1>4. QED
  BY <1>2, <1>3

\* The replies to a transfer that is aborted.
LEMMA AppendToOne ==
    ASSUME NEW a \in Nat, NEW b \in Nat
    PROVE  Append(<<a>>, b) = <<a, b>>
<1>1. /\ <<a>> \in Seq(Nat) /\ Len(<<a>>) = 1 /\ <<a>>[1] = a
      /\ <<a, b>> \in Seq(Nat) /\ Len(<<a, b>>) = 2 /\ <<a, b>>[1] = a /\ <<a, b>>[2] = b
  OBVIOUS
<1>2. PICK t : t = Append(<<a>>, b)
  OBVIOUS
<1>3. t \in Seq(Nat) /\ Len(t) = 2 /\ t[1] = a /\ t[2] = b
  BY <1>1, <1>2, AppendProperties
<1>4. \A i \in 1..Len(t) : t[i] = <<a, b>>[i]
  BY <1>1, <1>3
<1>5. QED
  BY <1>1, <1>2, <1>3, <1>4, SeqEqual

LEMMA AppendToTwo ==
    ASSUME NEW a \in Nat, NEW b \in Nat, NEW c \in Nat
    PROVE  Append(<<a, b>>, c) = <<a, b, c>>
<1>1. /\ <<a, b>> \in Seq(Nat) /\ Len(<<a, b>>) = 2 /\ <<a, b>>[1] = a /\ <<a, b>>[2] = b
      /\ <<a, b, c>> \in Seq(Nat) /\ Len(<<a, b, c>>) = 3
      /\ <<a, b, c>>[1] = a /\ <<a, b, c>>[2] = b /\ <<a, b, c>>[3] = c
  OBVIOUS
<1>2. PICK t : t = Append(<<a, b>>, c)
  OBVIOUS
<1>3. t \in Seq(Nat) /\ Len(t) = 3 /\ t[1] = a /\ t[2] = b /\ t[3] = c
  BY <1>1, <1>2, AppendProperties
<1>4. \A i \in 1..Len(t) : t[i] = <<a, b, c>>[i]
  BY <1>1, <1>3
<1>5. QED
  BY <1>1, <1>2, <1>3, <1>4, SeqEqual

\* What a read leaves in the inbox.
LEMMA ReadsTypes ==
    ASSUME TypeOK, NEW n \in DOMAIN inbox, Reads(n)
    PROVE  inbox' \in Seq(Requests \cup {Part}) /\ midline' \in BOOLEAN
<1> DEFINE S == Requests \cup {Part}
<1>1. inbox \in Seq(S)
  BY DEF TypeOK
<1>2. Len(inbox) \in Nat /\ \A i \in 1..Len(inbox) : inbox[i] \in S
  BY <1>1, LenProperties, ElementOfSeq
<1>3. n \in 1..Len(inbox)
  BY <1>1, LenProperties
<1>4. inbox' = SubSeq(inbox, n + 1, Len(inbox)) /\ midline' = (inbox[n] = Part)
  BY DEF Reads
<1>5. n + 1 \in Int /\ Len(inbox) \in Int /\ \A i \in (n + 1)..Len(inbox) : inbox[i] \in S
  BY <1>2, <1>3
<1>6. SubSeq(inbox, n + 1, Len(inbox)) \in Seq(S)
  BY <1>5, SubSeqProperties
<1>7. QED
  BY <1>4, <1>6

\* Whatever the parameter becomes, it is one.
LEMMA FollowedTypes == \A line \in Request : Followed(line) \subseteq Request
<1> TAKE line \in Request
<1>1. line.arg \in {"none"} \cup Numeral
  BY DEF Request
<1>2. "bad" \in Numeral
  BY DEF Numeral
<1>3. \A arg \in {"none"} \cup Numeral : [line EXCEPT !.arg = arg] \in Request
  BY DEF Request
<1>4. QED
  BY <1>1, <1>2, <1>3 DEF Followed, ParsedArgs

\* The first line is what the client has sent, or what the lines behind have made of it.
LEMMA FirstLineTypes ==
    ASSUME TypeOK, NEW n \in DOMAIN inbox, NEW line \in FirstLine(n)
    PROVE  /\ line \in Request \cup {NoRequest}
           /\ inbox[n] # Part /\ sentence = NoRequest => line \in Request
<1>1. inbox \in Seq(Requests \cup {Part}) /\ sentence \in Request \cup {NoRequest}
  BY DEF TypeOK
<1>2. n \in 1..Len(inbox) /\ \A i \in 1..Len(inbox) : inbox[i] \in Requests \cup {Part}
  BY <1>1, LenProperties, ElementOfSeq
<1>3. CASE sentence # NoRequest \/ \A i \in 1..n : inbox[i] = Part
  BY <1>1, <1>2, <1>3 DEF FirstLine
<1>4. CASE ~(sentence # NoRequest \/ \A i \in 1..n : inbox[i] = Part)
  <2>1. PICK i \in 1..n :
           inbox[i] # Part /\ line \in IF i = n THEN {inbox[i]} ELSE Followed(inbox[i])
    BY <1>4 DEF FirstLine
  <2>2. inbox[i] \in Request
    BY <1>2, <2>1, ServerAssumption
  <2>3. QED
    BY <2>1, <2>2, FollowedTypes
<1>5. QED
  BY <1>3, <1>4

\* When the text read ends with a line, there is a first one.
LEMMA HeardTypes ==
    ASSUME TypeOK, NEW n \in DOMAIN inbox, Reads(n), ~midline', NEW line \in FirstLine(n)
    PROVE  line \in Request
<1>1. inbox[n] # Part
  BY DEF Reads
<1>2. CASE sentence = NoRequest
  BY <1>1, <1>2, FirstLineTypes
<1>3. CASE sentence # NoRequest
  BY <1>3 DEF FirstLine, TypeOK
<1>4. QED
  BY <1>2, <1>3

\* The request at hand is one of Request, and its verb one of Verb.
LEMMA HandledVerb ==
    ASSUME IInv, ctl = "handling"
    PROVE  request \in Request /\ request.verb \in Verb
<1>1. request \in Request
  BY DEF IInv, RepliesFollow
<1>2. QED
  BY <1>1 DEF Request

\* 150 is no answer of a command that is not carried out.
LEMMA AnswersNot150 ==
    ASSUME request.verb \in Verb
    PROVE  Answers \subseteq Nat \ {150}
BY DEF Answers, Verb, Unhandled, Without

\* atoi makes an int, and leaves one as it is.
LEMMA atoiRange ==
    ASSUME NEW n \in Int
    PROVE  /\ atoi(n) \in -(IntMax + 1)..IntMax
           /\ n \in 0..IntMax => atoi(n) = n
<1>1. IntMax \in Nat
  BY ServerAssumption
<1> DEFINE m == 2 * (IntMax + 1)
           k == n + IntMax + 1
<1>2. m \in Nat \ {0} /\ k \in Int
  BY <1>1
<1> HIDE DEF m, k
<1>3. k % m \in 0..(m - 1)
  BY <1>2
<1>4. k \in 0..(m - 1) => k % m = k
  BY <1>2
<1>5. atoi(n) = (k % m) - (IntMax + 1)
  BY DEF atoi, m, k
<1>6. m = 2 * IntMax + 2 /\ k = n + IntMax + 1
  BY <1>1 DEF m, k
<1>7. QED
  BY <1>1, <1>2, <1>3, <1>4, <1>5, <1>6

LEMMA ZeroFits == 0 \in -(IntMax + 1)..IntMax
BY ServerAssumption

\* The position that REST stores is an int.
LEMMA RestPosition ==
    ASSUME IInv, Rest
    PROVE  offset' \in -(IntMax + 1)..IntMax
<1>1. ctl = "handling" /\ request.verb = "REST" /\ Answers = {}
  BY DEF Rest, Carries, Is
<1>2. request \in Request
  BY <1>1, HandledVerb
<1>3. request.arg # "none"
  BY <1>1 DEF Answers, Without
<1>4. request.arg \in Numeral
  BY <1>2, <1>3 DEF Request
<1>5. Number[request.arg] \in Int
  BY <1>4, ServerAssumption
<1>6. QED
  BY <1>5, atoiRange DEF Rest

\* USER and PASS are carried out in turn.
LEMMA LogInOrder ==
    /\ Carries({"USER"}) => status = "CONNECTED"
    /\ Carries({"PASS"}) => status = "USER"
BY DEF Carries, Is, Answers, Unhandled, Without

-----------------------------------------------------------------------------
(* The invariant holds at first *)

LEMMA InitIInv == Init => IInv
<1> SUFFICES ASSUME Init PROVE IInv
  OBVIOUS
<1>1. <<220>> \in Seq(Nat) /\ Len(<<220>>) = 1 /\ <<220>> # <<150>>
  OBVIOUS
<1>2. TypeOK
  <2>1. inbox \in Seq(Requests \cup {Part}) /\ pipe \in Seq({0, 1, 2})
    BY EmptySeq DEF Init
  <2>2. left \in 0..MaxBlocks
    BY ServerAssumption DEF Init
  <2>3. replies \in Seq(Nat)
    BY <1>1 DEF Init
  <2>4. QED
    BY <2>1, <2>2, <2>3, ZeroFits DEF Init, TypeOK
<1>3. QED
  BY <1>1, <1>2 DEF Init, IInv, NothingLeft, ListensIfPassive, AnsweredOnce, CompleteIsAll,
     NoOrphan, RepliesFollow, ResultFits, SocketClosed

-----------------------------------------------------------------------------
(* Commands are read and answered *)

\* The other parts of the invariant look at these variables only.
LEMMA IInvFrame ==
    ASSUME IInv, TypeOK',
           UNCHANGED <<ctl, status, listening, request, replies, dtp, term, pipe, left, ferror>>
    PROVE  IInv'
BY DEF IInv, NothingLeft, ListensIfPassive, AnsweredOnce, CompleteIsAll, NoOrphan,
   RepliesFollow, ResultFits, SocketClosed

LEMMA ReadPartKeeps == IInv /\ ReadPart => IInv'
<1> SUFFICES ASSUME IInv, ReadPart PROVE IInv'
  OBVIOUS
<1>1. TypeOK
  BY DEF IInv
<1>2. PICK n \in DOMAIN inbox : Reads(n) /\ sentence' \in FirstLine(n)
  BY DEF ReadPart
<1>7. sentence' \in Request \cup {NoRequest}
  BY <1>1, <1>2, FirstLineTypes
<1>3. UNCHANGED <<ctl, status, offset, listening, data_socket, request, replies, link, peer,
                  dtp, term, pipe, left, ferror>>
  BY DEF ReadPart, dtpVars
<1>4. inbox' \in Seq(Requests \cup {Part}) /\ midline' \in BOOLEAN
  BY <1>1, <1>2, ReadsTypes
<1>5. TypeOK'
  BY <1>1, <1>3, <1>4, <1>7 DEF TypeOK
<1>6. QED
  BY <1>3, <1>5, IInvFrame

LEMMA ReadCommandKeeps == IInv /\ ReadCommand => IInv'
<1> SUFFICES ASSUME IInv, ReadCommand PROVE IInv'
  OBVIOUS
<1>1. TypeOK
  BY DEF IInv
<1>2. PICK n \in DOMAIN inbox : Reads(n) /\ request' \in FirstLine(n)
  BY DEF ReadCommand
<1>10. request' \in Request
  BY <1>1, <1>2, HeardTypes DEF ReadCommand
<1>3. /\ ctl = "reading" /\ ctl' = "handling"
      /\ sentence' = NoRequest /\ replies' = <<>>
      /\ UNCHANGED <<status, offset, listening, data_socket, link, peer, dtp, term, pipe, left,
                     ferror>>
  BY DEF ReadCommand, dtpVars
<1>4. inbox' \in Seq(Requests \cup {Part}) /\ midline' \in BOOLEAN
  BY <1>1, <1>2, ReadsTypes
<1>5. TypeOK'
  <2>1. replies' \in Seq(Nat)
    BY <1>3, EmptySeq
  <2>2. QED
    BY <1>1, <1>3, <1>4, <1>10, <2>1 DEF TypeOK
<1>6. NothingLeft' /\ ListensIfPassive'
  BY <1>3 DEF IInv, NothingLeft, ListensIfPassive
<1>7. AnsweredOnce' /\ CompleteIsAll' /\ NoOrphan' /\ RepliesFollow' /\ SocketClosed'
  BY <1>3, <1>10 DEF AnsweredOnce, CompleteIsAll, NoOrphan, RepliesFollow, SocketClosed
<1>8. ResultFits'
  <2>1. pipe = <<>>
    BY <1>3 DEF IInv, NothingLeft
  <2>2. QED
    BY <1>3, <2>1 DEF IInv, ResultFits
<1>9. QED
  BY <1>5, <1>6, <1>7, <1>8 DEF IInv

LEMMA SessionEndsKeeps == IInv /\ SessionEnds => IInv'
<1> SUFFICES ASSUME IInv, SessionEnds PROVE IInv'
  OBVIOUS
<1>1. /\ ctl = "reading" /\ ctl' = "exited"
      /\ UNCHANGED <<status, offset, listening, data_socket, request, sentence, midline, replies,
                     dtp, term, pipe, left, ferror, link, inbox, peer>>
  BY DEF SessionEnds, dtpVars, netVars
<1>2. TypeOK'
  BY <1>1 DEF IInv, TypeOK
<1>3. NoOrphan'
  BY <1>1 DEF IInv, NothingLeft, NoOrphan
<1>4. ResultFits'
  BY <1>1 DEF IInv, ResultFits
<1>5. QED
  BY <1>1, <1>2, <1>3, <1>4 DEF IInv, NothingLeft, ListensIfPassive, AnsweredOnce,
     CompleteIsAll, RepliesFollow, SocketClosed

\* A command is answered once, and the process reads on or ends.
LEMMA HandledKeeps ==
    ASSUME IInv, ctl = "handling",
           NEW code \in Nat \ {150}, NEW next \in {"reading", "exited"}, Send(code, next),
           next = "reading" => (listening' <=> status' = "PASV"),
           status' \in {"CONNECTED", "USER", "PASS", "PORT", "PASV"},
           offset' \in -(IntMax + 1)..IntMax, listening' \in BOOLEAN,
           request' = NoRequest, UNCHANGED data_socket, NoTransfer
    PROVE  IInv'
<1>1. TypeOK /\ replies = <<>> /\ dtp = "none" /\ pipe = <<>>
  BY DEF IInv, RepliesFollow, NothingLeft
<1>2. UNCHANGED <<dtp, term, pipe, peer, left, ferror, inbox, sentence, midline>>
  BY DEF NoTransfer
<1>3. /\ link' \in {"up", "fin", "broken"}
      /\ replies' \in Seq(Nat)
      /\ \/ ctl' = "exited"
         \/ ctl' = next /\ Len(replies') = Len(replies) + 1 /\ replies'[Len(replies) + 1] = code
  BY <1>1, SendReplies
<1>4. TypeOK'
  BY <1>1, <1>2, <1>3 DEF TypeOK
<1>5. ctl' = "reading" => Len(replies') = 1 /\ replies' # <<150>>
  <2>1. Len(<<>>) = 0 /\ <<150>>[1] = 150
    OBVIOUS
  <2>2. QED
    BY <1>1, <1>3, <2>1
<1>6. AnsweredOnce' /\ ListensIfPassive'
  BY <1>3, <1>5 DEF AnsweredOnce, ListensIfPassive
<1>7. QED
  BY <1>1, <1>2, <1>3, <1>4, <1>6 DEF IInv, NothingLeft, CompleteIsAll, NoOrphan,
     RepliesFollow, ResultFits, SocketClosed

LEMMA OnlyAnsweredKeeps == IInv /\ OnlyAnswered => IInv'
<1> SUFFICES ASSUME IInv, OnlyAnswered PROVE IInv'
  OBVIOUS
<1>1. ctl = "handling"
  BY DEF OnlyAnswered
<1>2. PICK code \in Answers : Send(code, "reading")
  BY DEF OnlyAnswered
<1>3. code \in Nat \ {150}
  BY <1>1, HandledVerb, AnswersNot150
<1>4. /\ offset' = 0 /\ request' = NoRequest
      /\ UNCHANGED <<status, listening, data_socket>> /\ NoTransfer
  BY DEF OnlyAnswered
<1>5. listening <=> status = "PASV"
  BY <1>1 DEF IInv, ListensIfPassive
<1>6. /\ status \in {"CONNECTED", "USER", "PASS", "PORT", "PASV"}
      /\ listening \in BOOLEAN
  BY DEF IInv, TypeOK
<1>7. QED
  BY <1>1, <1>2, <1>3, <1>4, <1>5, <1>6, ZeroFits, HandledKeeps

LEMMA SessionCommandKeeps == IInv /\ (Quit \/ LogIn \/ Port \/ Pasv \/ Rest) => IInv'
<1> SUFFICES ASSUME IInv, Quit \/ LogIn \/ Port \/ Pasv \/ Rest PROVE IInv'
  OBVIOUS
<1>1. ctl = "handling"
  BY DEF Quit, LogIn, Port, Pasv, Rest, Carries, Is
<1>2. listening <=> status = "PASV"
  BY <1>1 DEF IInv, ListensIfPassive
<1>3. /\ status \in {"CONNECTED", "USER", "PASS", "PORT", "PASV"}
      /\ listening \in BOOLEAN
  BY DEF IInv, TypeOK
<1>4. CASE Quit
  <2>1. /\ Send(221, "exited") /\ offset' = 0 /\ request' = NoRequest
        /\ listening' = (listening /\ status # "PASV")
        /\ UNCHANGED <<status, data_socket>> /\ NoTransfer
    BY <1>4 DEF Quit
  <2>2. listening' \in BOOLEAN
    BY <2>1
  <2>3. QED
    BY <1>1, <1>3, <2>1, <2>2, ZeroFits, HandledKeeps
<1>5. CASE LogIn
  <2>1. /\ \/ Carries({"USER"}) /\ Send(331, "reading") /\ status' = "USER"
           \/ Carries({"PASS"}) /\ Send(230, "reading") /\ status' = "PASS"
        /\ offset' = 0 /\ request' = NoRequest
        /\ UNCHANGED <<listening, data_socket>> /\ NoTransfer
    BY <1>5 DEF LogIn
  <2>2. status # "PASV" /\ status' \in {"USER", "PASS"}
    BY <2>1, LogInOrder
  <2>3. (listening' <=> status' = "PASV") /\ listening' \in BOOLEAN
    BY <1>2, <1>3, <2>1, <2>2
  <2>4. CASE Send(331, "reading")
    BY <1>1, <2>1, <2>2, <2>3, <2>4, ZeroFits, HandledKeeps
  <2>5. CASE Send(230, "reading")
    BY <1>1, <2>1, <2>2, <2>3, <2>5, ZeroFits, HandledKeeps
  <2>6. QED
    BY <2>1, <2>4, <2>5
<1>6. CASE Port
  <2>1. /\ Send(200, "reading") /\ listening' = FALSE /\ status' = "PORT"
        /\ offset' = 0 /\ request' = NoRequest
        /\ UNCHANGED data_socket /\ NoTransfer
    BY <1>6 DEF Port
  <2>2. (listening' <=> status' = "PASV") /\ listening' \in BOOLEAN
    BY <2>1
  <2>3. QED
    BY <1>1, <2>1, <2>2, ZeroFits, HandledKeeps
<1>7. CASE Pasv
  <2>1. /\ Send(227, "reading") /\ listening' = TRUE /\ status' = "PASV"
        /\ offset' = 0 /\ request' = NoRequest
        /\ UNCHANGED data_socket /\ NoTransfer
    BY <1>7 DEF Pasv
  <2>2. (listening' <=> status' = "PASV") /\ listening' \in BOOLEAN
    BY <2>1
  <2>3. QED
    BY <1>1, <2>1, <2>2, ZeroFits, HandledKeeps
<1>8. CASE Rest
  <2>1. /\ offset' \in -(IntMax + 1)..IntMax /\ request' = NoRequest
        /\ Send(IF offset' < 0 THEN 501 ELSE 350, "reading")
        /\ UNCHANGED <<status, listening, data_socket>> /\ NoTransfer
    BY <1>8, RestPosition DEF Rest
  <2>2. (IF offset' < 0 THEN 501 ELSE 350) \in Nat \ {150}
    OBVIOUS
  <2>3. QED
    BY <1>1, <1>2, <1>3, <2>1, <2>2, HandledKeeps
<1>9. QED
  BY <1>4, <1>5, <1>6, <1>7, <1>8

LEMMA StartTransferKeeps == IInv /\ StartTransfer => IInv'
<1> SUFFICES ASSUME IInv, StartTransfer PROVE IInv'
  OBVIOUS
<1>1. /\ ctl = "handling" /\ Send(150, "opening")
      /\ offset' = IF request.verb = "LIST" THEN 0 ELSE offset
      /\ UNCHANGED <<status, listening, data_socket, request>>
      /\ UNCHANGED <<dtp, term, pipe, peer, left, ferror, inbox, sentence, midline>>
  BY DEF StartTransfer, Carries, Is, NoTransfer
<1>2. TypeOK /\ replies = <<>> /\ dtp = "none" /\ pipe = <<>>
  BY <1>1 DEF IInv, RepliesFollow, NothingLeft
<1>3. /\ link' \in {"up", "fin", "broken"}
      /\ replies' \in Seq(Nat)
      /\ \/ ctl' = "exited"
         \/ ctl' = "opening" /\ replies' = Append(replies, 150)
  BY <1>1, <1>2, SendReplies
<1>4. TypeOK'
  BY <1>1, <1>2, <1>3, ZeroFits DEF TypeOK
<1>5. ctl' = "opening" => replies' = <<150>>
  <2>1. Append(<<>>, 150) = <<150>>
    OBVIOUS
  <2>2. QED
    BY <1>2, <1>3, <2>1
<1>6. QED
  BY <1>1, <1>2, <1>3, <1>4, <1>5 DEF IInv, NothingLeft, ListensIfPassive, AnsweredOnce,
     CompleteIsAll, NoOrphan, RepliesFollow, ResultFits, SocketClosed

LEMMA HandleRequestKeeps == IInv /\ handle_request => IInv'
BY OnlyAnsweredKeeps, SessionCommandKeeps, StartTransferKeeps DEF handle_request

-----------------------------------------------------------------------------
(* The control process during a transfer *)

\* A transfer that cannot begin: one more reply, and nothing is left of it.
LEMMA NotOpenedKeeps ==
    ASSUME IInv, ctl = "opening", NEW code \in Nat, Send(code, "reading"),
           listening' = FALSE, data_socket' \in BOOLEAN, Finished, NoTransfer
    PROVE  IInv'
<1>1. TypeOK /\ replies = <<150>> /\ dtp = "none" /\ pipe = <<>>
  BY DEF IInv, RepliesFollow, NothingLeft
<1>2. /\ offset' = 0 /\ status' = "PASS" /\ request' = NoRequest
      /\ UNCHANGED <<dtp, term, pipe, peer, left, ferror, inbox, sentence, midline>>
  BY DEF NoTransfer, Finished
<1>3. /\ link' \in {"up", "fin", "broken"}
      /\ replies' \in Seq(Nat)
      /\ \/ ctl' = "exited"
         \/ /\ ctl' = "reading" /\ Len(replies') = Len(replies) + 1
            /\ \A i \in 1..Len(replies) : replies'[i] = replies[i]
  BY <1>1, SendReplies
<1>4. TypeOK'
  BY <1>1, <1>2, <1>3, ZeroFits DEF TypeOK
<1>5. ctl' = "reading" => Len(replies') = 2 /\ replies'[1] = 150
  <2>1. Len(<<150>>) = 1 /\ <<150>>[1] = 150 /\ 1 \in 1..1
    OBVIOUS
  <2>2. QED
    BY <1>1, <1>3, <2>1
<1>6. AnsweredOnce'
  BY <1>3, <1>5 DEF AnsweredOnce
<1>7. QED
  BY <1>1, <1>2, <1>3, <1>4, <1>6 DEF IInv, NothingLeft, ListensIfPassive, CompleteIsAll,
     NoOrphan, RepliesFollow, ResultFits, SocketClosed

LEMMA OpeningKeeps == IInv /\ (OpenFails \/ PipeFails \/ ForkFails) => IInv'
<1> SUFFICES ASSUME IInv, OpenFails \/ PipeFails \/ ForkFails PROVE IInv'
  OBVIOUS
<1>1. data_socket \in BOOLEAN
  BY DEF IInv, TypeOK
<1>2. /\ ctl = "opening"
      /\ Send(425, "reading") \/ Send(500, "reading")
      /\ listening' = FALSE /\ data_socket' \in BOOLEAN /\ Finished /\ NoTransfer
  BY <1>1 DEF OpenFails, PipeFails, ForkFails
<1>3. CASE Send(425, "reading")
  <2>1. 425 \in Nat
    OBVIOUS
  <2>2. QED
    BY <1>2, <1>3, <2>1, NotOpenedKeeps
<1>4. CASE Send(500, "reading")
  <2>1. 500 \in Nat
    OBVIOUS
  <2>2. QED
    BY <1>2, <1>4, <2>1, NotOpenedKeeps
<1>5. QED
  BY <1>2, <1>3, <1>4

LEMMA ForksKeeps == IInv /\ Forks => IInv'
<1> SUFFICES ASSUME IInv, Forks PROVE IInv'
  OBVIOUS
<1>1. /\ ctl = "opening" /\ ctl' = "transfer" /\ listening' = FALSE /\ dtp' = "opening"
      /\ term' = FALSE /\ pipe' = <<>> /\ peer' = "open" /\ left' \in 0..MaxBlocks
      /\ ferror' = FALSE
      /\ UNCHANGED <<status, offset, data_socket, request, sentence, midline, replies, link,
                     inbox>>
  BY DEF Forks
<1>2. pipe' \in Seq({0, 1, 2})
  BY <1>1, EmptySeq
<1>3. TypeOK'
  BY <1>1, <1>2 DEF IInv, TypeOK
<1>4. RepliesFollow'
  BY <1>1 DEF IInv, RepliesFollow
<1>5. QED
  BY <1>1, <1>3, <1>4 DEF IInv, NothingLeft, ListensIfPassive, AnsweredOnce, CompleteIsAll,
     NoOrphan, ResultFits, SocketClosed

LEMMA HearCommandKeeps == IInv /\ HearCommand => IInv'
<1> SUFFICES ASSUME IInv, HearCommand PROVE IInv'
  OBVIOUS
<1>1. /\ TypeOK /\ replies = <<150>> /\ ~listening
      /\ dtp \in {"none", "opening", "moving", "exiting", "dead"}
  BY DEF HearCommand, IInv, RepliesFollow, SocketClosed, TypeOK
<1>2. PICK n \in DOMAIN inbox :
         /\ Reads(n)
         /\ \/ Kill /\ Send(426, "aborting")
            \/ UNCHANGED <<term, ctl, replies, link>>
  BY DEF HearCommand
<1>3. /\ ctl = "transfer" /\ sentence' = NoRequest
      /\ UNCHANGED <<status, offset, listening, data_socket, request, dtp, pipe, left,
                     ferror, peer>>
  BY DEF HearCommand
<1>4. inbox' \in Seq(Requests \cup {Part}) /\ midline' \in BOOLEAN
  BY <1>1, <1>2, ReadsTypes
<1>5. CASE UNCHANGED <<term, ctl, replies, link>>
  <2>1. TypeOK'
    BY <1>1, <1>3, <1>4, <1>5 DEF TypeOK
  <2>2. QED
    BY <1>3, <1>5, <2>1, IInvFrame
<1>6. CASE Kill /\ Send(426, "aborting")
  <2>1. term' \in BOOLEAN /\ (dtp = "dead" \/ term')
    BY <1>6 DEF Kill
  <2>2. /\ link' \in {"up", "fin", "broken"}
        /\ replies' \in Seq(Nat)
        /\ \/ ctl' = "exited"
           \/ ctl' = "aborting" /\ replies' = Append(replies, 426)
    BY <1>1, <1>6, SendReplies
  <2>3. TypeOK'
    BY <1>1, <1>3, <1>4, <2>1, <2>2 DEF TypeOK
  <2>4. ctl' = "aborting" => replies' = <<150, 426>>
    BY <1>1, <2>2, AppendToOne
  <2>5. RepliesFollow' /\ AnsweredOnce' /\ CompleteIsAll' /\ NothingLeft' /\ ListensIfPassive'
    BY <2>2, <2>4 DEF RepliesFollow, AnsweredOnce, CompleteIsAll, NothingLeft, ListensIfPassive
  <2>6. ResultFits' /\ SocketClosed' /\ NoOrphan'
    BY <1>1, <1>3, <2>1, <2>2 DEF IInv, ResultFits, SocketClosed, NoOrphan
  <2>7. QED
    BY <2>3, <2>5, <2>6 DEF IInv
<1>7. QED
  BY <1>2, <1>5, <1>6

LEMMA AbortDoneKeeps == IInv /\ AbortDone => IInv'
<1> SUFFICES ASSUME IInv, AbortDone PROVE IInv'
  OBVIOUS
<1>1. /\ ctl = "aborting" /\ dtp' = "none" /\ Send(226, "reaping")
      /\ UNCHANGED <<status, offset, listening, data_socket, request, sentence, midline,
                     inbox, term, pipe, peer, left, ferror>>
  BY DEF AbortDone
<1>2. TypeOK /\ replies = <<150, 426>> /\ ~listening
  BY <1>1 DEF IInv, RepliesFollow, SocketClosed
<1>3. /\ link' \in {"up", "fin", "broken"}
      /\ replies' \in Seq(Nat)
      /\ \/ ctl' = "exited"
         \/ ctl' = "reaping" /\ replies' = Append(replies, 226)
  BY <1>1, <1>2, SendReplies
<1>4. TypeOK'
  BY <1>1, <1>2, <1>3 DEF TypeOK
<1>5. ctl' = "reaping" => replies' = <<150, 426, 226>>
  BY <1>2, <1>3, AppendToTwo
<1>6. <<150, 426, 226>> # <<150, 226>>
  OBVIOUS
<1>7. RepliesFollow' /\ AnsweredOnce' /\ CompleteIsAll' /\ NothingLeft' /\ ListensIfPassive'
  BY <1>3, <1>5, <1>6
     DEF RepliesFollow, AnsweredOnce, CompleteIsAll, NothingLeft, ListensIfPassive
<1>8. ResultFits' /\ SocketClosed' /\ NoOrphan'
  BY <1>1, <1>2 DEF IInv, ResultFits, SocketClosed, NoOrphan
<1>9. QED
  BY <1>4, <1>7, <1>8 DEF IInv

LEMMA ClientGoneKeeps == IInv /\ (ClientGone \/ Exit) => IInv'
<1> SUFFICES ASSUME IInv, ClientGone \/ Exit PROVE IInv'
  OBVIOUS
<1>1. CASE ClientGone
  <2>1. /\ ctl' \in {"exiting", "exited"} /\ term' \in BOOLEAN /\ (dtp = "dead" \/ term')
        /\ UNCHANGED <<status, offset, listening, data_socket, request, sentence, midline,
                       replies, dtp, pipe, left, ferror, link, inbox, peer>>
    BY <1>1 DEF ClientGone, Kill, netVars
  <2>2. TypeOK'
    BY <2>1 DEF IInv, TypeOK
  <2>3. ResultFits' /\ NoOrphan'
    BY <2>1 DEF IInv, ResultFits, NoOrphan
  <2>4. QED
    BY <2>1, <2>2, <2>3 DEF IInv, NothingLeft, ListensIfPassive, AnsweredOnce, CompleteIsAll,
       RepliesFollow, SocketClosed
<1>2. CASE Exit
  <2>1. /\ ctl' = "exited" /\ dtp' = "none"
        /\ UNCHANGED <<status, offset, listening, data_socket, request, sentence, midline,
                       replies, term, pipe, left, ferror, link, inbox, peer>>
    BY <1>2 DEF Exit, netVars
  <2>2. TypeOK'
    BY <2>1 DEF IInv, TypeOK
  <2>3. ResultFits' /\ NoOrphan'
    BY <2>1 DEF IInv, ResultFits, NoOrphan
  <2>4. QED
    BY <2>1, <2>2, <2>3 DEF IInv, NothingLeft, ListensIfPassive, AnsweredOnce, CompleteIsAll,
       RepliesFollow, SocketClosed
<1>3. QED
  BY <1>1, <1>2

\* The result a child has written decides the reply: 226 only when nothing is
\* left, unless the disk failed.
LEMMA TakeResultKeeps == IInv /\ TakeResult => IInv'
<1> SUFFICES ASSUME IInv, TakeResult PROVE IInv'
  OBVIOUS
<1> DEFINE code == CASE Head(pipe) = 0 -> 226 [] Head(pipe) = 1 -> 451 [] Head(pipe) = 2 -> 426
<1>1. /\ ctl = "transfer" /\ pipe # <<>> /\ pipe' = Tail(pipe) /\ Send(code, "reaping")
      /\ UNCHANGED <<status, offset, listening, data_socket, request, sentence, midline,
                     inbox, dtp, term, peer, left, ferror>>
  BY DEF TakeResult
<1>2. TypeOK /\ replies = <<150>> /\ ~listening
  BY <1>1 DEF IInv, RepliesFollow, SocketClosed
<1>3. /\ Len(pipe) = 1 /\ (pipe[1] = 0 /\ (ferror => request.verb = "STOR") => left = 0)
      /\ dtp \in {"none", "exiting", "dead"}
      /\ pipe \in Seq({0, 1, 2})
  BY <1>1, <1>2 DEF IInv, ResultFits, TypeOK
<1>4. Head(pipe) = pipe[1] /\ Head(pipe) \in {0, 1, 2} /\ Tail(pipe) \in Seq({0, 1, 2})
  BY <1>1, <1>3, HeadTailProperties
<1>5. code \in Nat /\ (code = 226 /\ (ferror => request.verb = "STOR") => left = 0)
  BY <1>3, <1>4
<1>6. Tail(pipe) = <<>>
  <2>1. Len(Tail(pipe)) = 0
    BY <1>1, <1>3, HeadTailProperties
  <2>2. QED
    BY <1>4, <2>1, EmptySeq
<1> HIDE DEF code
<1>7. /\ link' \in {"up", "fin", "broken"}
      /\ replies' \in Seq(Nat)
      /\ \/ ctl' = "exited"
         \/ /\ ctl' = "reaping" /\ Len(replies') = Len(replies) + 1
            /\ replies'[Len(replies) + 1] = code
            /\ \A i \in 1..Len(replies) : replies'[i] = replies[i]
  BY <1>1, <1>2, <1>5, SendReplies
<1>8. TypeOK'
  BY <1>1, <1>2, <1>4, <1>7 DEF TypeOK
<1>9. ctl' = "reaping" => Len(replies') = 2 /\ replies'[1] = 150 /\ replies'[2] = code
  <2>1. Len(<<150>>) = 1 /\ <<150>>[1] = 150 /\ 1 \in 1..1
    OBVIOUS
  <2>2. QED
    BY <1>2, <1>7, <2>1
<1>10. CompleteIsAll'
  <2>1. <<150, 226>>[2] = 226
    OBVIOUS
  <2>2. QED
    BY <1>1, <1>5, <1>9, <2>1 DEF CompleteIsAll
<1>11. RepliesFollow' /\ AnsweredOnce' /\ NothingLeft' /\ ListensIfPassive'
  BY <1>7, <1>9 DEF RepliesFollow, AnsweredOnce, NothingLeft, ListensIfPassive
<1>12. ResultFits' /\ SocketClosed' /\ NoOrphan'
  BY <1>1, <1>2, <1>3, <1>6 DEF ResultFits, SocketClosed, NoOrphan
<1>13. QED
  BY <1>8, <1>10, <1>11, <1>12 DEF IInv

LEMMA FinishKeeps == IInv /\ Finish => IInv'
<1> SUFFICES ASSUME IInv, Finish PROVE IInv'
  OBVIOUS
<1>1. /\ ctl = "reaping" /\ ctl' = "reading" /\ dtp' = "none" /\ pipe' = <<>>
      /\ peer' = "none" /\ left' = 0 /\ ferror' = FALSE /\ offset' = 0 /\ status' = "PASS"
      /\ request' = NoRequest
      /\ UNCHANGED <<listening, data_socket, sentence, midline, replies, term, link, inbox>>
  BY DEF Finish, Finished
<1>2. ~listening
  BY <1>1 DEF IInv, SocketClosed
<1>3. TypeOK'
  <2>1. pipe' \in Seq({0, 1, 2}) /\ left' \in 0..MaxBlocks
    BY <1>1, EmptySeq, ServerAssumption
  <2>2. QED
    BY <1>1, <2>1, ZeroFits DEF IInv, TypeOK
<1>4. AnsweredOnce'
  BY <1>1 DEF IInv, RepliesFollow, AnsweredOnce
<1>5. QED
  BY <1>1, <1>2, <1>3, <1>4 DEF IInv, NothingLeft, ListensIfPassive, CompleteIsAll, NoOrphan,
     RepliesFollow, ResultFits, SocketClosed

-----------------------------------------------------------------------------
(* The child *)

\* A step of the child ends it, moves data, or writes its one result.
LEMMA ChildKeeps ==
    ASSUME IInv, dtp \in {"opening", "moving", "exiting"}, UNCHANGED childFrame,
           peer' \in {"none", "open", "fin", "reset", "broken"},
           ferror' \in BOOLEAN,
           \/ dtp' = "dead" /\ UNCHANGED <<pipe, left, ferror>>
           \/ /\ dtp \in {"opening", "moving"} /\ dtp' = "moving" /\ UNCHANGED pipe
              /\ left' \in 0..MaxBlocks
           \/ /\ dtp \in {"opening", "moving"} /\ UNCHANGED left
              /\ \E code \in {0, 1, 2} :
                     Writes(code) /\ (code = 0 /\ (ferror' => request.verb = "STOR") => left = 0)
    PROVE  IInv'
<1>1. /\ UNCHANGED <<ctl, status, offset, listening, data_socket, request, sentence, midline,
                     replies, link, inbox, term>>
      /\ dtp' \in {"moving", "exiting", "dead"}
  BY DEF childFrame, ctlVars, Writes
<1>2. TypeOK /\ ctl \notin {"reading", "handling", "opening"}
  BY DEF IInv, NothingLeft
<1>3. pipe' \in Seq({0, 1, 2}) /\ left' \in 0..MaxBlocks
  <2>1. pipe \in Seq({0, 1, 2}) /\ left \in 0..MaxBlocks
    BY <1>2 DEF TypeOK
  <2>2. \A code \in {0, 1, 2} : Append(pipe, code) \in Seq({0, 1, 2})
    BY <2>1, AppendProperties
  <2>3. QED
    BY <2>1, <2>2 DEF Writes
<1>4. TypeOK'
  BY <1>1, <1>2, <1>3 DEF TypeOK
<1>5. dtp \in {"opening", "moving"} => pipe = <<>> /\ ctl # "reaping"
  BY DEF IInv, ResultFits
<1>6. ResultFits'
  <2>1. CASE dtp' = "dead" /\ UNCHANGED <<pipe, left, ferror>>
    BY <1>1, <2>1 DEF IInv, ResultFits
  <2>2. CASE /\ dtp \in {"opening", "moving"} /\ dtp' = "moving" /\ UNCHANGED pipe
             /\ left' \in 0..MaxBlocks
    BY <1>1, <1>5, <2>2 DEF ResultFits
  <2>3. CASE /\ dtp \in {"opening", "moving"} /\ UNCHANGED left
             /\ \E code \in {0, 1, 2} :
                     Writes(code) /\ (code = 0 /\ (ferror' => request.verb = "STOR") => left = 0)
    <3>1. PICK code \in {0, 1, 2} :
             Writes(code) /\ (code = 0 /\ (ferror' => request.verb = "STOR") => left = 0)
      BY <2>3
    <3>2. Append(<<>>, code) = <<code>> /\ Len(<<code>>) = 1 /\ <<code>>[1] = code
      OBVIOUS
    <3>3. pipe' = <<code>> /\ dtp' = "exiting" /\ left' = left
      BY <1>5, <2>3, <3>1, <3>2 DEF Writes
    <3>4. QED
      BY <1>1, <3>1, <3>2, <3>3 DEF ResultFits
  <2>4. QED
    BY <2>1, <2>2, <2>3
<1>7. CompleteIsAll' /\ NoOrphan'
  BY <1>1, <1>5 DEF IInv, CompleteIsAll, NoOrphan
<1>8. QED
  BY <1>1, <1>2, <1>4, <1>6, <1>7 DEF IInv, NothingLeft, ListensIfPassive, AnsweredOnce,
     RepliesFollow, SocketClosed

LEMMA ChildWritesKeeps ==
    IInv /\ (ChildCannotOpen \/ SendFails \/ SentAll \/ ReceiveEnds) => IInv'
<1> SUFFICES ASSUME IInv, ChildCannotOpen \/ SendFails \/ SentAll \/ ReceiveEnds PROVE IInv'
  OBVIOUS
<1>1. /\ dtp \in {"opening", "moving"} /\ UNCHANGED <<peer, left>> /\ UNCHANGED childFrame
      /\ ferror' \in {ferror, TRUE}
      /\ \E code \in {0, 1, 2} :
             Writes(code) /\ (code = 0 /\ (ferror' => request.verb = "STOR") => left = 0)
  <2>1. CASE ChildCannotOpen
    BY <2>1 DEF ChildCannotOpen
  <2>2. CASE SendFails
    BY <2>2 DEF SendFails, Sends, Moving
  <2>5. CASE SentAll
    <3>1. /\ dtp = "moving" /\ Writes(0) /\ UNCHANGED <<peer, left>> /\ UNCHANGED childFrame
          /\ (left = 0 /\ UNCHANGED ferror) \/ ferror' = TRUE
          /\ request.verb # "STOR"
      BY <2>5 DEF SentAll, Sends, Moving
    <3>2. QED
      BY <3>1
  <2>3. CASE ReceiveEnds
    BY <2>3 DEF ReceiveEnds, Moving
  <2>4. QED
    BY <2>1, <2>2, <2>3, <2>5
<1>2. /\ peer' \in {"none", "open", "fin", "reset", "broken"}
      /\ ferror' \in BOOLEAN
  BY <1>1 DEF IInv, TypeOK
<1>3. QED
  BY <1>1, <1>2, ChildKeeps

LEMMA ChildMovesKeeps == IInv /\ (ChildOpens \/ SendBlock \/ ReceiveBlock) => IInv'
<1> SUFFICES ASSUME IInv, ChildOpens \/ SendBlock \/ ReceiveBlock PROVE IInv'
  OBVIOUS
<1>1. /\ dtp \in {"opening", "moving"} /\ dtp' = "moving" /\ UNCHANGED pipe
      /\ UNCHANGED childFrame /\ ferror' \in {ferror, TRUE}
      /\ peer' = peer \/ peer' \in {"fin", "broken"}
      /\ left' = left \/ (left > 0 /\ left' = left - 1)
  <2>1. CASE ChildOpens
    BY <2>1 DEF ChildOpens
  <2>2. CASE SendBlock
    BY <2>2 DEF SendBlock, Sends, Moving
  <2>3. CASE ReceiveBlock
    BY <2>3 DEF ReceiveBlock, Moving
  <2>4. QED
    BY <2>1, <2>2, <2>3
<1>2. /\ peer' \in {"none", "open", "fin", "reset", "broken"}
      /\ left \in 0..MaxBlocks /\ MaxBlocks \in Nat /\ ferror' \in BOOLEAN
  BY <1>1, ServerAssumption DEF IInv, TypeOK
<1>3. left' \in 0..MaxBlocks
  BY <1>1, <1>2
<1>4. QED
  BY <1>1, <1>2, <1>3, ChildKeeps

LEMMA ChildDiesKeeps == IInv /\ (SendKills \/ ChildExits \/ close_DTP) => IInv'
<1> SUFFICES ASSUME IInv, SendKills \/ ChildExits \/ close_DTP PROVE IInv'
  OBVIOUS
<1>1. /\ dtp \in {"opening", "moving", "exiting"} /\ dtp' = "dead"
      /\ UNCHANGED <<pipe, peer, left, ferror>> /\ UNCHANGED childFrame
  BY DEF SendKills, ChildExits, close_DTP, Sends, Moving
<1>2. peer' \in {"none", "open", "fin", "reset", "broken"} /\ ferror' \in BOOLEAN
  BY <1>1 DEF IInv, TypeOK
<1>3. QED
  BY <1>1, <1>2, ChildKeeps

-----------------------------------------------------------------------------
(* The client and its end of the data connection *)

LEMMA ClientKeeps == IInv /\ (ClientSends \/ ClientCloses) => IInv'
<1> SUFFICES ASSUME IInv, ClientSends \/ ClientCloses PROVE IInv'
  OBVIOUS
<1>1. TypeOK
  BY DEF IInv
<1>2. /\ UNCHANGED <<ctl, status, offset, listening, data_socket, request, sentence, midline,
                     replies, dtp, term, pipe, left, ferror, peer>>
      /\ link' \in {"up", "fin", "broken"}
  BY <1>1 DEF ClientSends, ClientCloses, ctlVars, dtpVars, TypeOK
<1>3. inbox' \in Seq(Requests \cup {Part})
  <2>1. inbox \in Seq(Requests \cup {Part})
    BY <1>1 DEF TypeOK
  <2>2. \A segment \in Requests \cup {Part} : Append(inbox, segment) \in Seq(Requests \cup {Part})
    BY <2>1, AppendProperties
  <2>3. inbox' = inbox \/ \E segment \in Requests \cup {Part} : inbox' = Append(inbox, segment)
    BY DEF ClientSends, ClientCloses
  <2>4. QED
    BY <2>1, <2>2, <2>3
<1>4. TypeOK'
  BY <1>1, <1>2, <1>3 DEF TypeOK
<1>5. QED
  BY <1>2, <1>4, IInvFrame

LEMMA PeerClosesKeeps == IInv /\ PeerCloses => IInv'
<1> SUFFICES ASSUME IInv, PeerCloses PROVE IInv'
  OBVIOUS
<1>1. /\ UNCHANGED <<ctl, status, offset, listening, data_socket, request, sentence, midline,
                     replies, dtp, term, pipe, ferror, link, inbox>>
      /\ peer' \in {"fin", "reset"}
      /\ left' = left \/ left' \in 0..left
  BY DEF PeerCloses, ctlVars
<1>2. left \in 0..MaxBlocks /\ MaxBlocks \in Nat
  BY ServerAssumption DEF IInv, TypeOK
<1>3. left' \in 0..MaxBlocks /\ (left = 0 => left' = 0)
  BY <1>1, <1>2
<1>4. TypeOK'
  BY <1>1, <1>3 DEF IInv, TypeOK
<1>5. CompleteIsAll' /\ ResultFits'
  BY <1>1, <1>3 DEF IInv, CompleteIsAll, ResultFits
<1>6. QED
  BY <1>1, <1>4, <1>5 DEF IInv, NothingLeft, ListensIfPassive, AnsweredOnce, NoOrphan,
     RepliesFollow, SocketClosed

-----------------------------------------------------------------------------
(* The theorems *)

LEMMA NextIInv == IInv /\ [Next]_vars => IInv'
<1> SUFFICES ASSUME IInv, [Next]_vars PROVE IInv'
  OBVIOUS
<1>1. CASE Control
  BY <1>1, ReadPartKeeps, ReadCommandKeeps, SessionEndsKeeps, HandleRequestKeeps, OpeningKeeps,
     ForksKeeps, HearCommandKeeps, AbortDoneKeeps, ClientGoneKeeps, TakeResultKeeps, FinishKeeps
     DEF Control
<1>2. CASE Child
  BY <1>2, ChildWritesKeeps, ChildMovesKeeps, ChildDiesKeeps DEF Child
<1>3. CASE Environment
  BY <1>3, ClientKeeps, PeerClosesKeeps DEF Environment
<1>4. CASE UNCHANGED vars
  <2>1. TypeOK'
    BY <1>4 DEF IInv, TypeOK, vars
  <2>2. QED
    BY <1>4, <2>1, IInvFrame DEF vars
<1>5. QED
  BY <1>1, <1>2, <1>3, <1>4 DEF Next

\* Every state of a session satisfies the inductive invariant.
THEOREM Invariance == Spec => []IInv
<1>1. QED
  BY InitIInv, NextIInv, PTL DEF Spec

\* Every variable keeps its type.
THEOREM TypeCorrect == Spec => []TypeOK
<1>1. IInv => TypeOK
  BY DEF IInv
<1>2. QED
  BY <1>1, Invariance, PTL

\* Between transfers nothing is left of one (the pipe is closed and the child waited for
\* on every way out of DTP).
THEOREM TransferLeavesNothing == Spec => []NothingLeft
<1>1. IInv => NothingLeft
  BY DEF IInv
<1>2. QED
  BY <1>1, Invariance, PTL

\* The listening socket is open exactly when the session is in passive mode, whichever way
\* the transfers and the changes of mode have gone.
THEOREM SocketFollowsMode == Spec => []ListensIfPassive
<1>1. IInv => ListensIfPassive
  BY DEF IInv
<1>2. QED
  BY <1>1, Invariance, PTL

\* The replies to a command are one, or those of a transfer (send_msg, on every way through
\* handle_request and DTP).
THEOREM RepliesCounted == Spec => []AnsweredOnce
<1>1. IInv => AnsweredOnce
  BY DEF IInv
<1>2. QED
  BY <1>1, Invariance, PTL

\* 226 after 150 says that the whole file has been moved, or that the disk failed: whatever
\* the client, the peer and the signals do, no child that stopped early reports the end.
THEOREM CompleteMeansAll == Spec => []CompleteIsAll
<1>1. IInv => CompleteIsAll
  BY DEF IInv
<1>2. QED
  BY <1>1, Invariance, PTL

\* A control process that ends, by SIGPIPE too, leaves no child that goes on.
THEOREM ChildNotLeft == Spec => []NoOrphan
<1>1. IInv => NoOrphan
  BY DEF IInv
<1>2. QED
  BY <1>1, Invariance, PTL

\* The restart position of REST is gone when the next command but REST has been worked on.
THEOREM RestForgotten == Spec => RestLifetime
<1> DEFINE Step == ctl # "reading" /\ ctl' = "reading" => offset' = 0 \/ request.verb = "REST"
<1>1. Next => Step
  <2>1. Control => Step
    <3>1. ReadPart \/ ReadCommand \/ SessionEnds => Step
      BY DEF ReadPart, ReadCommand, SessionEnds
    <3>2. handle_request => Step
      BY DEF handle_request, OnlyAnswered, Quit, LogIn, Port, Pasv, Rest, StartTransfer, Carries,
         Is, Send
    <3>3. OpenFails \/ PipeFails \/ ForkFails \/ Forks \/ Finish => Step
      BY DEF OpenFails, PipeFails, ForkFails, Forks, Finish, Finished
    <3>4. HearCommand \/ AbortDone \/ ClientGone \/ Exit \/ TakeResult => Step
      BY DEF HearCommand, AbortDone, ClientGone, Exit, TakeResult, Send
    <3>5. QED
      BY <3>1, <3>2, <3>3, <3>4 DEF Control
  <2>2. Child \/ Environment => Step
    BY DEF Child, Environment, ChildCannotOpen, ChildOpens, SendBlock, SendFails, SendKills,
       SentAll, ReceiveBlock, ReceiveEnds, ChildExits, close_DTP, childFrame, ctlVars,
       ClientSends, ClientCloses, PeerCloses
  <2>3. QED
    BY <2>1, <2>2 DEF Next
<1>2. [Next]_vars => [Step]_vars
  BY <1>1
<1>3. QED
  BY <1>2, PTL DEF Spec, RestLifetime
=============================================================================
