---------------------------- MODULE ChannelProofs ----------------------------
(***************************************************************************)
(* Theorems about Channel, for any number of messages, questions, chunks,  *)
(* taps and faults.                                                        *)
(***************************************************************************)
EXTENDS Channel, SequenceTheorems, TLAPS

IsBoard(out, q) == out.type = "board" /\ out.of = q

\* What is awaited suits what is sent.
CallShape ==
  call # None =>
    /\ call.doing \in {"editing", "showing"} => call.out.type = "status"
    /\ call.doing = "deleting" => call.out.type # "status"
    /\ call.doing \in {"asking", "shown"} => call.out.type = "board"
    /\ call.doing \in {"rich", "plain"} => call.out.type \in {"text", "secret"}

\* A status message on record, or being deleted, is in the chat.
StatusCounted ==
  /\ \A m \in status : shown[m] >= 1
  /\ call # None /\ call.doing = "deleting" =>
       shown[About(call.out)] >= 1 /\ About(call.out) \notin status

Tapped(q)  == tap # None /\ tap.of = q
Sending(q) == call # None /\ IsBoard(call.out, q)
\* Nobody has seen the question's keyboard.
Fresh(q) == q \notin short /\ q \notin visible /\ told[q] = 0 /\ ~Tapped(q)

\* The keyboard of a question is queued once, before anything is known of it.
QueuedBoards ==
  \A i \in DOMAIN outbound, q \in Questions : IsBoard(outbound[i], q) =>
    /\ q \in asked /\ Fresh(q) /\ ~Sending(q)
    /\ \A j \in DOMAIN outbound : IsBoard(outbound[j], q) => j = i

SentBoards ==
  \A q \in Questions : Sending(q) =>
    /\ q \in asked /\ q \notin boards
    /\ call.doing = "deleting" => Fresh(q)
    /\ call.doing = "asking" => q \notin visible /\ told[q] = 0 /\ ~Tapped(q)
    /\ call.doing = "shown" => q \in visible

\* A tap that deletes its keyboard has taken the id, and tells the gate later.
Deletes ==
  \A q \in Questions : Tapped(q) /\ tap.doing = "deleting" =>
    told[q] = 0 /\ q \notin short /\ q \notin boards /\ ~Sending(q)

\* The gate was told nothing of a question whose id nobody has taken.
Untold ==
  /\ \A q \in short : told[q] = 0
  /\ \A q \in Questions \ asked : told[q] = 0 /\ ~Tapped(q)

Keys == QueuedBoards /\ SentBoards /\ Deletes /\ Untold /\ AnsweredOnce

IInv == TypeOK /\ CallShape /\ StatusCounted /\ Keys

-----------------------------------------------------------------------------
(* Messages, calls and sequences *)

LEMMA OutboundFields ==
  ASSUME NEW o \in Outbound
  PROVE  /\ o.type \in {"status", "clear", "text", "secret", "board"}
         /\ o.type = "board" => o.of \in Questions /\ About(o) = Asker[o.of]
         /\ o.type # "board" => o.of \in Messages /\ About(o) = o.of
         /\ About(o) \in Messages
BY ChannelAssumption DEF Outbound, About, ChannelAssumption

LEMMA OutIsOutbound ==
  /\ \A t \in {"status", "clear", "text", "secret"}, m \in Messages :
       Out(t, m) \in Outbound /\ Out(t, m).type = t /\ Out(t, m).of = m
  /\ \A q \in Questions : Out("board", q) \in Outbound /\ IsBoard(Out("board", q), q)
BY DEF Out, Outbound, IsBoard

LEMMA CallFields ==
  ASSUME TypeOK, call # None
  PROVE  /\ call \in CallRecord /\ call.out \in Outbound
         /\ call.doing \in Doings /\ call.chunk \in Nat
BY DEF TypeOK, CallRecord

LEMMA InitInv == Init => IInv
<1> SUFFICES ASSUME Init PROVE IInv
  OBVIOUS
<1>1. TypeOK
  BY ChannelAssumption DEF Init, TypeOK, ChannelAssumption
<1>2. CallShape /\ StatusCounted
  BY DEF Init, CallShape, StatusCounted
<1>3. Keys
  BY DEF Init, Keys, QueuedBoards, SentBoards, Deletes, Untold, AnsweredOnce, Tapped, Sending
<1> QED BY <1>1, <1>2, <1>3 DEF IInv

LEMMA TailKeeps ==
  ASSUME NEW s \in Seq(Outbound), s # <<>>
  PROVE  /\ Head(s) = s[1] /\ 1 \in DOMAIN s /\ s[1] \in Outbound /\ Tail(s) \in Seq(Outbound)
         /\ \A i \in DOMAIN Tail(s) : i \in Nat \ {0} /\ i + 1 \in DOMAIN s /\ Tail(s)[i] = s[i + 1]
<1>1. Len(s) \in Nat \ {0} /\ DOMAIN s = 1 .. Len(s)
  BY EmptySeq, LenProperties
<1>2. /\ Tail(s) \in Seq(Outbound) /\ Len(Tail(s)) = Len(s) - 1
      /\ \A i \in 1 .. Len(Tail(s)) : Tail(s)[i] = s[i + 1]
  BY HeadTailProperties
<1>3. DOMAIN Tail(s) = 1 .. Len(s) - 1
  BY <1>1, <1>2, LenProperties
<1>4. Head(s) = s[1] /\ s[1] \in Outbound
  BY <1>1, ElementOfSeq
<1> QED BY <1>1, <1>2, <1>3, <1>4

\* Messages that are no keyboards leave those that are queued where they are.
LEMMA EmitKeeps ==
  ASSUME NEW s \in Seq(Outbound), NEW t \in Seq(Outbound),
         \A k \in DOMAIN t : t[k].type # "board"
  PROVE  /\ s \o t \in Seq(Outbound)
         /\ \A i \in DOMAIN (s \o t) : (s \o t)[i].type = "board" =>
              i \in DOMAIN s /\ (s \o t)[i] = s[i]
<1>1. /\ s \o t \in Seq(Outbound) /\ Len(s \o t) = Len(s) + Len(t)
      /\ \A i \in 1 .. Len(s) + Len(t) : (s \o t)[i] = IF i <= Len(s) THEN s[i] ELSE t[i - Len(s)]
  BY ConcatProperties
<1>2. /\ DOMAIN s = 1 .. Len(s) /\ DOMAIN t = 1 .. Len(t) /\ DOMAIN (s \o t) = 1 .. Len(s) + Len(t)
      /\ Len(s) \in Nat /\ Len(t) \in Nat
  BY <1>1, LenProperties
<1>3. ASSUME NEW i \in DOMAIN (s \o t), (s \o t)[i].type = "board"
      PROVE  i \in DOMAIN s /\ (s \o t)[i] = s[i]
  <2>1. CASE i > Len(s)
    <3>1. i - Len(s) \in DOMAIN t
      BY <1>2, <2>1
    <3> QED BY <1>1, <1>2, <1>3, <2>1, <3>1
  <2> QED BY <1>1, <1>2, <2>1
<1> QED BY <1>1, <1>3

-----------------------------------------------------------------------------
(* Steps that leave calls and keyboards alone *)

LEMMA QuietKeeps ==
  ASSUME IInv, TypeOK', UNCHANGED <<call, status, shown, keys, asked>>,
         \A i \in DOMAIN outbound' : outbound'[i].type = "board" =>
           i \in DOMAIN outbound /\ outbound'[i] = outbound[i]
  PROVE  IInv'
<1>1. CallShape' /\ StatusCounted'
  BY DEF IInv, CallShape, StatusCounted, About
<1>2. QueuedBoards'
  BY DEF IInv, Keys, keys, QueuedBoards, Fresh, Tapped, Sending, IsBoard
<1>3. SentBoards' /\ Deletes' /\ Untold' /\ AnsweredOnce'
  BY DEF IInv, Keys, keys, SentBoards, Deletes, Untold, AnsweredOnce, Fresh, Tapped, Sending, IsBoard
<1> QED BY <1>1, <1>2, <1>3 DEF IInv, Keys

LEMMA UsersArriveKeeps ==
  ASSUME IInv, NEW m \in Messages, Arrive(m) \/ Downloaded(m) \/ TypingLoopEnds(m)
  PROVE  IInv'
<1>1. TypeOK'
  BY DEF IInv, TypeOK, Arrive, Downloaded, TypingLoopEnds, Goes, Published,
         turns, marks, keys, texts, past
<1> QED
  BY <1>1, QuietKeeps
  DEF Arrive, Downloaded, TypingLoopEnds, turns, marks, keys, texts, past

LEMMA ProgressKeeps ==
  ASSUME IInv, NEW m \in Messages, Progress(m)
  PROVE  IInv'
<1> DEFINE news == <<Out("status", m)>>
<1>1. news \in Seq(Outbound) /\ \A k \in DOMAIN news : news[k].type # "board"
  BY OutIsOutbound
<1>2. /\ outbound' \in Seq(Outbound)
      /\ \A i \in DOMAIN outbound' : outbound'[i].type = "board" =>
           i \in DOMAIN outbound /\ outbound'[i] = outbound[i]
  <2>1. outbound \in Seq(Outbound) /\ outbound' = outbound \o news
    BY DEF IInv, TypeOK, Progress, Emit
  <2> HIDE DEF news
  <2> QED BY <1>1, <2>1, EmitKeeps
<1>3. TypeOK'
  BY <1>2 DEF IInv, TypeOK, Progress, turns, marks, keys, texts, past
<1> QED BY <1>2, <1>3, QuietKeeps DEF Progress, turns, marks, keys, texts, past

LEMMA FinishKeeps ==
  ASSUME IInv, NEW m \in Messages, Finish(m)
  PROVE  IInv'
<1> DEFINE answer == Out(IF m \in Misses THEN "secret" ELSE "text", m)
           news == IF m \in Commands THEN <<answer>> ELSE <<Out("clear", m), answer>>
<1>1. news \in Seq(Outbound) /\ \A k \in DOMAIN news : news[k].type # "board"
  <2>1. answer \in Outbound /\ answer.type # "board"
    BY OutIsOutbound
  <2>2. Out("clear", m) \in Outbound /\ Out("clear", m).type # "board"
    BY OutIsOutbound
  <2> HIDE DEF answer
  <2>3. CASE m \in Commands
    BY <2>1, <2>3
  <2>4. CASE m \notin Commands
    BY <2>1, <2>2, <2>4
  <2> QED BY <2>3, <2>4
<1>2. /\ outbound' \in Seq(Outbound)
      /\ \A i \in DOMAIN outbound' : outbound'[i].type = "board" =>
           i \in DOMAIN outbound /\ outbound'[i] = outbound[i]
  <2>1. outbound \in Seq(Outbound) /\ outbound' = outbound \o news
    BY DEF IInv, TypeOK, Finish, Emit
  <2> HIDE DEF news
  <2> QED BY <1>1, <2>1, EmitKeeps
<1>3. TypeOK'
  BY <1>2 DEF IInv, TypeOK, Finish, Goes, turns, marks, keys, texts, past
<1> QED BY <1>2, <1>3, QuietKeeps DEF Finish, turns, marks, keys, texts, past

LEMMA RaiseKeeps ==
  ASSUME IInv, NEW m \in Messages, Raise(m)
  PROVE  IInv'
<1>1. TypeOK'
  BY ChannelAssumption
  DEF ChannelAssumption, IInv, TypeOK, Raise, Fault, Goes, turns, marks, keys, texts, past
<1> QED BY <1>1, QuietKeeps DEF Raise, turns, marks, keys, texts, past

-----------------------------------------------------------------------------
(* Taps *)

LEMMA CameFaults ==
  ASSUME TypeOK, NEW r \in Results, Came(r)
  PROVE  faults' \in 0 .. MaxFaults
BY ChannelAssumption DEF ChannelAssumption, TypeOK, Results, Came, Fault

LEMMA TapKeeps ==
  ASSUME IInv, NEW q \in Questions, Tap(q)
  PROVE  IInv'
<1>1. TypeOK'
  <2>1. taps' \in 0 .. MaxTaps
    BY ChannelAssumption DEF ChannelAssumption, IInv, TypeOK, Tap
  <2>2. tap' \in [of : Questions, doing : {"answering", "deleting"}]
    BY DEF Tap
  <2> QED BY <2>1, <2>2 DEF IInv, TypeOK, Tap, turns, marks, texts, past
<1>2. CallShape' /\ StatusCounted'
  BY DEF IInv, CallShape, StatusCounted, About, Tap, marks
<1>3. q \in visible \/ told[q] # 0
  BY DEF IInv, TypeOK, Tap
<1>4. tap' = [of |-> q, doing |-> "answering"]
      /\ UNCHANGED <<outbound, call, asked, short, boards, visible, told, slipped>>
  BY DEF Tap, turns
<1>5. QueuedBoards'
  BY <1>3, <1>4 DEF IInv, Keys, QueuedBoards, Fresh, Tapped, Sending, IsBoard
<1>6. SentBoards'
  BY <1>3, <1>4 DEF IInv, Keys, SentBoards, Fresh, Tapped, Sending, IsBoard
<1>7. Deletes' /\ Untold' /\ AnsweredOnce'
  BY <1>3, <1>4 DEF IInv, TypeOK, Keys, Deletes, Untold, AnsweredOnce, Tapped, Sending, IsBoard
<1> QED BY <1>1, <1>2, <1>5, <1>6, <1>7 DEF IInv, Keys

LEMMA TapAnswerKeeps ==
  ASSUME IInv, NEW r \in Results, TapAnswered(r)
  PROVE  IInv'
<1> DEFINE q == tap.of
<1>1. tap # None /\ q \in Questions /\ tap.doing = "answering" /\ tap \in [of : Questions, doing : {"answering", "deleting"}]
  BY DEF IInv, TypeOK, TapAnswered
<1>2. /\ UNCHANGED <<gateway, stage, progress, asked, outbound, call, typing, done, status, shown,
                     visible, taps, posted, answered, hurt, silent>>
      /\ short' \subseteq short
  BY DEF TapAnswered, turns, marks, texts
<1>3. q \in asked /\ ~\E i \in DOMAIN outbound : IsBoard(outbound[i], q)
  BY <1>1 DEF IInv, Keys, Untold, QueuedBoards, Fresh, Tapped
<1>4. \/ q \in short /\ q \in boards /\ q \notin short' /\ boards' = boards \ {q}
         /\ tap' = [of |-> q, doing |-> "deleting"] /\ UNCHANGED <<told, slipped>>
      \/ q \in short /\ q \notin short' /\ told' = [told EXCEPT ![q] = @ + 1]
         /\ slipped' = slipped \cup {q} /\ tap' = None /\ UNCHANGED boards
      \/ tap' = None /\ UNCHANGED <<boards, told, slipped>>
  BY <1>1 DEF TapAnswered, TapGoesOn
<1>5. TypeOK'
  <2>1. faults' \in 0 .. MaxFaults
    BY CameFaults DEF IInv, TapAnswered
  <2>2. told' \in [Questions -> Nat] /\ slipped' \subseteq Questions
    <3>1. told \in [Questions -> Nat] /\ slipped \subseteq Questions
      BY DEF IInv, TypeOK
    <3>2. CASE told' = [told EXCEPT ![q] = @ + 1] /\ slipped' = slipped \cup {q}
      BY <1>1, <3>1, <3>2
    <3> QED BY <1>4, <3>1, <3>2
  <2>3. tap' = None \/ tap' \in [of : Questions, doing : {"answering", "deleting"}]
    BY <1>1, <1>4
  <2>4. boards' \subseteq visible'
    BY <1>2, <1>4 DEF IInv, TypeOK
  <2> QED BY <1>2, <2>1, <2>2, <2>3, <2>4 DEF IInv, TypeOK
<1>6. CallShape' /\ StatusCounted'
  BY <1>2 DEF IInv, CallShape, StatusCounted, About
<1>7. q \in short => told[q] = 0
  BY <1>1 DEF IInv, Keys, Untold
<1>8. QueuedBoards'
  <2> SUFFICES ASSUME NEW i \in DOMAIN outbound', NEW p \in Questions, IsBoard(outbound[i], p)'
               PROVE  /\ p \in asked' /\ Fresh(p)' /\ ~Sending(p)'
                      /\ \A j \in DOMAIN outbound' : IsBoard(outbound[j], p)' => j = i
    BY DEF QueuedBoards
  <2>1. /\ p \in asked /\ Fresh(p) /\ ~Sending(p)
        /\ \A j \in DOMAIN outbound : IsBoard(outbound[j], p) => j = i
    BY <1>2 DEF IInv, Keys, QueuedBoards, IsBoard
  <2>2. p # q
    BY <1>2, <1>3 DEF IsBoard
  <2>3. told'[p] = told[p]
    BY <1>1, <1>4, <2>2 DEF IInv, TypeOK
  <2>4. ~Tapped(p)'
    BY <1>1, <1>4, <2>2 DEF Tapped
  <2> QED BY <1>2, <2>1, <2>3, <2>4 DEF Fresh, Sending, IsBoard
<1>9. SentBoards'
  BY <1>1, <1>2, <1>4 DEF IInv, TypeOK, Keys, SentBoards, Fresh, Tapped, Sending, IsBoard
<1>10. Deletes'
  BY <1>1, <1>2, <1>4, <1>7 DEF IInv, TypeOK, Keys, Deletes, SentBoards, Tapped, Sending, IsBoard
<1>11. Untold' /\ AnsweredOnce'
  <2>1. CASE UNCHANGED told
    BY <1>1, <1>2, <1>3, <1>4, <2>1 DEF IInv, TypeOK, Keys, Untold, AnsweredOnce, Tapped
  <2>2. CASE /\ q \in short /\ q \notin short' /\ told' = [told EXCEPT ![q] = @ + 1]
             /\ slipped' = slipped \cup {q} /\ tap' = None
    BY <1>1, <1>2, <1>3, <1>7, <2>2 DEF IInv, TypeOK, Keys, Untold, AnsweredOnce, Tapped
  <2> QED BY <1>4, <2>1, <2>2
<1> QED BY <1>5, <1>6, <1>8, <1>9, <1>10, <1>11 DEF IInv, Keys

LEMMA TapDeletedKeeps ==
  ASSUME IInv, NEW r \in Results, TapDeleted(r)
  PROVE  IInv'
<1> DEFINE q == tap.of
<1>1. q \in Questions /\ Tapped(q) /\ tap.doing = "deleting" /\ tap # None
  BY DEF IInv, TypeOK, TapDeleted, Tapped
<1>2. told[q] = 0 /\ q \notin short /\ q \notin boards /\ ~Sending(q)
  BY <1>1 DEF IInv, Keys, Deletes
<1>3. q \in asked /\ ~\E i \in DOMAIN outbound : IsBoard(outbound[i], q)
  BY <1>1 DEF IInv, Keys, Untold, QueuedBoards, Fresh
<1>4. /\ UNCHANGED <<gateway, stage, progress, asked, outbound, call, typing, done, status, shown,
                     short, boards, taps, posted, answered, hurt, silent>>
      /\ told' = [told EXCEPT ![q] = @ + 1] /\ tap' = None
      /\ \/ visible' = visible /\ slipped' = slipped \cup {q}
         \/ visible' = visible \ {q} /\ slipped' = slipped
  BY DEF TapDeleted, turns, marks, texts
<1>5. TypeOK'
  <2>1. faults' \in 0 .. MaxFaults
    BY CameFaults DEF IInv, TapDeleted
  <2> QED BY <1>1, <1>2, <1>4, <2>1 DEF IInv, TypeOK
<1>6. CallShape' /\ StatusCounted'
  BY <1>4 DEF IInv, CallShape, StatusCounted, About
<1>7. QueuedBoards'
  BY <1>1, <1>3, <1>4 DEF IInv, TypeOK, Keys, QueuedBoards, Fresh, Tapped, Sending, IsBoard
<1>8. SentBoards'
  BY <1>1, <1>2, <1>4 DEF IInv, TypeOK, Keys, SentBoards, Fresh, Tapped, Sending, IsBoard
<1>9. Deletes' /\ Untold' /\ AnsweredOnce'
  BY <1>1, <1>2, <1>3, <1>4 DEF IInv, TypeOK, Keys, Deletes, Untold, AnsweredOnce, Tapped
<1> QED BY <1>5, <1>6, <1>7, <1>8, <1>9 DEF IInv, Keys

-----------------------------------------------------------------------------
(* Questions, shutdown and stuttering *)

LEMMA AskKeeps ==
  ASSUME IInv, NEW q \in Questions, Ask(q)
  PROVE  IInv'
<1> DEFINE board == Out("board", q)
<1>1. board \in Outbound /\ IsBoard(board, q)
  BY OutIsOutbound
<1>2. /\ outbound \in Seq(Outbound) /\ outbound' = Append(outbound, board)
      /\ q \notin asked /\ asked' = asked \cup {q}
      /\ UNCHANGED <<gateway, stage, progress, call, typing, marks, keys, texts, past>>
  BY AppendIsConcat, <1>1 DEF IInv, TypeOK, Ask, Emit
<1>3. /\ outbound' \in Seq(Outbound) /\ Len(outbound) \in Nat
      /\ DOMAIN outbound = 1 .. Len(outbound) /\ DOMAIN outbound' = 1 .. Len(outbound) + 1
      /\ \A i \in DOMAIN outbound : outbound'[i] = outbound[i]
      /\ outbound'[Len(outbound) + 1] = board
  <2> HIDE DEF board
  <2> QED BY <1>1, <1>2, AppendProperties, LenProperties
<1>4. TypeOK'
  BY <1>2, <1>3 DEF IInv, TypeOK, marks, keys, texts, past
<1>5. CallShape' /\ StatusCounted'
  BY <1>2 DEF IInv, CallShape, StatusCounted, About, marks
<1>6. Fresh(q) /\ ~Sending(q) /\ ~\E i \in DOMAIN outbound : IsBoard(outbound[i], q)
  BY <1>2 DEF IInv, TypeOK, Keys, QueuedBoards, SentBoards, Untold, Fresh
<1>7. QueuedBoards'
  <2> SUFFICES ASSUME NEW i \in DOMAIN outbound', NEW p \in Questions, IsBoard(outbound'[i], p)
               PROVE  /\ p \in asked' /\ Fresh(p)' /\ ~Sending(p)'
                      /\ \A j \in DOMAIN outbound' : IsBoard(outbound'[j], p) => j = i
    BY DEF QueuedBoards, IsBoard
  <2>1. /\ Fresh(p)' = Fresh(p) /\ Sending(p)' = Sending(p)
    BY <1>2 DEF Fresh, Tapped, Sending, IsBoard, keys
  <2>2. CASE i \in DOMAIN outbound
    <3>1. p # q
      BY <1>3, <1>6, <2>2
    <3>2. /\ p \in asked /\ Fresh(p) /\ ~Sending(p)
          /\ \A j \in DOMAIN outbound : IsBoard(outbound[j], p) => j = i
      BY <1>3, <2>2 DEF IInv, Keys, QueuedBoards
    <3>3. ~IsBoard(board, p)
      BY <1>1, <3>1 DEF IsBoard
    <3> HIDE DEF board
    <3> QED BY <1>2, <1>3, <2>1, <3>2, <3>3
  <2>3. CASE i = Len(outbound) + 1
    <3>1. p = q
      BY <1>1, <1>3, <2>3 DEF IsBoard
    <3> HIDE DEF board
    <3> QED BY <1>2, <1>3, <1>6, <2>1, <2>3, <3>1
  <2> QED BY <1>3, <2>2, <2>3
<1>8. SentBoards' /\ Deletes'
  BY <1>2 DEF IInv, Keys, SentBoards, Deletes, Fresh, Tapped, Sending, IsBoard, keys
<1>9. Untold' /\ AnsweredOnce'
  BY <1>2 DEF IInv, Keys, Untold, AnsweredOnce, Tapped, keys
<1> QED BY <1>4, <1>5, <1>7, <1>8, <1>9 DEF IInv, Keys

LEMMA StopKeeps ==
  ASSUME IInv, Stop
  PROVE  IInv'
<1>1. TypeOK'
  BY DEF IInv, TypeOK, Stop, turns, marks, keys, texts, past
<1>2. CallShape' /\ StatusCounted'
  BY DEF IInv, CallShape, StatusCounted, Stop, marks
<1>3. Keys'
  BY DEF IInv, Keys, QueuedBoards, SentBoards, Deletes, Untold, AnsweredOnce,
         Tapped, Sending, Stop, turns, keys
<1> QED BY <1>1, <1>2, <1>3 DEF IInv

LEMMA AppGoneKeeps ==
  ASSUME IInv, AppGone
  PROVE  IInv'
<1>1. TypeOK'
  BY DEF IInv, TypeOK, AppGone, turns, marks, keys, texts, past
<1> QED BY <1>1, QuietKeeps DEF AppGone, turns, marks

LEMMA StutterKeeps ==
  ASSUME IInv, UNCHANGED vars
  PROVE  IInv'
<1>1. TypeOK'
  BY DEF IInv, TypeOK, vars, turns, marks, keys, texts, past
<1> QED BY <1>1, QuietKeeps DEF vars, turns, marks

-----------------------------------------------------------------------------
(* The dispatcher takes a message, and begins to send it *)

\* What is queued once the dispatcher has taken a message.
QueueApartFrom(out, queue) ==
  \A i \in DOMAIN queue, q \in Questions : IsBoard(queue[i], q) =>
    /\ q \in asked /\ Fresh(q) /\ ~IsBoard(out, q)
    /\ \A j \in DOMAIN queue : IsBoard(queue[j], q) => j = i

LEMMA CallKeeps ==
  ASSUME IInv, NEW out \in Outbound, QueueApartFrom(out, outbound'),
         \A q \in Questions : IsBoard(out, q) => q \in asked /\ Fresh(q),
         UNCHANGED <<asked, boards, visible, tap, told, slipped>>,
         call' # None => call'.out = out /\ (out.type = "board" => call'.doing \in {"deleting", "asking"}),
         \/ short' = short
         \/ /\ out.type = "board" /\ short' = short \cup {out.of}
            /\ call' # None => call'.doing = "asking"
  PROVE  Keys'
<1>1. \A q \in Questions : Sending(q)' => IsBoard(out, q)
  BY DEF Sending, IsBoard
<1>2. \A q \in Questions : q \in short' => q \in short \/ IsBoard(out, q)
  BY DEF IsBoard
<1>3. QueuedBoards'
  <2> SUFFICES ASSUME NEW i \in DOMAIN outbound', NEW q \in Questions, IsBoard(outbound'[i], q)
               PROVE  /\ q \in asked' /\ Fresh(q)' /\ ~Sending(q)'
                      /\ \A j \in DOMAIN outbound' : IsBoard(outbound'[j], q) => j = i
    BY DEF QueuedBoards, IsBoard
  <2>1. /\ q \in asked /\ Fresh(q) /\ ~IsBoard(out, q)
        /\ \A j \in DOMAIN outbound' : IsBoard(outbound'[j], q) => j = i
    BY DEF QueueApartFrom
  <2> QED BY <1>1, <1>2, <2>1 DEF Fresh, Tapped
<1>4. SentBoards'
  <2> SUFFICES ASSUME NEW q \in Questions, Sending(q)'
               PROVE  /\ q \in asked' /\ q \notin boards'
                      /\ call'.doing = "deleting" => Fresh(q)'
                      /\ call'.doing = "asking" => q \notin visible' /\ told'[q] = 0 /\ ~Tapped(q)'
                      /\ call'.doing = "shown" => q \in visible'
    BY DEF SentBoards
  <2>1. q \in asked /\ Fresh(q) /\ out.type = "board" /\ call' # None
    BY <1>1 DEF IsBoard, Sending
  <2>2. q \notin boards
    BY <2>1 DEF IInv, TypeOK, Fresh
  <2>3. call'.doing = "deleting" => short' = short
    BY <2>1
  <2> QED BY <2>1, <2>2, <2>3 DEF Fresh, Tapped
<1>5. Deletes'
  BY <1>1, <1>2 DEF IInv, Keys, Deletes, Tapped, Fresh
<1>6. Untold' /\ AnsweredOnce'
  <2>1. \A q \in short : q \in Questions
    BY DEF IInv, TypeOK
  <2>2. \A q \in short' : q \in Questions
    BY <2>1, OutboundFields
  <2> QED BY <1>2, <2>2 DEF IInv, Keys, Untold, AnsweredOnce, Tapped, Fresh
<1> QED BY <1>3, <1>4, <1>5, <1>6 DEF Keys

LEMMA PostFields ==
  ASSUME NEW out \in Outbound, out.type # "status", Post(out)
  PROVE  /\ call' = None \/ /\ call' \in CallRecord /\ call'.out = out
                            /\ call'.doing \in {"rich", "plain", "asking"}
                            /\ call'.doing \in {"rich", "plain"} => out.type \in {"text", "secret"}
                            /\ call'.doing = "asking" <=> out.type = "board"
         /\ short' = IF out.type = "board" THEN short \cup {out.of} ELSE short
<1>1. out.type \in {"clear", "text", "secret", "board"}
  BY OutboundFields
<1>2. CASE out.type = "clear"
  BY <1>2 DEF Post
<1>3. CASE out.type = "text" /\ Chunks[out.of] = 0
  <2>1. call' = None /\ short' = short
    BY <1>3 DEF Post
  <2> QED BY <1>3, <2>1
<1>4. CASE out.type = "text" /\ Chunks[out.of] # 0
  <2>1. call' = [out |-> out, doing |-> "rich", chunk |-> 1]
    BY <1>4 DEF Post
  <2> QED BY <1>4, <2>1 DEF Post, CallRecord, Doings
<1>5. CASE out.type = "secret"
  <2>1. call' = [out |-> out, doing |-> "plain", chunk |-> 1]
    BY <1>5 DEF Post
  <2> QED BY <1>5, <2>1 DEF Post, CallRecord, Doings
<1>6. CASE out.type = "board"
  <2>1. call' = [out |-> out, doing |-> "asking", chunk |-> 0]
    BY <1>6 DEF Post
  <2> QED BY <1>6, <2>1 DEF Post, CallRecord, Doings
<1> QED BY <1>1, <1>2, <1>3, <1>4, <1>5, <1>6

\* The head of the queue is apart from the rest.
LEMMA TakenApart ==
  ASSUME IInv, outbound # <<>>
  PROVE  /\ Head(outbound) \in Outbound /\ Tail(outbound) \in Seq(Outbound)
         /\ QueueApartFrom(Head(outbound), Tail(outbound))
         /\ \A q \in Questions : IsBoard(Head(outbound), q) => q \in asked /\ Fresh(q)
<1> DEFINE rest == Tail(outbound)
<1>1. /\ Head(outbound) = outbound[1] /\ 1 \in DOMAIN outbound /\ outbound[1] \in Outbound
      /\ rest \in Seq(Outbound)
      /\ \A i \in DOMAIN rest : i \in Nat \ {0} /\ i + 1 \in DOMAIN outbound /\ rest[i] = outbound[i + 1]
  BY TailKeeps DEF IInv, TypeOK
<1> HIDE DEF rest
<1>2. ASSUME NEW i \in DOMAIN rest, NEW q \in Questions, IsBoard(rest[i], q)
      PROVE  /\ q \in asked /\ Fresh(q) /\ ~IsBoard(outbound[1], q)
             /\ \A j \in DOMAIN rest : IsBoard(rest[j], q) => j = i
  <2>1. /\ q \in asked /\ Fresh(q)
        /\ \A j \in DOMAIN outbound : IsBoard(outbound[j], q) => j = i + 1
    BY <1>1, <1>2 DEF IInv, Keys, QueuedBoards
  <2> QED BY <1>1, <2>1
<1>3. \A q \in Questions : IsBoard(outbound[1], q) => q \in asked /\ Fresh(q)
  BY <1>1 DEF IInv, Keys, QueuedBoards
<1> QED BY <1>1, <1>2, <1>3 DEF QueueApartFrom, rest

LEMMA DispatchKeeps ==
  ASSUME IInv, Dispatch
  PROVE  IInv'
<1> DEFINE out == Head(outbound)
           m == About(out)
<1>1. /\ outbound # <<>> /\ call = None /\ outbound' = Tail(outbound)
      /\ UNCHANGED <<gateway, stage, progress, asked, shown, boards, visible, tap, taps, told,
                     slipped, posted, answered, hurt, silent, faults>>
      /\ IF out.type = "status" THEN SendStatus(out.of) ELSE Send(out)
  BY DEF Dispatch, turns, texts, past
<1>2. /\ out \in Outbound /\ outbound' \in Seq(Outbound) /\ QueueApartFrom(out, outbound')
      /\ \A q \in Questions : IsBoard(out, q) => q \in asked /\ Fresh(q)
  BY <1>1, TakenApart
<1>3. /\ m \in Messages
      /\ out.type = "board" => out.of \in Questions
      /\ out.type \in {"status", "clear", "text", "secret", "board"}
  BY <1>2, OutboundFields
<1> HIDE DEF out, m
<1>4. CASE out.type = "status"
  <2>1. /\ UNCHANGED <<typing, done, status, short>>
        /\ call' = None \/ /\ call' \in CallRecord /\ call'.out = out
                           /\ call'.doing \in {"editing", "showing"}
    <3>1. out.of \in Messages /\ out = Out("status", out.of)
      BY <1>2, <1>4 DEF Outbound, Out
    <3> QED BY <1>1, <1>2, <1>4, <3>1 DEF SendStatus, CallRecord, Doings
  <2>2. TypeOK'
    BY <1>1, <1>2, <2>1 DEF IInv, TypeOK, CallRecord
  <2>3. CallShape' /\ StatusCounted'
    BY <1>1, <1>4, <2>1 DEF IInv, CallShape, StatusCounted
  <2>4. Keys'
    BY <1>1, <1>2, <1>4, <2>1, CallKeeps
  <2> QED BY <2>2, <2>3, <2>4 DEF IInv
<1>5. CASE out.type # "status"
  <2>1. /\ typing' \subseteq typing /\ status' = status \ {m}
        /\ done' \subseteq done \cup {m}
    BY <1>1, <1>5 DEF Send, m
  <2>2. CASE m \in status
    <3>1. call' = [out |-> out, doing |-> "deleting", chunk |-> 0] /\ UNCHANGED short
      BY <1>1, <1>5, <2>2 DEF Send, m
    <3>2. call' \in CallRecord /\ call'.out = out /\ call'.doing = "deleting"
      BY <1>2, <3>1 DEF CallRecord, Doings
    <3>3. TypeOK'
      BY <1>1, <1>2, <1>3, <2>1, <3>1, <3>2 DEF IInv, TypeOK, CallRecord
    <3>4. CallShape' /\ StatusCounted'
      <4>1. m = About(call'.out) /\ shown'[m] >= 1
        BY <1>1, <2>2, <3>2 DEF m, IInv, StatusCounted
      <4> QED BY <1>1, <1>5, <2>1, <3>2, <4>1 DEF IInv, CallShape, StatusCounted, About
    <3>5. Keys'
      BY <1>1, <1>2, <3>1, <3>2, CallKeeps
    <3> QED BY <3>3, <3>4, <3>5 DEF IInv
  <2>3. CASE m \notin status
    <3>1. Post(out)
      BY <1>1, <1>5, <2>3 DEF Send, m
    <3>2. /\ call' = None \/ /\ call' \in CallRecord /\ call'.out = out
                             /\ call'.doing \in {"rich", "plain", "asking"}
                             /\ call'.doing \in {"rich", "plain"} => out.type \in {"text", "secret"}
                             /\ call'.doing = "asking" <=> out.type = "board"
          /\ short' = IF out.type = "board" THEN short \cup {out.of} ELSE short
      BY <1>2, <1>5, <3>1, PostFields
    <3>3. short' \subseteq asked
      BY <1>2, <1>3, <3>2 DEF IInv, TypeOK, IsBoard
    <3>4. TypeOK'
      BY <1>1, <1>2, <1>3, <2>1, <3>2, <3>3 DEF IInv, TypeOK, CallRecord
    <3>5. CallShape' /\ StatusCounted'
      BY <1>1, <2>1, <3>2 DEF IInv, CallShape, StatusCounted
    <3>6. Keys'
      BY <1>1, <1>2, <3>2, CallKeeps
    <3> QED BY <3>4, <3>5, <3>6 DEF IInv
  <2> QED BY <2>2, <2>3
<1> QED BY <1>4, <1>5

-----------------------------------------------------------------------------
(* What the dispatcher awaits comes back *)

\* A status, a text or a secret's request comes back, and says nothing of keyboards.
LEMMA BackKeeps ==
  ASSUME IInv, UNCHANGED <<outbound, keys, asked>>, call # None,
         call' # None => call'.out = call.out /\ call.out.type # "board"
  PROVE  Keys'
<1>1. \A q \in Questions : ~Sending(q)'
  BY DEF Sending, IsBoard
<1>2. QueuedBoards'
  BY <1>1 DEF IInv, Keys, keys, QueuedBoards, Fresh, Tapped, IsBoard
<1>3. SentBoards' /\ Deletes' /\ Untold' /\ AnsweredOnce'
  BY <1>1 DEF IInv, Keys, keys, SentBoards, Deletes, Untold, AnsweredOnce, Tapped
<1> QED BY <1>2, <1>3 DEF Keys

LEMMA EditedKeeps ==
  ASSUME IInv, Edited
  PROVE  IInv'
<1>1. TypeOK'
  BY DEF IInv, TypeOK, Edited, turns, marks, keys, texts, past
<1>2. CallShape' /\ StatusCounted'
  BY DEF IInv, CallShape, StatusCounted, Edited, marks
<1>3. Keys'
  BY BackKeeps DEF Edited, Awaits, turns
<1> QED BY <1>1, <1>2, <1>3 DEF IInv

LEMMA StatusShownKeeps ==
  ASSUME IInv, NEW r \in Results, StatusShown(r)
  PROVE  IInv'
<1> DEFINE m == call.out.of
<1>1. call # None /\ call.doing = "showing" /\ call.out.type = "status" /\ m \in Messages
  BY CallFields, OutboundFields DEF IInv, CallShape, StatusShown, Awaits
<1>2. /\ UNCHANGED <<gateway, turns, outbound, typing, done, keys, texts, silent>> /\ call' = None
      /\ shown' = (IF r = "failed" THEN shown ELSE [shown EXCEPT ![m] = @ + 1])
      /\ status' = (IF r = "ok" THEN status \cup {m} ELSE status)
      /\ hurt' = (IF r = "lost" THEN hurt \cup {m} ELSE hurt)
      /\ faults' \in 0 .. MaxFaults
  BY CameFaults DEF IInv, StatusShown
<1>3. TypeOK'
  <2>1. shown' \in [Messages -> Nat]
    <3>1. shown \in [Messages -> Nat]
      BY DEF IInv, TypeOK
    <3>2. [shown EXCEPT ![m] = @ + 1] \in [Messages -> Nat]
      BY <1>1, <3>1
    <3> QED BY <1>2, <3>1, <3>2
  <2>2. status' \subseteq Messages /\ hurt' \subseteq Messages
    BY <1>1, <1>2 DEF IInv, TypeOK
  <2> QED BY <1>2, <2>1, <2>2 DEF IInv, TypeOK, turns, keys, texts
<1>4. CallShape' /\ StatusCounted'
  BY <1>1, <1>2 DEF IInv, TypeOK, CallShape, StatusCounted
<1>5. Keys'
  BY <1>1, <1>2, BackKeeps DEF turns
<1> QED BY <1>3, <1>4, <1>5 DEF IInv

LEMMA StatusDeletedKeeps ==
  ASSUME IInv, NEW r \in Results, StatusDeleted(r)
  PROVE  IInv'
<1> DEFINE out == call.out
           m == About(out)
<1>1. /\ call # None /\ call.doing = "deleting" /\ out \in Outbound /\ out.type # "status"
      /\ m \in Messages /\ shown[m] >= 1 /\ m \notin status
  BY CallFields, OutboundFields DEF IInv, CallShape, StatusCounted, StatusDeleted, Awaits
<1>2. /\ UNCHANGED <<gateway, stage, progress, asked, outbound, typing, done, status, boards,
                     visible, tap, taps, told, slipped, posted, answered, silent>>
      /\ shown' = (IF r = "failed" THEN shown ELSE [shown EXCEPT ![m] = @ - 1])
      /\ hurt' = (IF r = "failed" THEN hurt \cup {m} ELSE hurt)
      /\ faults' \in 0 .. MaxFaults
      /\ Post(out)
  BY CameFaults DEF IInv, StatusDeleted, turns, texts
<1>3. /\ call' = None \/ /\ call' \in CallRecord /\ call'.out = out
                         /\ call'.doing \in {"rich", "plain", "asking"}
                         /\ call'.doing \in {"rich", "plain"} => out.type \in {"text", "secret"}
                         /\ call'.doing = "asking" <=> out.type = "board"
      /\ short' = IF out.type = "board" THEN short \cup {out.of} ELSE short
  <2> HIDE DEF out, m
  <2> QED BY <1>1, <1>2, PostFields
<1>4. out.type = "board" => out.of \in asked
  BY <1>1, OutboundFields DEF IInv, Keys, SentBoards, Sending, IsBoard
<1>5. TypeOK'
  <2>1. shown' \in [Messages -> Nat]
    BY <1>1, <1>2 DEF IInv, TypeOK
  <2> HIDE DEF out, m
  <2> QED BY <1>1, <1>2, <1>3, <1>4, <2>1 DEF IInv, TypeOK, CallRecord
<1>6. CallShape' /\ StatusCounted'
  <2>1. \A n \in status : shown'[n] = shown[n]
    BY <1>1, <1>2 DEF IInv, TypeOK
  <2> QED BY <1>1, <1>2, <1>3, <2>1 DEF IInv, CallShape, StatusCounted
<1>7. Keys'
  <2>1. \A q \in Questions : IsBoard(out, q) => Sending(q)
    BY <1>1 DEF Sending
  <2>2. \A q \in Questions : IsBoard(out, q) => q \in asked /\ Fresh(q)
    BY <1>1, <2>1 DEF IInv, Keys, SentBoards
  <2>3. QueueApartFrom(out, outbound')
    BY <1>2, <2>1 DEF IInv, Keys, QueuedBoards, QueueApartFrom
  <2> HIDE DEF out, m
  <2> QED BY <1>1, <1>2, <1>3, <2>2, <2>3, CallKeeps
<1> QED BY <1>5, <1>6, <1>7 DEF IInv

LEMMA BoardShownKeeps ==
  ASSUME IInv, BoardShown
  PROVE  IInv'
<1> DEFINE b == call.out.of
<1>1. /\ call # None /\ call \in CallRecord /\ call.doing = "asking" /\ call.out.type = "board"
      /\ b \in Questions /\ Sending(b)
  BY CallFields, OutboundFields DEF IInv, CallShape, BoardShown, Awaits, Sending, IsBoard
<1>2. b \in asked /\ b \notin boards /\ b \notin visible /\ told[b] = 0 /\ ~Tapped(b)
  BY <1>1 DEF IInv, Keys, SentBoards
<1>3. /\ UNCHANGED <<gateway, turns, outbound, typing, marks, short, boards, tap, taps, told,
                     slipped, texts, past>>
      /\ visible' = visible \cup {b} /\ call' = [call EXCEPT !.doing = "shown"]
  BY DEF BoardShown
<1>4. call' \in CallRecord /\ call'.out = call.out /\ call'.doing = "shown"
  BY <1>1, <1>3 DEF CallRecord, Doings
<1>5. TypeOK'
  BY <1>2, <1>3, <1>4 DEF IInv, TypeOK, CallRecord, turns, marks, texts, past
<1>6. CallShape' /\ StatusCounted'
  BY <1>1, <1>3, <1>4 DEF IInv, CallShape, StatusCounted, marks
<1>7. \A q \in Questions : Sending(q)' => Sending(q)
  BY <1>1, <1>4 DEF Sending, IsBoard
<1>8. \A q \in Questions : Sending(q) => q = b
  BY <1>1 DEF Sending, IsBoard
<1>9. QueuedBoards'
  BY <1>1, <1>3, <1>7 DEF IInv, Keys, QueuedBoards, Fresh, Tapped, IsBoard, turns
<1>10. SentBoards' /\ Deletes' /\ Untold' /\ AnsweredOnce'
  <2>1. SentBoards'
    BY <1>2, <1>3, <1>4, <1>7, <1>8 DEF SentBoards, turns
  <2>2. Deletes' /\ Untold' /\ AnsweredOnce'
    BY <1>2, <1>3, <1>7 DEF IInv, Keys, Deletes, Untold, AnsweredOnce, Tapped, turns
  <2> QED BY <2>1, <2>2
<1> QED BY <1>5, <1>6, <1>9, <1>10 DEF IInv, Keys

LEMMA BoardSentKeeps ==
  ASSUME IInv, NEW r \in Results, BoardSent(r)
  PROVE  IInv'
<1> DEFINE b == call.out.of
<1>1. /\ call # None /\ call.doing \in {"asking", "shown"} /\ (r # "failed" => call.doing = "shown")
      /\ call.out.type = "board" /\ b \in Questions /\ Sending(b)
  BY CallFields, OutboundFields DEF IInv, CallShape, BoardSent, Awaits, Sending, IsBoard
<1>2. /\ UNCHANGED <<gateway, turns, outbound, typing, marks, short, visible, tap, taps, told,
                     slipped, texts, hurt, silent>>
      /\ boards' = (IF r = "ok" THEN boards \cup {b} ELSE boards) /\ call' = None
      /\ faults' \in 0 .. MaxFaults
  BY CameFaults DEF IInv, BoardSent
<1>3. r = "ok" => b \in visible
  BY <1>1 DEF IInv, Keys, SentBoards
<1>4. TypeOK'
  BY <1>2, <1>3 DEF IInv, TypeOK, turns, marks, texts
<1>5. CallShape' /\ StatusCounted'
  BY <1>2 DEF IInv, CallShape, StatusCounted, marks
<1>6. \A q \in Questions : ~Sending(q)'
  BY <1>2 DEF Sending
<1>7. QueuedBoards'
  BY <1>2, <1>6 DEF IInv, Keys, QueuedBoards, Fresh, Tapped, IsBoard, turns
<1>8. SentBoards' /\ Deletes' /\ Untold' /\ AnsweredOnce'
  BY <1>1, <1>2, <1>6 DEF IInv, Keys, SentBoards, Deletes, Untold, AnsweredOnce, Tapped, turns
<1> QED BY <1>4, <1>5, <1>7, <1>8 DEF IInv, Keys

LEMMA ChunkFields ==
  ASSUME IInv, call # None, call.doing \in {"rich", "plain"}
  PROVE  /\ call \in CallRecord /\ call.out \in Outbound /\ call.out.type \in {"text", "secret"}
         /\ call.out.of \in Messages /\ call.chunk \in Nat
  BY CallFields, OutboundFields DEF IInv, CallShape

LEMMA NextChunkFields ==
  ASSUME IInv, call # None, call.doing \in {"rich", "plain"}, NextChunk
  PROVE  /\ call' = None \/ (call' \in CallRecord /\ call'.out = call.out /\ call'.doing = "rich")
         /\ answered' \subseteq Messages
<1>1. /\ call \in CallRecord /\ call.out.type \in {"text", "secret"}
      /\ call.out.of \in Messages /\ call.chunk \in Nat
  BY ChunkFields
<1>2. CASE call.out.type = "text" /\ call.chunk < Chunks[call.out.of]
  <2>1. call' = [call EXCEPT !.doing = "rich", !.chunk = @ + 1] /\ answered' = answered
    BY <1>2 DEF NextChunk
  <2>2. call' = [out |-> call.out, doing |-> "rich", chunk |-> call.chunk + 1]
    BY <1>1, <2>1 DEF CallRecord
  <2>3. call.out \in Outbound /\ call.chunk + 1 \in Nat
    BY <1>1, ChunkFields
  <2>4. call' \in CallRecord /\ call'.out = call.out /\ call'.doing = "rich"
    BY <2>2, <2>3 DEF CallRecord, Doings
  <2> QED BY <2>1, <2>4 DEF IInv, TypeOK
<1>3. CASE ~(call.out.type = "text" /\ call.chunk < Chunks[call.out.of])
  BY <1>1, <1>3 DEF NextChunk, IInv, TypeOK
<1> QED BY <1>2, <1>3

LEMMA AppearsTyped ==
  ASSUME IInv, call # None, call.doing \in {"rich", "plain"}, Appears
  PROVE  posted' \in [Messages -> Seq(Nat)]
<1>1. call.out.of \in Messages /\ call.chunk \in Nat /\ posted \in [Messages -> Seq(Nat)]
  BY ChunkFields DEF IInv, TypeOK
<1>2. Append(posted[call.out.of], call.chunk) \in Seq(Nat)
  BY <1>1, AppendProperties
<1> QED BY <1>1, <1>2 DEF Appears

\* What the sending of chunks leaves, whatever came of one.
LEMMA ChunkKeeps ==
  ASSUME IInv, call # None, call.doing \in {"rich", "plain"},
         UNCHANGED <<gateway, turns, outbound, typing, marks, keys, silent>>,
         \/ call' = None
         \/ call' \in CallRecord /\ call'.out = call.out /\ call'.doing \in {"rich", "plain"},
         posted' \in [Messages -> Seq(Nat)], answered' \subseteq Messages,
         hurt' \subseteq Messages, faults' \in 0 .. MaxFaults
  PROVE  IInv'
<1>1. TypeOK'
  BY DEF IInv, TypeOK, CallRecord, turns, marks, keys
<1>2. call.out.type \in {"text", "secret"}
  BY ChunkFields
<1>3. CallShape' /\ StatusCounted'
  BY <1>2 DEF IInv, CallShape, StatusCounted, marks
<1>4. Keys'
  BY <1>2, BackKeeps DEF turns
<1> QED BY <1>1, <1>3, <1>4 DEF IInv

LEMMA RichSentKeeps ==
  ASSUME IInv, RichSent
  PROVE  IInv'
<1>1. call # None /\ call.doing = "rich" /\ Appears /\ NextChunk
      /\ UNCHANGED <<gateway, turns, outbound, typing, marks, keys, past>>
  BY DEF RichSent, Awaits
<1>2. posted' \in [Messages -> Seq(Nat)]
  BY <1>1, AppearsTyped
<1>3. hurt' \subseteq Messages /\ faults' \in 0 .. MaxFaults /\ UNCHANGED silent
  BY <1>1 DEF IInv, TypeOK, past
<1> QED BY <1>1, <1>2, <1>3, NextChunkFields, ChunkKeeps

LEMMA RichRefusedKeeps ==
  ASSUME IInv, RichRefused
  PROVE  IInv'
<1>1. call # None /\ call.doing = "rich" /\ call' = [call EXCEPT !.doing = "plain"]
      /\ UNCHANGED <<gateway, turns, outbound, typing, marks, keys, texts, past>>
  BY DEF RichRefused, Awaits
<1>2. call' \in CallRecord /\ call'.out = call.out /\ call'.doing = "plain"
  BY <1>1, ChunkFields DEF CallRecord, Doings
<1>3. /\ posted' \in [Messages -> Seq(Nat)] /\ answered' \subseteq Messages
      /\ hurt' \subseteq Messages /\ faults' \in 0 .. MaxFaults /\ UNCHANGED silent
  BY <1>1 DEF IInv, TypeOK, texts, past
<1> QED BY <1>1, <1>2, <1>3, ChunkKeeps

LEMMA RichLostKeeps ==
  ASSUME IInv, RichLost
  PROVE  IInv'
<1>1. call # None /\ call.doing = "rich" /\ call' = [call EXCEPT !.doing = "plain"]
      /\ Appears /\ IsHurt /\ Fault
      /\ UNCHANGED <<gateway, turns, outbound, typing, marks, keys, answered, silent>>
  BY DEF RichLost, Awaits
<1>2. call' \in CallRecord /\ call'.out = call.out /\ call'.doing = "plain"
  BY <1>1, ChunkFields DEF CallRecord, Doings
<1>3. posted' \in [Messages -> Seq(Nat)]
  BY <1>1, AppearsTyped
<1>4. answered' \subseteq Messages /\ hurt' \subseteq Messages
  BY <1>1, ChunkFields DEF IInv, TypeOK, IsHurt
<1>5. faults' \in 0 .. MaxFaults
  BY <1>1, ChannelAssumption DEF ChannelAssumption, IInv, TypeOK, Fault
<1> QED BY <1>1, <1>2, <1>3, <1>4, <1>5, ChunkKeeps

LEMMA PlainSentKeeps ==
  ASSUME IInv, NEW r \in Results, PlainSent(r)
  PROVE  IInv'
<1>1. call # None /\ call.doing = "plain" /\ NextChunk
      /\ (IF r = "failed" THEN IsHurt /\ UNCHANGED posted ELSE Appears /\ UNCHANGED hurt)
      /\ UNCHANGED <<gateway, turns, outbound, typing, marks, keys, silent>>
  BY DEF PlainSent, Awaits
<1>2. posted' \in [Messages -> Seq(Nat)]
  BY <1>1, AppearsTyped DEF IInv, TypeOK
<1>3. hurt' \subseteq Messages
  BY <1>1, ChunkFields DEF IInv, TypeOK, IsHurt
<1>4. faults' \in 0 .. MaxFaults
  BY CameFaults DEF IInv, PlainSent
<1> QED BY <1>1, <1>2, <1>3, <1>4, NextChunkFields, ChunkKeeps

-----------------------------------------------------------------------------
LEMMA NextKeeps == IInv /\ [Next]_vars => IInv'
<1> SUFFICES ASSUME IInv, [Next]_vars PROVE IInv'
  OBVIOUS
<1>1. CASE Users
  BY <1>1, UsersArriveKeeps, TapKeeps DEF Users
<1>2. CASE Handler
  BY <1>2, UsersArriveKeeps, TapAnswerKeeps, TapDeletedKeeps DEF Handler
<1>3. CASE Dispatch
  BY <1>3, DispatchKeeps
<1>4. CASE Returns
  <2>1. CASE Edited \/ BoardShown \/ RichSent \/ RichRefused \/ RichLost
    BY <2>1, EditedKeeps, BoardShownKeeps, RichSentKeeps, RichRefusedKeeps, RichLostKeeps
  <2>2. ASSUME NEW r \in Results,
               StatusShown(r) \/ StatusDeleted(r) \/ BoardSent(r) \/ PlainSent(r)
        PROVE  IInv'
    BY <2>2, StatusShownKeeps, StatusDeletedKeeps, BoardSentKeeps, PlainSentKeeps
  <2> QED BY <1>4, <2>1, <2>2 DEF Returns
<1>5. ASSUME NEW m \in Messages, Turn(m) \/ TypingLoopEnds(m)
      PROVE  IInv'
  BY <1>5, ProgressKeeps, FinishKeeps, RaiseKeeps, UsersArriveKeeps DEF Turn
<1>6. ASSUME NEW q \in Questions, Ask(q)
      PROVE  IInv'
  BY <1>6, AskKeeps
<1>7. CASE Stop \/ AppGone \/ UNCHANGED vars
  BY <1>7, StopKeeps, AppGoneKeeps, StutterKeeps
<1> QED BY <1>1, <1>2, <1>3, <1>4, <1>5, <1>6, <1>7 DEF Next

\* The inductive invariant: each question's keyboard is queued, sent, tapped and
\* deleted in this order, its id taken once (telegram.py:590-712).
THEOREM ChannelInvariance == Spec => []IInv
<1>1. Init => IInv
  BY InitInv
<1>2. IInv /\ [Next]_vars => IInv'
  BY NextKeeps
<1> QED BY <1>1, <1>2, PTL DEF Spec

\* Records, maps and queues of the channel keep their shapes; a short id and a
\* keyboard on record belong to a question that was asked, and a keyboard on
\* record is in the chat.
THEOREM ChannelTypeCorrect == Spec => []TypeOK
BY ChannelInvariance, PTL DEF IInv

\* However the taps, the answers to the channel's calls and a shutdown
\* interleave, the gate is told one answer of a question, and the keyboard has
\* gone by then unless the tap overtook the answer to its send or the deletion
\* failed (telegram.py:663-712).
THEOREM QuestionsAnsweredOnce == Spec => []AnsweredOnce
BY ChannelInvariance, PTL DEF IInv, Keys

-----------------------------------------------------------------------------
(* What a chat reads of an answer *)

IsAnswer(out, m) == out.type \in {"text", "secret"} /\ out.of = m
Answering(m) == call # None /\ IsAnswer(call.out, m)
Untouched(m) == posted[m] = <<>> /\ m \notin answered
Upto(n) == [i \in 1 .. n |-> i]
Size(m) == IF m \in Misses THEN 1 ELSE Chunks[m]
\* The request for a secret answers a turn that misses one, and no other.
Fits(out, m) == out.type = "secret" <=> m \in Misses

\* One answer at most is queued for a turn, when it is over, and not yet begun.
QueuedAnswers ==
  \A i \in DOMAIN outbound, m \in Messages : IsAnswer(outbound[i], m) =>
    /\ stage[m] = "over" /\ Untouched(m) /\ ~Answering(m) /\ Fits(outbound[i], m)
    /\ \A j \in DOMAIN outbound : IsAnswer(outbound[j], m) => j = i

\* Of the answer being sent, the chunks before the awaited one are in the chat.
SentAnswers ==
  \A m \in Messages : Answering(m) =>
    /\ stage[m] = "over" /\ m \notin answered /\ Fits(call.out, m)
    /\ call.doing = "deleting" => posted[m] = <<>>
    /\ call.doing \in {"rich", "plain"} =>
         /\ call.chunk \in 1 .. Size(m)
         /\ m \in hurt \/ posted[m] = Upto(call.chunk - 1)

Unanswered == \A m \in Messages : stage[m] # "over" => Untouched(m)

Answers == QueuedAnswers /\ SentAnswers /\ Unanswered /\ AnswerWhole

\* What is queued stays, and what is new comes behind it.
Added == DOMAIN outbound' \ DOMAIN outbound
QueueKept ==
  /\ DOMAIN outbound \subseteq DOMAIN outbound'
  /\ \A i \in DOMAIN outbound : outbound'[i] = outbound[i]
  /\ \A i \in DOMAIN outbound, j \in Added : i < j

LEMMA EmitGrows ==
  ASSUME TypeOK, NEW t \in Seq(Outbound), Emit(t)
  PROVE  /\ QueueKept
         /\ \A i \in Added : i - Len(outbound) \in DOMAIN t /\ outbound'[i] = t[i - Len(outbound)]
         /\ \A k \in DOMAIN t : Len(outbound) + k \in Added /\ outbound'[Len(outbound) + k] = t[k]
<1> DEFINE s == outbound
<1>1. s \in Seq(Outbound) /\ outbound' = s \o t
  BY DEF TypeOK, Emit
<1>2. /\ Len(s \o t) = Len(s) + Len(t)
      /\ \A i \in 1 .. Len(s) + Len(t) : (s \o t)[i] = IF i <= Len(s) THEN s[i] ELSE t[i - Len(s)]
  BY <1>1, ConcatProperties
<1>3. /\ DOMAIN s = 1 .. Len(s) /\ DOMAIN t = 1 .. Len(t)
      /\ Len(s) \in Nat /\ Len(t) \in Nat
  BY <1>1, LenProperties
<1>4. DOMAIN outbound' = 1 .. Len(s) + Len(t)
  BY <1>1, <1>2, LenProperties, ConcatProperties
<1>5. Added = Len(s) + 1 .. Len(s) + Len(t)
  BY <1>3, <1>4 DEF Added
<1>6. QueueKept
  BY <1>1, <1>2, <1>3, <1>4, <1>5 DEF QueueKept
<1>7. ASSUME NEW i \in Added
      PROVE  i - Len(s) \in DOMAIN t /\ outbound'[i] = t[i - Len(s)]
  BY <1>1, <1>2, <1>3, <1>5
<1>8. ASSUME NEW k \in DOMAIN t
      PROVE  Len(s) + k \in Added /\ outbound'[Len(s) + k] = t[k]
  <2>1. k \in 1 .. Len(t) /\ Len(s) + k \in 1 .. Len(s) + Len(t) /\ ~(Len(s) + k <= Len(s))
        /\ (Len(s) + k) - Len(s) = k
    BY <1>3
  <2> QED BY <1>1, <1>2, <1>5, <2>1
<1> QED BY <1>6, <1>7, <1>8

\* Steps that send and post no answer.
LEMMA AnswersStay ==
  ASSUME Answers, UNCHANGED <<posted, answered>>, hurt \subseteq hurt',
         \A m \in Messages : stage[m] = "over" => stage'[m] = "over",
         \A i \in DOMAIN outbound', m \in Messages : IsAnswer(outbound'[i], m) =>
           i \in DOMAIN outbound /\ outbound'[i] = outbound[i],
         \A m \in Messages : Answering(m)' => Answering(m) /\ call' = call
  PROVE  Answers'
<1>1. QueuedAnswers'
  BY DEF Answers, QueuedAnswers, Untouched, Fits, IsAnswer
<1>2. SentAnswers'
  BY DEF Answers, SentAnswers, Fits, Size, Upto
<1>3. Unanswered' /\ AnswerWhole'
  BY DEF Answers, Unanswered, Untouched, AnswerWhole
<1> QED BY <1>1, <1>2, <1>3 DEF Answers

\* Steps that queue and post nothing.
LEMMA UsersAnswersStay ==
  ASSUME IInv, Answers, NEW m \in Messages,
         Arrive(m) \/ Downloaded(m) \/ TypingLoopEnds(m) \/ Raise(m)
  PROVE  Answers'
<1>1. UNCHANGED <<posted, answered, outbound, call>> /\ hurt \subseteq hurt'
  BY DEF Arrive, Downloaded, TypingLoopEnds, Raise, texts, past
<1>2. \A n \in Messages : stage[n] = "over" => stage'[n] = "over"
  BY DEF IInv, TypeOK, Arrive, Downloaded, TypingLoopEnds, Raise, Goes, Published, turns
<1> QED BY <1>1, <1>2, AnswersStay DEF Answering

LEMMA TapAnswersStay ==
  ASSUME Answers,
         \/ \E q \in Questions : Tap(q)
         \/ \E r \in Results : TapAnswered(r) \/ TapDeleted(r)
         \/ AppGone \/ UNCHANGED vars
  PROVE  Answers'
<1>1. UNCHANGED <<posted, answered, outbound, call, stage, hurt>>
  BY DEF Tap, TapAnswered, TapDeleted, AppGone, vars, turns, texts, past
<1> QED BY <1>1, AnswersStay DEF Answering

LEMMA EmitAnswersStay ==
  ASSUME IInv, Answers, \/ \E m \in Messages : Progress(m)
                        \/ \E q \in Questions : Ask(q)
  PROVE  Answers'
<1>1. PICK o \in Outbound : o.type \in {"status", "board"} /\ Emit(<<o>>)
  <2>1. ASSUME NEW m \in Messages, Progress(m)
        PROVE  \E o \in Outbound : o.type \in {"status", "board"} /\ Emit(<<o>>)
    BY <2>1, OutIsOutbound DEF Progress
  <2>2. ASSUME NEW q \in Questions, Ask(q)
        PROVE  \E o \in Outbound : o.type \in {"status", "board"} /\ Emit(<<o>>)
    BY <2>2, OutIsOutbound DEF Ask, IsBoard
  <2> QED BY <2>1, <2>2
<1>2. UNCHANGED <<posted, answered, call, stage, hurt>>
  BY DEF Progress, Ask, texts, past
<1>3. <<o>> \in Seq(Outbound) /\ \A k \in DOMAIN <<o>> : <<o>>[k] = o
  OBVIOUS
<1>4. QueueKept /\ \A i \in Added : outbound'[i] = o
  BY <1>1, <1>3, EmitGrows DEF IInv
<1>5. \A i \in DOMAIN outbound', m \in Messages : IsAnswer(outbound'[i], m) =>
        i \in DOMAIN outbound /\ outbound'[i] = outbound[i]
  BY <1>1, <1>4 DEF IsAnswer, QueueKept, Added
<1> QED BY <1>2, <1>5, AnswersStay DEF Answering

\* What the dispatcher awaits about status messages and keyboards comes back.
LEMMA BackAnswersStay ==
  ASSUME IInv, Answers,
         \/ Edited \/ BoardShown \/ Stop
         \/ \E r \in Results : StatusShown(r) \/ BoardSent(r)
  PROVE  Answers'
<1>1. UNCHANGED <<posted, answered, stage>> /\ hurt \subseteq hurt'
  BY DEF Edited, BoardShown, Stop, StatusShown, BoardSent, turns, texts, past
<1>2. outbound' = outbound \/ outbound' = <<>>
  BY DEF Edited, BoardShown, Stop, StatusShown, BoardSent
<1>3. \A m \in Messages : ~Answering(m)'
  <2>1. CASE BoardShown
    <3>1. call # None /\ call.out.type = "board" /\ call' = [call EXCEPT !.doing = "shown"]
          /\ call \in CallRecord
      BY <2>1, CallFields DEF IInv, CallShape, BoardShown, Awaits
    <3> QED BY <3>1 DEF Answering, IsAnswer, CallRecord
  <2>2. CASE ~BoardShown
    BY <2>2 DEF Edited, Stop, StatusShown, BoardSent, Answering
  <2> QED BY <2>1, <2>2
<1> QED BY <1>1, <1>2, <1>3, AnswersStay

\* The end of a turn queues the one answer to it.
LEMMA FinishAnswers ==
  ASSUME IInv, Answers, NEW m \in Messages, Finish(m)
  PROVE  Answers'
<1> DEFINE answer == Out(IF m \in Misses THEN "secret" ELSE "text", m)
           clear == Out("clear", m)
           news == IF m \in Commands THEN <<answer>> ELSE <<clear, answer>>
           last == IF m \in Commands THEN 1 ELSE 2
<1>1. /\ Emit(news) /\ stage[m] = "running" /\ stage' = [stage EXCEPT ![m] = "over"]
      /\ UNCHANGED <<posted, answered, hurt, call>>
  BY DEF Finish, Goes, texts, past
<1>2. /\ answer \in Outbound /\ IsAnswer(answer, m) /\ Fits(answer, m)
      /\ clear \in Outbound /\ \A n \in Messages : ~IsAnswer(clear, n)
      /\ \A n \in Messages : IsAnswer(answer, n) => n = m
  BY OutIsOutbound DEF IsAnswer, Fits
<1>3. news \in Seq(Outbound)
      /\ \A k \in DOMAIN news : (k = last /\ news[k] = answer) \/ (k # last /\ news[k] = clear)
  <2> HIDE DEF answer, clear
  <2>1. CASE m \in Commands
    <3>1. news = <<answer>> /\ last = 1
      BY <2>1
    <3> HIDE DEF news, last
    <3> QED BY <1>2, <3>1
  <2>2. CASE m \notin Commands
    <3>1. news = <<clear, answer>> /\ last = 2
      BY <2>2
    <3> HIDE DEF news, last
    <3> QED BY <1>2, <3>1
  <2> QED BY <2>1, <2>2
<1> HIDE DEF answer, clear, news, last
<1>4. /\ QueueKept
      /\ \A i \in Added : i - Len(outbound) \in DOMAIN news /\ outbound'[i] = news[i - Len(outbound)]
  BY <1>1, <1>3, EmitGrows DEF IInv
<1>5. \A i \in DOMAIN outbound', n \in Messages : IsAnswer(outbound'[i], n) =>
        \/ i \in DOMAIN outbound /\ outbound'[i] = outbound[i]
        \/ i \in Added /\ i - Len(outbound) = last /\ outbound'[i] = answer /\ n = m
  BY <1>2, <1>3, <1>4 DEF QueueKept, Added
<1>6. Untouched(m) /\ ~Answering(m) /\ \A i \in DOMAIN outbound : ~IsAnswer(outbound[i], m)
  BY <1>1 DEF Answers, Unanswered, SentAnswers, QueuedAnswers
<1>7. \A i, j \in Added : i - Len(outbound) = last /\ j - Len(outbound) = last => i = j
  <2>1. outbound \in Seq(Outbound) /\ outbound' \in Seq(Outbound)
    BY FinishKeeps DEF IInv, TypeOK
  <2>2. Len(outbound) \in Nat /\ DOMAIN outbound' \subseteq Nat /\ last \in Nat
    BY <2>1, LenProperties DEF last
  <2> QED BY <2>2 DEF Added
<1>8. \A n \in Messages : stage'[n] = "over" <=> stage[n] = "over" \/ n = m
  BY <1>1 DEF IInv, TypeOK
<1>9. QueuedAnswers'
  <2> SUFFICES ASSUME NEW i \in DOMAIN outbound', NEW n \in Messages, IsAnswer(outbound'[i], n)
               PROVE  /\ stage'[n] = "over" /\ Untouched(n)' /\ ~Answering(n)' /\ Fits(outbound'[i], n)
                      /\ \A j \in DOMAIN outbound' : IsAnswer(outbound'[j], n) => j = i
    BY DEF QueuedAnswers, Fits, IsAnswer
  <2>1. CASE i \in Added /\ i - Len(outbound) = last /\ outbound'[i] = answer /\ n = m
    BY <1>1, <1>2, <1>5, <1>6, <1>7, <1>8, <2>1 DEF Untouched, Answering, IsAnswer
  <2>2. CASE i \in DOMAIN outbound /\ outbound'[i] = outbound[i]
    <3>1. n # m
      BY <1>6, <2>2
    <3>2. /\ stage[n] = "over" /\ Untouched(n) /\ ~Answering(n) /\ Fits(outbound[i], n)
          /\ \A j \in DOMAIN outbound : IsAnswer(outbound[j], n) => j = i
      BY <2>2 DEF Answers, QueuedAnswers
    <3> QED BY <1>1, <1>5, <1>8, <2>2, <3>1, <3>2 DEF Untouched, Answering
  <2> QED BY <1>5, <2>1, <2>2
<1>10. SentAnswers' /\ Unanswered' /\ AnswerWhole'
  BY <1>1, <1>8 DEF Answers, SentAnswers, Answering, Unanswered, Untouched, AnswerWhole, Fits, Size, Upto
<1> QED BY <1>9, <1>10 DEF Answers

\* What is sent without a status message to delete begins with its first chunk.
LEMMA PostBegins ==
  ASSUME NEW out \in Outbound, out.type # "status", Post(out),
         NEW m \in Messages, Answering(m)', Fits(out, m)
  PROVE  /\ IsAnswer(out, m) /\ call'.out = out /\ call'.doing \in {"rich", "plain"}
         /\ call'.chunk = 1 /\ 1 \in 1 .. Size(m) /\ <<>> = Upto(call'.chunk - 1)
<1>1. Chunks[m] \in Nat
  BY ChannelAssumption DEF ChannelAssumption
<1>2. call' # None /\ call'.out = out /\ IsAnswer(out, m) /\ out.of = m
  BY PostFields DEF Answering, IsAnswer
<1>3. CASE out.type = "text"
  <2>1. Chunks[m] # 0 /\ call' = [out |-> out, doing |-> "rich", chunk |-> 1]
    BY <1>2, <1>3 DEF Post
  <2> QED BY <1>1, <1>2, <1>3, <2>1 DEF Fits, Size, Upto
<1>4. CASE out.type = "secret"
  <2>1. call' = [out |-> out, doing |-> "plain", chunk |-> 1]
    BY <1>4 DEF Post
  <2> QED BY <1>2, <1>4, <2>1 DEF Fits, Size, Upto
<1> QED BY <1>2, <1>3, <1>4 DEF IsAnswer

\* The dispatcher takes the first of the queue, and the others move up.
LEMMA DispatchFields ==
  ASSUME IInv, Dispatch
  PROVE  /\ 1 \in DOMAIN outbound /\ outbound[1] \in Outbound /\ call = None /\ gateway = "up"
         /\ \A i \in DOMAIN outbound' :
              i \in Nat \ {0} /\ i + 1 \in DOMAIN outbound /\ outbound'[i] = outbound[i + 1]
         /\ \A i \in DOMAIN outbound : i = 1 \/ i - 1 \in DOMAIN outbound'
         /\ UNCHANGED <<gateway, stage, shown, posted, answered, hurt, silent>>
         /\ IF outbound[1].type = "status" THEN SendStatus(outbound[1].of) ELSE Send(outbound[1])
<1>1. outbound \in Seq(Outbound) /\ outbound # <<>> /\ outbound' = Tail(outbound)
  BY DEF IInv, TypeOK, Dispatch
<1>2. /\ Head(outbound) = outbound[1] /\ 1 \in DOMAIN outbound /\ outbound[1] \in Outbound
      /\ \A i \in DOMAIN outbound' :
           i \in Nat \ {0} /\ i + 1 \in DOMAIN outbound /\ outbound'[i] = outbound[i + 1]
  BY <1>1, TailKeeps
<1>3. \A i \in DOMAIN outbound : i = 1 \/ i - 1 \in DOMAIN outbound'
  <2>1. DOMAIN outbound = 1 .. Len(outbound) /\ Len(outbound) \in Nat
    BY <1>1, LenProperties
  <2>2. DOMAIN outbound' = 1 .. Len(outbound) - 1
    BY <1>1, HeadTailProperties, LenProperties
  <2> QED BY <2>1, <2>2
<1> QED BY <1>2, <1>3 DEF Dispatch, turns, texts, past

LEMMA DispatchAnswers ==
  ASSUME IInv, Answers, Dispatch
  PROVE  Answers'
<1> DEFINE out == outbound[1]
<1>1. /\ 1 \in DOMAIN outbound /\ out \in Outbound /\ call = None
      /\ \A i \in DOMAIN outbound' :
           i \in Nat \ {0} /\ i + 1 \in DOMAIN outbound /\ outbound'[i] = outbound[i + 1]
      /\ UNCHANGED <<stage, posted, answered, hurt>>
      /\ IF out.type = "status" THEN SendStatus(out.of) ELSE Send(out)
  BY DispatchFields
<1>2. ASSUME NEW m \in Messages, IsAnswer(out, m)
      PROVE  /\ stage[m] = "over" /\ Untouched(m) /\ Fits(out, m)
             /\ \A j \in DOMAIN outbound : IsAnswer(outbound[j], m) => j = 1
  BY <1>1, <1>2 DEF Answers, QueuedAnswers
<1> HIDE DEF out
<1>3. ASSUME NEW m \in Messages, Answering(m)'
      PROVE  /\ IsAnswer(out, m) /\ call'.out = out
             /\ \/ call'.doing = "deleting"
                \/ call'.doing \in {"rich", "plain"} /\ call'.chunk = 1 /\ 1 \in 1 .. Size(m)
                   /\ <<>> = Upto(call'.chunk - 1)
  <2>1. out.type # "status"
    BY <1>1, <1>3 DEF SendStatus, Answering, IsAnswer, Out
  <2>2. CASE About(out) \in status
    <3>1. call' = [out |-> out, doing |-> "deleting", chunk |-> 0]
      BY <1>1, <2>1, <2>2 DEF Send
    <3> QED BY <1>3, <3>1 DEF Answering
  <2>3. CASE About(out) \notin status
    <3>1. Post(out)
      BY <1>1, <2>1, <2>3 DEF Send
    <3>2. IsAnswer(out, m)
      BY <1>1, <1>3, <2>1, <3>1, PostFields DEF Answering, IsAnswer
    <3> QED BY <1>1, <1>2, <1>3, <2>1, <3>1, <3>2, PostBegins
  <2> QED BY <2>2, <2>3
<1>4. QueuedAnswers'
  <2> SUFFICES ASSUME NEW i \in DOMAIN outbound', NEW m \in Messages, IsAnswer(outbound'[i], m)
               PROVE  /\ stage'[m] = "over" /\ Untouched(m)' /\ ~Answering(m)' /\ Fits(outbound'[i], m)
                      /\ \A j \in DOMAIN outbound' : IsAnswer(outbound'[j], m) => j = i
    BY DEF QueuedAnswers, Fits, IsAnswer
  <2>1. i \in Nat \ {0} /\ i + 1 \in DOMAIN outbound /\ outbound'[i] = outbound[i + 1]
    BY <1>1
  <2>2. /\ stage[m] = "over" /\ Untouched(m) /\ Fits(outbound[i + 1], m)
        /\ \A j \in DOMAIN outbound : IsAnswer(outbound[j], m) => j = i + 1
    BY <2>1 DEF Answers, QueuedAnswers
  <2>3. ~IsAnswer(out, m)
    BY <1>1, <2>1, <2>2 DEF out
  <2>4. \A j \in DOMAIN outbound' : IsAnswer(outbound'[j], m) => j = i
    BY <1>1, <2>1, <2>2
  <2> QED BY <1>1, <1>3, <2>1, <2>2, <2>3, <2>4 DEF Untouched
<1>5. SentAnswers'
  BY <1>1, <1>2, <1>3 DEF SentAnswers, Untouched, Fits, Size, Upto
<1>6. Unanswered' /\ AnswerWhole'
  BY <1>1 DEF Answers, Unanswered, Untouched, AnswerWhole
<1> QED BY <1>4, <1>5, <1>6 DEF Answers

\* Once its status message is deleted, the answer begins.
LEMMA StatusDeletedAnswers ==
  ASSUME IInv, Answers, NEW r \in Results, StatusDeleted(r)
  PROVE  Answers'
<1> DEFINE out == call.out
<1>1. /\ call # None /\ call.doing = "deleting" /\ out \in Outbound /\ out.type # "status" /\ Post(out)
      /\ UNCHANGED <<stage, posted, answered, outbound>> /\ hurt \subseteq hurt'
  BY CallFields DEF IInv, CallShape, StatusDeleted, Awaits, turns, texts
<1> HIDE DEF out
<1>2. ASSUME NEW m \in Messages, Answering(m)'
      PROVE  /\ Answering(m) /\ call'.out = out
             /\ call'.doing \in {"rich", "plain"} /\ call'.chunk = 1 /\ 1 \in 1 .. Size(m)
             /\ <<>> = Upto(call'.chunk - 1)
  <2>1. IsAnswer(out, m)
    BY <1>1, <1>2, PostFields DEF Answering, IsAnswer
  <2>2. Answering(m) /\ Fits(out, m)
    BY <1>1, <2>1 DEF out, Answering, Answers, SentAnswers
  <2> QED BY <1>1, <1>2, <2>2, PostBegins
<1>3. QueuedAnswers'
  BY <1>1, <1>2 DEF Answers, QueuedAnswers, Untouched, Fits, IsAnswer
<1>4. SentAnswers'
  BY <1>1, <1>2 DEF out, Answers, SentAnswers, Fits, Size, Upto
<1>5. Unanswered' /\ AnswerWhole'
  BY <1>1 DEF Answers, Unanswered, Untouched, AnswerWhole
<1> QED BY <1>3, <1>4, <1>5 DEF Answers

\* What a step of the sending of chunks has to do.
LEMMA ChunkAnswers ==
  ASSUME IInv, Answers, call # None, call.doing \in {"rich", "plain"},
         NEW m \in Messages, m = call.out.of,
         UNCHANGED <<stage, outbound>>, hurt \subseteq hurt',
         \A n \in Messages \ {m} : posted'[n] = posted[n],
         \/ /\ call' = None /\ answered' = answered \cup {m}
            /\ m \in hurt' \/ posted'[m] = Upto(Size(m))
         \/ /\ answered' = answered
            /\ call'.out = call.out /\ call'.doing \in {"rich", "plain"}
            /\ call'.chunk \in 1 .. Size(m)
            /\ m \in hurt' \/ posted'[m] = Upto(call'.chunk - 1)
  PROVE  Answers'
<1>1. Answering(m) /\ stage[m] = "over" /\ m \notin answered /\ \A n \in Messages : Answering(n) => n = m
  <2>1. call.out.type \in {"text", "secret"}
    BY ChunkFields
  <2> QED BY <2>1 DEF Answers, SentAnswers, Answering, IsAnswer
<1>2. \A n \in Messages : Answering(n)' => n = m
  BY <1>1 DEF Answering, IsAnswer
<1>3. QueuedAnswers'
  BY <1>1, <1>2 DEF Answers, QueuedAnswers, Untouched, Fits, IsAnswer
<1>4. SentAnswers'
  BY <1>1, <1>2 DEF Answers, SentAnswers, Answering, IsAnswer, Fits, Size, Upto
<1>5. Unanswered'
  BY <1>1 DEF Answers, Unanswered, Untouched
<1>6. AnswerWhole'
  <2> SUFFICES ASSUME NEW n \in Messages, n \in answered', n \notin hurt'
               PROVE  posted'[n] = Upto(Size(n))
    <3>1. answered' \subseteq Messages
      BY DEF IInv, TypeOK
    <3> QED BY <3>1, Zenon DEF AnswerWhole, Upto, Size
  <2>1. CASE n = m
    BY <1>1, <2>1
  <2>2. CASE n # m
    BY <2>2 DEF Answers, AnswerWhole, Upto, Size
  <2> QED BY <2>1, <2>2
<1> QED BY <1>3, <1>4, <1>5, <1>6 DEF Answers

\* The chunk that is awaited, and what is there of the answer.
LEMMA AwaitedChunk ==
  ASSUME IInv, Answers, call # None, call.doing \in {"rich", "plain"}, NEW m, m = call.out.of
  PROVE  /\ m \in Messages /\ call \in CallRecord /\ call.chunk \in 1 .. Size(m)
         /\ Size(m) \in Nat /\ posted \in [Messages -> Seq(Nat)]
         /\ m \in hurt \/ posted[m] = Upto(call.chunk - 1)
         /\ call.out.type = "text" => Size(m) = Chunks[m]
         /\ call.out.type # "text" => Size(m) = 1
<1>1. /\ m \in Messages /\ call \in CallRecord /\ call.out.type \in {"text", "secret"}
      /\ posted \in [Messages -> Seq(Nat)]
  BY ChunkFields DEF IInv, TypeOK
<1>2. Answering(m)
  BY <1>1 DEF Answering, IsAnswer
<1> QED BY <1>1, <1>2, ChannelAssumption DEF ChannelAssumption, Answers, SentAnswers, Fits, Size

\* A chunk that appears follows those before it.
LEMMA UptoNext ==
  ASSUME NEW n \in Nat \ {0}
  PROVE  Append(Upto(n - 1), n) = Upto(n)
<1>1. Upto(n - 1) \in Seq(Nat) /\ Len(Upto(n - 1)) = n - 1 /\ Upto(n) \in Seq(Nat) /\ Len(Upto(n)) = n
  BY DEF Upto
<1>2. \A i \in 1 .. n : Append(Upto(n - 1), n)[i] = Upto(n)[i]
  BY <1>1, AppendProperties DEF Upto
<1> QED BY <1>1, <1>2, AppendProperties, SeqEqual

LEMMA AppearsNext ==
  ASSUME IInv, Answers, call # None, call.doing \in {"rich", "plain"}, Appears,
         NEW m, m = call.out.of
  PROVE  /\ \A n \in Messages \ {m} : posted'[n] = posted[n]
         /\ m \in hurt \/ posted'[m] = Upto(call.chunk)
<1>1. /\ m \in Messages /\ call.chunk \in Nat \ {0} /\ posted \in [Messages -> Seq(Nat)]
      /\ m \in hurt \/ posted[m] = Upto(call.chunk - 1)
  BY AwaitedChunk
<1>2. posted' = [posted EXCEPT ![m] = Append(@, call.chunk)]
  BY DEF Appears
<1> QED BY <1>1, <1>2, UptoNext

\* The next chunk is awaited, or the answer is complete.
LEMMA NextChunkAnswers ==
  ASSUME IInv, Answers, call # None, call.doing \in {"rich", "plain"}, NextChunk,
         NEW m, m = call.out.of,
         UNCHANGED <<stage, outbound>>, hurt \subseteq hurt',
         \A n \in Messages \ {m} : posted'[n] = posted[n],
         m \in hurt' \/ posted'[m] = Upto(call.chunk)
  PROVE  Answers'
<1>1. /\ m \in Messages /\ call \in CallRecord /\ call.chunk \in 1 .. Size(m) /\ Size(m) \in Nat
      /\ call.out.type = "text" => Size(m) = Chunks[m]
      /\ call.out.type # "text" => Size(m) = 1
  BY AwaitedChunk
<1>2. CASE call.out.type = "text" /\ call.chunk < Chunks[m]
  <2>1. call' = [call EXCEPT !.doing = "rich", !.chunk = @ + 1] /\ answered' = answered
    BY <1>2 DEF NextChunk
  <2>2. /\ call'.out = call.out /\ call'.doing = "rich"
        /\ call'.chunk = call.chunk + 1 /\ call'.chunk - 1 = call.chunk
    BY <1>1, <1>2, <2>1, NextChunkFields DEF CallRecord
  <2> QED BY <1>1, <1>2, <2>1, <2>2, ChunkAnswers
<1>3. CASE ~(call.out.type = "text" /\ call.chunk < Chunks[m])
  <2>1. call' = None /\ answered' = answered \cup {m} /\ call.chunk = Size(m)
    BY <1>1, <1>3 DEF NextChunk
  <2> QED BY <1>1, <2>1, ChunkAnswers
<1> QED BY <1>2, <1>3

LEMMA ChunksAnswer ==
  ASSUME IInv, Answers,
         RichSent \/ RichRefused \/ RichLost \/ \E r \in Results : PlainSent(r)
  PROVE  Answers'
<1> DEFINE m == call.out.of
<1>1. call # None /\ call.doing \in {"rich", "plain"} /\ UNCHANGED <<stage, outbound>>
  BY DEF RichSent, RichRefused, RichLost, PlainSent, Awaits, turns
<1>2. /\ m \in Messages /\ call \in CallRecord /\ call.chunk \in 1 .. Size(m)
      /\ m \in hurt \/ posted[m] = Upto(call.chunk - 1)
  BY <1>1, AwaitedChunk
<1> HIDE DEF m
<1>3. CASE RichSent
  BY <1>1, <1>3, AppearsNext, NextChunkAnswers DEF RichSent, past, m
<1>4. CASE RichRefused
  <2>1. call' = [call EXCEPT !.doing = "plain"] /\ UNCHANGED <<posted, answered, hurt>>
    BY <1>4 DEF RichRefused, texts, past
  <2>2. call'.out = call.out /\ call'.doing = "plain" /\ call'.chunk = call.chunk
    BY <1>2, <1>4, <2>1, RichRefusedKeeps DEF CallRecord
  <2> QED BY <1>1, <1>2, <2>1, <2>2, ChunkAnswers DEF m
<1>5. CASE RichLost
  <2>1. /\ call' = [call EXCEPT !.doing = "plain"] /\ Appears
        /\ hurt' = hurt \cup {m} /\ answered' = answered
    BY <1>5 DEF RichLost, IsHurt, m
  <2>2. call'.out = call.out /\ call'.doing = "plain" /\ call'.chunk = call.chunk
    BY <1>2, <2>1 DEF CallRecord
  <2> QED BY <1>1, <1>2, <2>1, <2>2, AppearsNext, ChunkAnswers DEF m
<1>6. ASSUME NEW r \in Results, PlainSent(r)
      PROVE  Answers'
  <2>1. NextChunk /\ IF r = "failed" THEN hurt' = hurt \cup {m} /\ UNCHANGED posted
                     ELSE Appears /\ UNCHANGED hurt
    BY <1>6 DEF PlainSent, IsHurt, m
  <2>2. CASE r = "failed"
    BY <1>1, <2>1, <2>2, NextChunkAnswers DEF m
  <2>3. CASE r # "failed"
    BY <1>1, <2>1, <2>3, AppearsNext, NextChunkAnswers DEF m
  <2> QED BY <2>2, <2>3
<1> QED BY <1>3, <1>4, <1>5, <1>6

LEMMA AnswersKept == IInv /\ Answers /\ [Next]_vars => Answers'
<1> SUFFICES ASSUME IInv, Answers, [Next]_vars PROVE Answers'
  OBVIOUS
<1>1. CASE Users \/ Handler
  BY <1>1, UsersAnswersStay, TapAnswersStay DEF Users, Handler
<1>2. CASE Dispatch
  BY <1>2, DispatchAnswers
<1>3. CASE Returns
  BY <1>3, BackAnswersStay, ChunksAnswer, StatusDeletedAnswers DEF Returns
<1>4. ASSUME NEW m \in Messages, Turn(m) \/ TypingLoopEnds(m)
      PROVE  Answers'
  BY <1>4, EmitAnswersStay, FinishAnswers, UsersAnswersStay DEF Turn
<1>5. CASE (\E q \in Questions : Ask(q)) \/ Stop \/ AppGone \/ UNCHANGED vars
  BY <1>5, EmitAnswersStay, BackAnswersStay, TapAnswersStay
<1> QED BY <1>1, <1>2, <1>3, <1>4, <1>5 DEF Next

\* Whatever falls back to plain text, is deleted or asked meanwhile: an answer
\* that was sent is in the chat chunk by chunk, each once and in their order,
\* unless the answer to a call was lost or a plain chunk failed
\* (telegram.py:239-288).
THEOREM AnswersAreWhole == Spec => []AnswerWhole
<1>1. Init => Answers
  BY DEF Init, Answers, QueuedAnswers, SentAnswers, Answering, Unanswered, Untouched, AnswerWhole
<1>2. IInv /\ Answers /\ [Next]_vars => Answers'
  BY AnswersKept
<1>3. Answers => AnswerWhole
  BY DEF Answers
<1> QED BY <1>1, <1>2, <1>3, ChannelInvariance, PTL DEF Spec

-----------------------------------------------------------------------------
(* What is left of a turn *)

\* A message that deletes the turn's status message, and one that ends its typing.
Clears(out, m) == out.type # "status" /\ About(out) = m
Quiets(out, m) == out.type \notin {"status", "clear"} /\ About(out) = m
StatusOf(out, m) == out.type = "status" /\ out.of = m
GoesOn(m) == stage[m] \in {"arriving", "running"}
Showing(m) == call # None /\ StatusOf(call.out, m)
Deleting(m) == call # None /\ call.doing = "deleting" /\ About(call.out) = m

\* The end of the turn, still to come or queued, deletes what is there ...
ToClear(m) == stage[m] = "running" \/ \E i \in DOMAIN outbound : Clears(outbound[i], m)
ToQuiet(m) == GoesOn(m) \/ \E i \in DOMAIN outbound : Quiets(outbound[i], m)

StatusesCleared ==
  \A m \in Messages : m \in status \/ Showing(m) =>
    m \notin Commands /\ (gateway = "up" => ToClear(m))

\* ... and what will be there: it is queued behind every progress event.
QueuedCleared ==
  \A i \in DOMAIN outbound, m \in Messages : StatusOf(outbound[i], m) =>
    /\ m \notin Commands
    /\ stage[m] = "running" \/ \E j \in DOMAIN outbound : j > i /\ Clears(outbound[j], m)

TypingQuieted == gateway = "up" => \A m \in typing : m \in Denied \cup silent \/ ToQuiet(m)

\* A turn has one status message in the chat, on record or being deleted.
ShownOnce ==
  gateway = "up" => \A m \in Messages :
    m \in hurt \/ shown[m] = IF m \in status \/ Deleting(m) THEN 1 ELSE 0

\* A new one is sent where there is none.
ShowingNew ==
  \A m \in Messages : Showing(m) /\ call.doing = "showing" => m \notin status

Rest == StatusesCleared /\ QueuedCleared /\ TypingQuieted /\ ShownOnce /\ ShowingNew

\* Steps that show and delete no status message.
LEMMA RestStays ==
  ASSUME Rest, UNCHANGED <<status, shown>>, hurt \subseteq hurt', silent \subseteq silent',
         gateway' = "up" => gateway = "up",
         \A m \in Messages : Showing(m)' => Showing(m) /\ call'.doing = call.doing,
         \A m \in Messages : Deleting(m)' <=> Deleting(m),
         QueueKept,
         \A i \in Added, m \in Messages : StatusOf(outbound'[i], m) =>
           m \notin Commands /\ stage'[m] = "running",
         \A m \in Messages : stage[m] = "running" => \/ stage'[m] = "running"
                                                     \/ m \in Commands \cap silent'
                                                     \/ \E j \in Added : Quiets(outbound'[j], m),
         \A m \in Messages : stage[m] = "arriving" => GoesOn(m)' \/ m \in Denied,
         \A m \in typing' : m \in typing \/ m \in Denied \/ GoesOn(m)',
         typing \subseteq Messages
  PROVE  Rest'
<1>1. \A m \in Messages : (\E j \in Added : Quiets(outbound'[j], m)) =>
        \E j \in Added : Clears(outbound'[j], m)
  BY DEF Quiets, Clears
<1>2. ASSUME NEW m \in Messages, m \notin Commands, ToClear(m)
      PROVE  ToClear(m)'
  <2>1. CASE stage[m] = "running"
    BY <1>1, <1>2, <2>1 DEF ToClear, Clears, About, Added
  <2>2. CASE \E i \in DOMAIN outbound : Clears(outbound[i], m)
    BY <2>2 DEF QueueKept, ToClear, Clears, About
  <2> QED BY <1>2, <2>1, <2>2 DEF ToClear
<1>3. StatusesCleared'
  BY <1>2 DEF Rest, StatusesCleared
<1>4. QueuedCleared'
  <2> SUFFICES ASSUME NEW i \in DOMAIN outbound', NEW m \in Messages, StatusOf(outbound'[i], m)
               PROVE  /\ m \notin Commands
                      /\ \/ stage'[m] = "running"
                         \/ \E j \in DOMAIN outbound' : j > i /\ Clears(outbound'[j], m)
    BY DEF QueuedCleared, StatusOf, Clears, About
  <2>1. CASE i \in Added
    BY <2>1
  <2>2. CASE i \in DOMAIN outbound /\ outbound'[i] = outbound[i]
    <3>1. /\ m \notin Commands
          /\ stage[m] = "running" \/ \E j \in DOMAIN outbound : j > i /\ Clears(outbound[j], m)
      BY <2>2 DEF Rest, QueuedCleared
    <3>2. \A j \in DOMAIN outbound : Clears(outbound[j], m) => j \in DOMAIN outbound' /\ Clears(outbound'[j], m)
      BY DEF QueueKept
    <3>3. \A j \in Added : j \in DOMAIN outbound' /\ i < j
      BY <2>2 DEF QueueKept, Added
    <3>4. CASE stage[m] = "running"
      BY <1>1, <3>1, <3>3, <3>4
    <3> QED BY <3>1, <3>2, <3>4
  <2> QED BY <2>1, <2>2 DEF QueueKept, Added
<1>5. TypingQuieted'
  <2> SUFFICES ASSUME gateway' = "up", NEW m \in typing', m \notin Denied, m \notin silent'
               PROVE  ToQuiet(m)'
    BY DEF TypingQuieted
  <2>1. CASE GoesOn(m)'
    BY <2>1 DEF ToQuiet
  <2>2. CASE m \in typing /\ ~GoesOn(m)'
    <3>1. m \in Messages /\ ToQuiet(m)
      BY <2>2 DEF Rest, TypingQuieted
    <3>2. CASE GoesOn(m)
      BY <2>2, <3>1, <3>2 DEF ToQuiet, GoesOn, Quiets, About, Added
    <3>3. CASE \E i \in DOMAIN outbound : Quiets(outbound[i], m)
      BY <3>3 DEF QueueKept, ToQuiet, Quiets, About
    <3> QED BY <3>1, <3>2, <3>3 DEF ToQuiet
  <2> QED BY <2>1, <2>2
<1>6. ShownOnce' /\ ShowingNew'
  BY DEF Rest, ShownOnce, ShowingNew
<1> QED BY <1>3, <1>4, <1>5, <1>6 DEF Rest

\* Where nothing is queued, all of it stays.
LEMMA NothingAdded ==
  ASSUME TypeOK, outbound' = outbound
  PROVE  QueueKept /\ Added = {}
BY DEF QueueKept, Added

LEMMA UsersRestStays ==
  ASSUME IInv, Rest, NEW m \in Messages,
         Arrive(m) \/ Downloaded(m) \/ TypingLoopEnds(m) \/ Raise(m)
  PROVE  Rest'
<1>1. UNCHANGED <<status, shown, call, outbound, gateway>> /\ hurt \subseteq hurt' /\ silent \subseteq silent'
  BY DEF Arrive, Downloaded, TypingLoopEnds, Raise, marks, past
<1>2. QueueKept /\ Added = {} /\ typing \subseteq Messages
  BY <1>1, NothingAdded DEF IInv, TypeOK
<1>3. \A n \in Messages : stage[n] = "running" => stage'[n] = "running" \/ n \in Commands \cap silent'
  BY DEF IInv, TypeOK, Arrive, Downloaded, TypingLoopEnds, Raise, Goes, Published, turns
<1>4. \A n \in Messages : stage[n] = "arriving" => GoesOn(n)' \/ n \in Denied
  BY DEF IInv, TypeOK, Arrive, Downloaded, TypingLoopEnds, Raise, Goes, Published, GoesOn, turns
<1>5. \A n \in typing' : n \in typing \/ n \in Denied \/ GoesOn(n)'
  BY DEF IInv, TypeOK, Arrive, Downloaded, TypingLoopEnds, Raise, Goes, Published, GoesOn
<1>6. \A n \in Messages : (Showing(n)' => Showing(n) /\ call'.doing = call.doing) /\ (Deleting(n)' <=> Deleting(n))
  BY <1>1 DEF Showing, Deleting
<1> QED BY <1>1, <1>2, <1>3, <1>4, <1>5, <1>6, RestStays

LEMMA TapRestStays ==
  ASSUME IInv, Rest,
         \/ \E q \in Questions : Tap(q)
         \/ \E r \in Results : TapAnswered(r) \/ TapDeleted(r)
         \/ AppGone \/ UNCHANGED vars
  PROVE  Rest'
<1>1. UNCHANGED <<status, shown, call, outbound, stage, typing, hurt, silent>>
      /\ (gateway' = "up" => gateway = "up")
  BY DEF Tap, TapAnswered, TapDeleted, AppGone, vars, turns, marks, past
<1>2. QueueKept /\ Added = {} /\ typing \subseteq Messages
  BY <1>1, NothingAdded DEF IInv, TypeOK
<1>3. \A n \in Messages : (Showing(n)' => Showing(n) /\ call'.doing = call.doing) /\ (Deleting(n)' <=> Deleting(n))
  BY <1>1 DEF Showing, Deleting
<1> QED BY <1>1, <1>2, <1>3, RestStays DEF GoesOn

\* Progress, and the end of a turn, which clears what progress has shown.
LEMMA TurnRestStays ==
  ASSUME IInv, Rest, NEW m \in Messages, Progress(m) \/ Finish(m)
  PROVE  Rest'
<1> DEFINE answer == Out(IF m \in Misses THEN "secret" ELSE "text", m)
           news == IF Progress(m) THEN <<Out("status", m)>>
                   ELSE IF m \in Commands THEN <<answer>> ELSE <<Out("clear", m), answer>>
<1>1. /\ UNCHANGED <<status, shown, call, gateway, typing, hurt, silent>>
      /\ stage[m] = "running"
      /\ Progress(m) => m \notin Commands /\ stage' = stage
      /\ ~Progress(m) => stage' = [stage EXCEPT ![m] = "over"]
  BY DEF Progress, Finish, Goes, marks, past
<1>2. Emit(news)
  BY DEF Progress, Finish
<1>3. /\ answer \in Outbound /\ Quiets(answer, m) /\ \A n \in Messages : ~StatusOf(answer, n)
      /\ Out("clear", m) \in Outbound /\ \A n \in Messages : ~StatusOf(Out("clear", m), n)
      /\ Out("status", m) \in Outbound /\ \A n \in Messages : StatusOf(Out("status", m), n) => n = m
  BY OutIsOutbound DEF Quiets, StatusOf, About
<1>4. /\ news \in Seq(Outbound)
      /\ Progress(m) => \A k \in DOMAIN news, n \in Messages : StatusOf(news[k], n) => n = m
      /\ ~Progress(m) => \A k \in DOMAIN news, n \in Messages : ~StatusOf(news[k], n)
      /\ ~Progress(m) => \E k \in DOMAIN news : Quiets(news[k], m)
  <2> HIDE DEF answer
  <2>1. CASE Progress(m)
    BY <1>3, <2>1
  <2>2. CASE ~Progress(m) /\ m \in Commands
    BY <1>3, <2>2
  <2>3. CASE ~Progress(m) /\ m \notin Commands
    <3>1. news = <<Out("clear", m), answer>>
      BY <2>3
    <3> HIDE DEF news
    <3>2. 2 \in DOMAIN news /\ Quiets(news[2], m)
      BY <1>3, <3>1
    <3> QED BY <1>3, <2>3, <3>1, <3>2
  <2> QED BY <2>1, <2>2, <2>3
<1> HIDE DEF news, answer
<1>5. /\ QueueKept
      /\ \A i \in Added : i - Len(outbound) \in DOMAIN news /\ outbound'[i] = news[i - Len(outbound)]
      /\ \A k \in DOMAIN news : Len(outbound) + k \in Added /\ outbound'[Len(outbound) + k] = news[k]
  BY <1>2, <1>4, EmitGrows DEF IInv
<1>6. \A i \in Added, n \in Messages : StatusOf(outbound'[i], n) =>
        n \notin Commands /\ stage'[n] = "running"
  BY <1>1, <1>4, <1>5
<1>7. \A n \in Messages : stage[n] = "running" =>
        stage'[n] = "running" \/ \E j \in Added : Quiets(outbound'[j], n)
  BY <1>1, <1>4, <1>5 DEF IInv, TypeOK
<1>8. \A n \in Messages : stage[n] = "arriving" => GoesOn(n)'
  BY <1>1 DEF IInv, TypeOK, GoesOn
<1>9. \A n \in Messages : (Showing(n)' => Showing(n) /\ call'.doing = call.doing) /\ (Deleting(n)' <=> Deleting(n))
  BY <1>1 DEF Showing, Deleting
<1>10. typing \subseteq Messages
  BY DEF IInv, TypeOK
<1> QED BY <1>1, <1>5, <1>6, <1>7, <1>8, <1>9, <1>10, RestStays

LEMMA AskRestStays ==
  ASSUME IInv, Rest, NEW q \in Questions, Ask(q)
  PROVE  Rest'
<1> DEFINE board == Out("board", q)
<1>1. board \in Outbound /\ board.type = "board"
  BY OutIsOutbound DEF IsBoard
<1>2. Emit(<<board>>) /\ UNCHANGED <<status, shown, call, gateway, stage, typing, hurt, silent>>
  BY DEF Ask, marks, past
<1> HIDE DEF board
<1>3. <<board>> \in Seq(Outbound) /\ \A k \in DOMAIN <<board>> : <<board>>[k] = board
  BY <1>1
<1>4. QueueKept /\ \A i \in Added : outbound'[i] = board
  BY <1>2, <1>3, EmitGrows DEF IInv
<1>5. \A i \in Added, n \in Messages : ~StatusOf(outbound'[i], n)
  BY <1>1, <1>4 DEF StatusOf
<1>6. typing \subseteq Messages
  BY DEF IInv, TypeOK
<1>7. \A n \in Messages : (Showing(n)' => Showing(n) /\ call'.doing = call.doing) /\ (Deleting(n)' <=> Deleting(n))
  BY <1>2 DEF Showing, Deleting
<1> QED BY <1>2, <1>4, <1>5, <1>6, <1>7, RestStays DEF GoesOn

\* What else the dispatcher awaits comes back.
LEMMA BackRestStays ==
  ASSUME IInv, Rest,
         \/ Edited \/ BoardShown \/ RichSent \/ RichRefused \/ RichLost
         \/ \E r \in Results : BoardSent(r) \/ PlainSent(r)
  PROVE  Rest'
<1>1. /\ UNCHANGED <<status, shown, outbound, gateway, stage, typing, silent>> /\ hurt \subseteq hurt'
      /\ call # None /\ call.doing \in {"editing", "asking", "shown", "rich", "plain"}
  BY DEF Edited, BoardShown, RichSent, RichRefused, RichLost, BoardSent, PlainSent, IsHurt, Awaits,
         turns, marks, past
<1>2. CASE Edited \/ \E r \in Results : BoardSent(r)
  <2>1. call' = None
    BY <1>2 DEF Edited, BoardSent
  <2>2. \A n \in Messages : ~Showing(n)' /\ ~Deleting(n)' /\ ~Deleting(n)
    BY <1>1, <2>1 DEF Showing, Deleting
  <2> QED BY <1>1, <2>2, NothingAdded, RestStays DEF IInv, TypeOK, GoesOn
<1>3. CASE BoardShown \/ RichSent \/ RichRefused \/ RichLost \/ \E r \in Results : PlainSent(r)
  <2>1. call.out.type # "status"
    BY <1>3 DEF IInv, CallShape, BoardShown, RichSent, RichRefused, RichLost, PlainSent, Awaits
  <2>2. call' = None \/ (call'.out = call.out /\ call'.doing \in {"shown", "rich", "plain"})
    <3>1. CASE BoardShown
      BY <1>1, <3>1, CallFields DEF IInv, BoardShown, CallRecord
    <3>2. CASE RichRefused \/ RichLost
      BY <1>1, <3>2, CallFields DEF IInv, RichRefused, RichLost, CallRecord
    <3>3. CASE RichSent \/ \E r \in Results : PlainSent(r)
      BY <3>3, NextChunkFields DEF RichSent, PlainSent, Awaits
    <3> QED BY <1>3, <3>1, <3>2, <3>3
  <2>3. \A n \in Messages : ~Showing(n)' /\ ~Deleting(n)' /\ ~Deleting(n)
    BY <1>1, <2>1, <2>2 DEF Showing, Deleting, StatusOf
  <2> QED BY <1>1, <2>3, NothingAdded, RestStays DEF IInv, TypeOK, GoesOn
<1> QED BY <1>2, <1>3

\* A status message is shown: where its id is known it is on record.
LEMMA StatusShownRest ==
  ASSUME IInv, Rest, NEW r \in Results, StatusShown(r)
  PROVE  Rest'
<1> DEFINE m == call.out.of
<1>1. /\ call # None /\ call.doing = "showing" /\ call.out.type = "status"
      /\ m \in Messages /\ call' = None
      /\ UNCHANGED <<gateway, stage, outbound, typing, silent>>
      /\ shown' = (IF r = "failed" THEN shown ELSE [shown EXCEPT ![m] = @ + 1])
      /\ status' = (IF r = "ok" THEN status \cup {m} ELSE status)
      /\ hurt' = (IF r = "lost" THEN hurt \cup {m} ELSE hurt)
  BY CallFields, OutboundFields DEF IInv, CallShape, StatusShown, Awaits, turns
<1>2. Showing(m) /\ m \notin status /\ \A n \in Messages : ~Deleting(n) /\ ~Deleting(n)' /\ ~Showing(n)'
  BY <1>1 DEF Rest, ShowingNew, Showing, StatusOf, Deleting
<1>3. \A n \in Messages : ToClear(n)' <=> ToClear(n)
  BY <1>1 DEF ToClear, Clears, About
<1>4. \A n \in Messages : ToQuiet(n)' <=> ToQuiet(n)
  BY <1>1 DEF ToQuiet, GoesOn, Quiets, About
<1> HIDE DEF m
<1>5. StatusesCleared'
  BY <1>1, <1>2, <1>3 DEF Rest, StatusesCleared
<1>6. QueuedCleared'
  BY <1>1 DEF Rest, QueuedCleared, StatusOf, Clears, About
<1>9. TypingQuieted'
  BY <1>1, <1>4 DEF IInv, TypeOK, Rest, TypingQuieted
<1>7. ShownOnce'
  BY <1>1, <1>2 DEF IInv, TypeOK, Rest, ShownOnce, Results
<1>8. ShowingNew'
  BY <1>2 DEF ShowingNew
<1> QED BY <1>5, <1>6, <1>7, <1>8, <1>9 DEF Rest

LEMMA StatusDeletedRest ==
  ASSUME IInv, Rest, NEW r \in Results, StatusDeleted(r)
  PROVE  Rest'
<1> DEFINE out == call.out
           m == About(out)
<1>1. /\ call # None /\ call.doing = "deleting" /\ out \in Outbound /\ out.type # "status"
      /\ m \in Messages /\ m \notin status /\ Post(out)
      /\ UNCHANGED <<gateway, stage, outbound, typing, status, silent>>
      /\ shown' = (IF r = "failed" THEN shown ELSE [shown EXCEPT ![m] = @ - 1])
      /\ hurt' = (IF r = "failed" THEN hurt \cup {m} ELSE hurt)
  BY CallFields, OutboundFields DEF IInv, CallShape, StatusCounted, StatusDeleted, Awaits, turns
<1>2. \A n \in Messages : (Deleting(n) <=> n = m) /\ ~Showing(n)
  BY <1>1 DEF Deleting, Showing, StatusOf
<1> HIDE DEF m, out
<1>3. \A n \in Messages : ~Deleting(n)' /\ ~Showing(n)'
  BY <1>1, PostFields DEF Deleting, Showing, StatusOf
<1>4. \A n \in Messages : (ToClear(n)' <=> ToClear(n)) /\ (ToQuiet(n)' <=> ToQuiet(n))
  BY <1>1 DEF ToClear, Clears, ToQuiet, GoesOn, Quiets, About
<1>5. StatusesCleared'
  BY <1>1, <1>3, <1>4 DEF Rest, StatusesCleared
<1>6. QueuedCleared'
  BY <1>1 DEF Rest, QueuedCleared, StatusOf, Clears, About
<1>9. TypingQuieted'
  BY <1>1, <1>4 DEF IInv, TypeOK, Rest, TypingQuieted
<1>7. ShownOnce'
  BY <1>1, <1>2, <1>3 DEF IInv, TypeOK, Rest, ShownOnce
<1>8. ShowingNew'
  BY <1>3 DEF ShowingNew
<1> QED BY <1>5, <1>6, <1>7, <1>8, <1>9 DEF Rest

LEMMA StopRest ==
  ASSUME Rest, Stop
  PROVE  Rest'
<1>1. /\ outbound' = <<>> /\ call' = None /\ gateway' = "stopping" /\ UNCHANGED status
      /\ \A n \in Messages : ~Showing(n)'
  BY DEF Stop, marks, Showing
<1> QED BY <1>1 DEF Rest, StatusesCleared, QueuedCleared, TypingQuieted, ShownOnce, ShowingNew

\* The dispatcher takes a progress event: what clears it comes later.  Or it takes
\* what clears the turn's status message, and ends its typing.
LEMMA DispatchRest ==
  ASSUME IInv, Rest, Dispatch
  PROVE  Rest'
<1> DEFINE out == outbound[1]
           m == About(out)
<1>1. /\ 1 \in DOMAIN outbound /\ out \in Outbound /\ call = None /\ gateway = "up"
      /\ \A i \in DOMAIN outbound' :
           i \in Nat \ {0} /\ i + 1 \in DOMAIN outbound /\ outbound'[i] = outbound[i + 1]
      /\ \A i \in DOMAIN outbound : i \in Nat /\ (i = 1 \/ i - 1 \in DOMAIN outbound')
      /\ UNCHANGED <<gateway, stage, shown, hurt, silent>>
      /\ IF out.type = "status" THEN SendStatus(out.of) ELSE Send(out)
  BY DispatchFields, LenProperties DEF IInv, TypeOK
<1>2. m \in Messages /\ (out.type = "status" => m = out.of)
  BY <1>1, OutboundFields
<1>3. \A i \in DOMAIN outbound : i = 1 \/ (i - 1 \in DOMAIN outbound' /\ outbound'[i - 1] = outbound[i])
  BY <1>1
<1>4. \A n \in Messages : ~Showing(n) /\ ~Deleting(n)
  BY <1>1 DEF Showing, Deleting
<1>5. \A n \in Messages : ToClear(n) => ToClear(n)' \/ Clears(out, n)
  BY <1>1, <1>3 DEF ToClear, Clears, About
<1>6. \A n \in Messages : ToQuiet(n) => ToQuiet(n)' \/ Quiets(out, n)
  BY <1>1, <1>3 DEF ToQuiet, GoesOn, Quiets, About
<1>7. QueuedCleared'
  <2> SUFFICES ASSUME NEW i \in DOMAIN outbound', NEW n \in Messages, StatusOf(outbound'[i], n)
               PROVE  /\ n \notin Commands
                      /\ \/ stage'[n] = "running"
                         \/ \E j \in DOMAIN outbound' : j > i /\ Clears(outbound'[j], n)
    BY DEF QueuedCleared, StatusOf, Clears, About
  <2>1. /\ i \in Nat \ {0} /\ i + 1 \in DOMAIN outbound /\ outbound'[i] = outbound[i + 1]
    BY <1>1
  <2>2. /\ n \notin Commands
        /\ stage[n] = "running" \/ \E j \in DOMAIN outbound : j > i + 1 /\ Clears(outbound[j], n)
    BY <2>1 DEF Rest, QueuedCleared
  <2>3. ASSUME NEW j \in DOMAIN outbound, j > i + 1, Clears(outbound[j], n)
        PROVE  \E k \in DOMAIN outbound' : k > i /\ Clears(outbound'[k], n)
    <3>1. j - 1 \in DOMAIN outbound' /\ outbound'[j - 1] = outbound[j] /\ j - 1 > i
      BY <1>1, <1>3, <2>1, <2>3
    <3> QED BY <2>3, <3>1
  <2> QED BY <1>1, <2>2, <2>3
<1>8. out.type = "status" => \A n \in Messages : n = m => n \notin Commands /\ ToClear(n)'
  <2> SUFFICES ASSUME out.type = "status", NEW n \in Messages, n = m
               PROVE  n \notin Commands /\ ToClear(n)'
    OBVIOUS
  <2>1. StatusOf(out, n)
    BY <1>2 DEF StatusOf
  <2>2. /\ n \notin Commands
        /\ stage[n] = "running" \/ \E j \in DOMAIN outbound : j > 1 /\ Clears(outbound[j], n)
    BY <1>1, <1>2, <2>1 DEF Rest, QueuedCleared
  <2>3. ASSUME NEW j \in DOMAIN outbound, j > 1, Clears(outbound[j], n)
        PROVE  \E k \in DOMAIN outbound' : Clears(outbound'[k], n)
    BY <1>3, <2>3
  <2>4. stage'[n] = "running" \/ \E k \in DOMAIN outbound' : Clears(outbound'[k], n)
    BY <1>1, <2>2, <2>3
  <2> QED BY <2>2, <2>4 DEF ToClear, Clears, About
<1> HIDE DEF out, m
<1>9. CASE out.type = "status"
  <2>1. /\ UNCHANGED <<typing, status>>
        /\ call' = None \/ /\ call'.out = Out("status", m)
                           /\ call'.doing = IF m \in status THEN "editing" ELSE "showing"
    BY <1>1, <1>2, <1>9 DEF SendStatus
  <2>2. \A n \in Messages : ~Deleting(n)' /\ (Showing(n)' => n = m /\ (call'.doing = "showing" => m \notin status))
    BY <2>1 DEF Deleting, Showing, StatusOf, Out
  <2>3. StatusesCleared'
    <3> SUFFICES ASSUME NEW n \in Messages, n \in status \/ n = m
                 PROVE  n \notin Commands /\ (gateway' = "up" => ToClear(n)')
      BY <2>1, <2>2 DEF StatusesCleared
    <3>1. CASE n = m
      BY <1>8, <1>9, <3>1
    <3>2. CASE n \in status
      BY <1>1, <1>5, <1>9, <3>2 DEF Rest, StatusesCleared, Clears
    <3> QED BY <3>1, <3>2
  <2>4. TypingQuieted'
    BY <1>1, <1>6, <1>9, <2>1 DEF IInv, TypeOK, Rest, TypingQuieted, Quiets
  <2>5. ShownOnce' /\ ShowingNew'
    BY <1>1, <1>4, <2>1, <2>2 DEF Rest, ShownOnce, ShowingNew
  <2> QED BY <1>7, <2>3, <2>4, <2>5 DEF Rest
<1>10. CASE out.type # "status"
  <2>1. /\ status' = status \ {m}
        /\ typing' = IF out.type = "clear" THEN typing ELSE typing \ {m}
    BY <1>1, <1>10 DEF Send, m
  <2>2. \A n \in Messages : ~Showing(n)' /\ (Deleting(n)' <=> n = m /\ m \in status)
    <3>1. CASE m \in status
      <4>1. call' = [out |-> out, doing |-> "deleting", chunk |-> 0]
        BY <1>1, <1>10, <3>1 DEF Send, m
      <4>2. call' # None
        BY <1>1, <4>1, NoneIsNoCall DEF CallRecord, Doings
      <4> QED BY <1>10, <3>1, <4>1, <4>2 DEF Showing, Deleting, StatusOf, m
    <3>2. CASE m \notin status
      <4>1. Post(out)
        BY <1>1, <1>10, <3>2 DEF Send, m
      <4> QED BY <1>1, <1>10, <3>2, <4>1, PostFields DEF Showing, Deleting, StatusOf
    <3> QED BY <3>1, <3>2
  <2>3. StatusesCleared'
    BY <1>1, <1>5, <2>1, <2>2 DEF Rest, StatusesCleared, Clears, m
  <2>4. TypingQuieted'
    BY <1>1, <1>6, <2>1 DEF IInv, TypeOK, Rest, TypingQuieted, Quiets, m
  <2>5. ShownOnce' /\ ShowingNew'
    BY <1>1, <1>4, <2>1, <2>2 DEF Rest, ShownOnce, ShowingNew
  <2> QED BY <1>7, <2>3, <2>4, <2>5 DEF Rest
<1> QED BY <1>9, <1>10

LEMMA RestKept == IInv /\ Rest /\ [Next]_vars => Rest'
<1> SUFFICES ASSUME IInv, Rest, [Next]_vars PROVE Rest'
  OBVIOUS
<1>1. CASE Users \/ Handler
  BY <1>1, UsersRestStays, TapRestStays DEF Users, Handler
<1>2. CASE Dispatch
  BY <1>2, DispatchRest
<1>3. CASE Returns
  BY <1>3, BackRestStays, StatusShownRest, StatusDeletedRest DEF Returns
<1>4. ASSUME NEW m \in Messages, Turn(m) \/ TypingLoopEnds(m)
      PROVE  Rest'
  BY <1>4, TurnRestStays, UsersRestStays DEF Turn
<1>5. CASE (\E q \in Questions : Ask(q)) \/ Stop \/ AppGone \/ UNCHANGED vars
  BY <1>5, AskRestStays, StopRest, TapRestStays
<1> QED BY <1>1, <1>2, <1>3, <1>4, <1>5 DEF Next

\* However progress, keyboards, answers and an emptied _status_done
\* interleave: status messages never stack, and once everything a turn emitted
\* was sent neither one nor typing is left, but for faults, denied sources and
\* commands that raise (telegram.py:239-288, 428, 461).
THEOREM NothingIsLeft == Spec => []RestIsClean
<1>1. Init => Rest
  BY DEF Init, Rest, StatusesCleared, QueuedCleared, TypingQuieted, ShownOnce, ShowingNew,
         Showing, Deleting
<1>2. IInv /\ Rest /\ [Next]_vars => Rest'
  BY RestKept
<1>3. IInv /\ Rest => RestIsClean
  <2> SUFFICES ASSUME IInv, Rest, gateway = "up", NEW m \in Messages
               PROVE  /\ m \in hurt \/ shown[m] <= 1
                      /\ Pending(m) \/ m \in hurt \/ shown[m] = 0
                      /\ Pending(m) \/ m \in Denied \cup silent \/ m \notin typing
    BY DEF RestIsClean
  <2>1. m \in hurt \/ shown[m] = IF m \in status \/ Deleting(m) THEN 1 ELSE 0
    BY DEF Rest, ShownOnce
  <2>2. Deleting(m) => Pending(m)
    BY DEF Deleting, Pending
  <2>3. m \in status => Pending(m)
    BY DEF Rest, StatusesCleared, ToClear, Clears, Pending
  <2>4. m \in typing => m \in Denied \cup silent \/ Pending(m)
    BY DEF Rest, TypingQuieted, ToQuiet, GoesOn, Quiets, Pending
  <2> QED BY <2>1, <2>2, <2>3, <2>4
<1> QED BY <1>1, <1>2, <1>3, ChannelInvariance, PTL DEF Spec
=============================================================================
