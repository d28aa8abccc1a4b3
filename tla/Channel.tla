------------------------------ MODULE Channel ------------------------------
(***************************************************************************)
(* What a chat sees: the Telegram channel (channels/telegram.py), the      *)
(* dispatcher that feeds it (channels/manager.py), the messages the        *)
(* orchestrator emits for a turn, and the gateway's shutdown.              *)
(*                                                                         *)
(* Three parties act: the library's update handler, which runs one         *)
(* callback at a time; the dispatcher, which sends one outbound message at *)
(* a time; and the turns.  Every call of the Telegram API is awaited: it   *)
(* may fail, and it may take effect although its answer is lost.           *)
(* A message's name stands for its correlation id.  Turns no update starts *)
(* (of cron, the second run of a request that missed a secret) emit the    *)
(* same messages, and nobody types for them.                               *)
(***************************************************************************)
EXTENDS Naturals, Sequences, FiniteSets

CONSTANTS
  Messages,   \* what starts a turn or a command
  Commands,   \* /new, and values of secrets: answered without progress
  Denied,     \* from sources that allow_from does not name
  WithFile,   \* that carry a file
  Misses,     \* requests that miss a secret
  Questions,  \* approvals
  Asker,      \* the request whose script asks it
  Chunks,     \* message -> the number of chunks of its answer
  Phases,     \* bound: message -> the progress events of its turn
  MaxTaps,    \* bound: taps on buttons
  DoneLimit,  \* the size at which _status_done is emptied (500)
  MaxFaults,  \* bound: failed or lost calls, and handlers that raise
  None

ASSUME ChannelAssumption ==
  /\ Denied \subseteq Messages /\ WithFile \subseteq Messages /\ Commands \subseteq Messages
  /\ Misses \subseteq Messages \ (Commands \cup Denied)
  /\ Asker \in [Questions -> Messages]
  /\ Chunks \in [Messages -> Nat]
  /\ Phases \in [Messages -> Nat]
  /\ {MaxTaps, DoneLimit, MaxFaults} \subseteq Nat
  /\ Messages \cap Questions = {}

\* OutboundMessage: its type, and the turn or the question it is about.
Outbound ==
  [type : {"status", "clear", "text", "secret"}, of : Messages]
    \cup [type : {"board"}, of : Questions]
Out(type, of) == [type |-> type, of |-> of]
\* correlation_id
About(out) == IF out.type = "board" THEN Asker[out.of] ELSE out.of

\* The message being sent, what its send() awaits, and the chunk it is at.
Doings == {"editing", "showing", "deleting", "asking", "shown", "rich", "plain"}
CallRecord == [out : Outbound, doing : Doings, chunk : Nat]

ASSUME NoneIsNoCall == None \notin CallRecord

VARIABLES
  gateway,  \* "up", "stopping" while the channel stops, "down" with _app None
  stage,    \* where each turn is
  progress, \* the progress events it emitted
  asked,    \* the approvals that were asked
  outbound, \* bus.outbound
  call,     \* the message being sent, and what its send() awaits; or None
  typing,   \* _typing_indicators: the loops that run
  done,     \* _status_done
  status,   \* _status_messages: the turns with a status message on record
  shown,    \* the number of "..." of a turn in the chat
  short,    \* _short_to_full_approval_id
  boards,   \* _approval_messages: the keyboards on record
  visible,  \* the keyboards in the chat
  tap,      \* the callback being handled, or None
  taps,     \* how many there were
  told,     \* history: how often the gate was told the answer to a question
  slipped,  \* history: keyboards tapped before they were on record, or not deleted
  posted,   \* the chunks of a turn's answer in the chat
  answered, \* history: the turns whose answer was sent
  hurt,     \* history: turns that a fault left a trace of
  silent,   \* history: turns that ended without a word
  faults    \* how many there were

turns == <<stage, progress, asked>>
marks == <<done, status, shown>>
keys  == <<short, boards, visible, tap, taps, told, slipped>>
texts == <<posted, answered>>
past  == <<hurt, silent, faults>>
vars  == <<gateway, turns, outbound, call, typing, marks, keys, texts, past>>

Fault == faults < MaxFaults /\ faults' = faults + 1
\* What an awaited API call may come to.
Results == {"ok", "failed", "lost"}
Came(r) == IF r = "ok" THEN UNCHANGED faults ELSE Fault
Emit(outs) == outbound' = outbound \o outs
Goes(m, to) == stage' = [stage EXCEPT ![m] = to]

-----------------------------------------------------------------------------
(* The update handler: one callback at a time *)

HandlerIdle == tap = None /\ \A m \in Messages : stage[m] # "arriving"

\* _handle_message: a denied source is forgotten here.
Published(m) == IF m \in Denied THEN "over" ELSE "running"

\* _on_message, _forward_command: typing starts; a file is downloaded first.
Arrive(m) ==
  /\ gateway # "down" /\ HandlerIdle
  /\ stage[m] = "unsent"
  /\ typing' = typing \cup {m}
  /\ Goes(m, IF m \in WithFile THEN "arriving" ELSE Published(m))
  /\ UNCHANGED <<gateway, progress, asked, outbound, call, marks, keys, texts, past>>

\* _download_media returns, with the file or without.
Downloaded(m) ==
  /\ stage[m] = "arriving"
  /\ Goes(m, Published(m))
  /\ UNCHANGED <<gateway, progress, asked, outbound, call, typing, marks, keys, texts, past>>

\* _on_callback_query: query.answer() is awaited.  A tap may be delivered after
\* its keyboard has gone.
Tap(q) ==
  /\ gateway # "down" /\ HandlerIdle /\ taps < MaxTaps
  /\ q \in visible \/ told[q] > 0
  /\ tap' = [of |-> q, doing |-> "answering"]
  /\ taps' = taps + 1
  /\ UNCHANGED <<gateway, turns, outbound, call, typing, marks, short, boards, visible, told, slipped, texts, past>>

\* The callback goes on to delete the keyboard on record, or else it puts
\* /approve into bus.inbound, with an id the gate knows or not.
TapGoesOn(q, known) ==
  IF known /\ q \in boards
  THEN /\ boards' = boards \ {q}
       /\ tap' = [tap EXCEPT !.doing = "deleting"]
       /\ UNCHANGED <<told, slipped>>
  ELSE /\ told' = IF known THEN [told EXCEPT ![q] = @ + 1] ELSE told
       /\ slipped' = IF known THEN slipped \cup {q} ELSE slipped
       /\ tap' = None
       /\ UNCHANGED boards

\* Mutant: the id stays in the map.
TapAnsweredKeeps(r) ==
  /\ tap # None /\ tap.doing = "answering"
  /\ Came(r)
  /\ IF r = "ok" THEN TapGoesOn(tap.of, tap.of \in short)
     ELSE tap' = None /\ UNCHANGED <<boards, told, slipped>>
  /\ UNCHANGED <<gateway, turns, outbound, call, typing, marks, short, visible, taps, texts, hurt, silent>>

\* The id is popped: the first tap has the approval's id, any other the short
\* one, which nobody knows.  If answer() raises, the callback is over.
TapAnswered(r) ==
  /\ tap # None /\ tap.doing = "answering"
  /\ Came(r)
  /\ IF r = "ok"
     THEN TapGoesOn(tap.of, tap.of \in short) /\ short' = short \ {tap.of}
     ELSE tap' = None /\ UNCHANGED <<short, boards, told, slipped>>
  /\ UNCHANGED <<gateway, turns, outbound, call, typing, marks, visible, taps, texts, hurt, silent>>

\* delete_message of the keyboard, whose failure is only logged; then /approve.
TapDeleted(r) ==
  /\ tap # None /\ tap.doing = "deleting"
  /\ Came(r)
  /\ visible' = IF r = "failed" THEN visible ELSE visible \ {tap.of}
  /\ slipped' = IF r = "failed" THEN slipped \cup {tap.of} ELSE slipped
  /\ told' = [told EXCEPT ![tap.of] = @ + 1]
  /\ tap' = None
  /\ UNCHANGED <<gateway, turns, outbound, call, typing, marks, short, boards, taps, texts, hurt, silent>>

-----------------------------------------------------------------------------
(* Turns, as the orchestrator reports them while there is a dispatcher *)

\* on_event(progress)
Progress(m) ==
  /\ gateway = "up" /\ stage[m] = "running" /\ m \notin Commands
  /\ progress[m] < Phases[m]
  /\ progress' = [progress EXCEPT ![m] = @ + 1]
  /\ Emit(<<Out("status", m)>>)
  /\ UNCHANGED <<gateway, stage, asked, call, typing, marks, keys, texts, past>>

\* on_event(approval_pending).  A script whose turn timed out may still ask.
Ask(q) ==
  /\ gateway = "up"
  /\ stage[Asker[q]] \in {"running", "over"} /\ Asker[q] \notin Commands \cup Denied
  /\ q \notin asked
  /\ asked' = asked \cup {q}
  /\ Emit(<<Out("board", q)>>)
  /\ UNCHANGED <<gateway, stage, progress, call, typing, marks, keys, texts, past>>

\* The end of _run_agent_turn puts both messages with no await in between; a
\* command has an answer only.  A failed turn is answered as well.
Finish(m) ==
  LET answer == Out(IF m \in Misses THEN "secret" ELSE "text", m)
  IN  /\ gateway = "up" /\ stage[m] = "running"
      /\ Goes(m, "over")
      /\ Emit(IF m \in Commands THEN <<answer>> ELSE <<Out("clear", m), answer>>)
      /\ UNCHANGED <<gateway, progress, asked, call, typing, marks, keys, texts, past>>

\* A command raises: the session file or the secret store cannot be written.
Raise(m) ==
  /\ gateway = "up" /\ stage[m] = "running" /\ m \in Commands
  /\ Fault
  /\ Goes(m, "over")
  /\ silent' = silent \cup {m}
  /\ UNCHANGED <<gateway, progress, asked, outbound, call, typing, marks, keys, texts, hurt>>

-----------------------------------------------------------------------------
(* The dispatcher: one outbound message at a time *)

\* Mutant: every phase sends a message of its own.
SendStatusAnew(m) ==
  /\ call' = IF m \in done THEN None
             ELSE [out |-> Out("status", m), chunk |-> 0, doing |-> "showing"]
  /\ UNCHANGED <<typing, done, status, short>>

\* _send_or_edit_status: a turn that is done has no new status message.
SendStatus(m) ==
  /\ call' = IF m \in done THEN None
             ELSE [out |-> Out("status", m), chunk |-> 0,
                   doing |-> IF m \in status THEN "editing" ELSE "showing"]
  /\ UNCHANGED <<typing, done, status, short>>

\* Where the sending itself begins, once no status message is left.
Post(out) ==
  /\ call' = CASE out.type = "clear" \/ (out.type = "text" /\ Chunks[out.of] = 0) -> None
               [] out.type = "text" /\ Chunks[out.of] # 0 -> [out |-> out, doing |-> "rich", chunk |-> 1]
               [] out.type = "secret" -> [out |-> out, doing |-> "plain", chunk |-> 1]
               [] out.type = "board" -> [out |-> out, doing |-> "asking", chunk |-> 0]
  /\ short' = IF out.type = "board" THEN short \cup {out.of} ELSE short

\* Mutant: typing stops only where there is a status message to delete.
SendLazily(out) ==
  LET m == About(out)
  IN  /\ typing' = IF out.type # "clear" /\ m \in status THEN typing \ {m} ELSE typing
      /\ status' = status \ {m}
      /\ IF m \in status
         THEN /\ call' = [out |-> out, doing |-> "deleting", chunk |-> 0]
              /\ done' = done \cup {m}
              /\ UNCHANGED short
         ELSE /\ done' = IF Cardinality(done \cup {m}) > DoneLimit THEN {} ELSE done \cup {m}
              /\ Post(out)

\* _delete_status, and how _send_text, _send_approval_keyboard and
\* _send_secret_request begin: typing stops, and the status message goes.  Where
\* there is none, a _status_done that has grown is emptied.
Send(out) ==
  LET m == About(out)
  IN  /\ typing' = IF out.type = "clear" THEN typing ELSE typing \ {m}
      /\ status' = status \ {m}
      /\ IF m \in status
         THEN /\ call' = [out |-> out, doing |-> "deleting", chunk |-> 0]
              /\ done' = done \cup {m}
              /\ UNCHANGED short
         ELSE /\ done' = IF Cardinality(done \cup {m}) > DoneLimit THEN {} ELSE done \cup {m}
              /\ Post(out)

\* _dispatch_outbound
Dispatch ==
  /\ gateway = "up" /\ outbound # <<>> /\ call = None
  /\ outbound' = Tail(outbound)
  /\ LET out == Head(outbound)
     IN  IF out.type = "status" THEN SendStatus(out.of) ELSE Send(out)
  /\ UNCHANGED <<gateway, turns, shown, boards, visible, tap, taps, told, slipped, texts, past>>

Awaits(doing) == call # None /\ call.doing = doing

\* edit_message_text, whose failure changes nothing
Edited ==
  /\ Awaits("editing")
  /\ call' = None
  /\ UNCHANGED <<gateway, turns, outbound, typing, marks, keys, texts, past>>

\* send_message("..."): it is on record only once its id is known.
StatusShown(r) ==
  LET m == call.out.of
  IN  /\ Awaits("showing") /\ Came(r)
      /\ shown' = IF r = "failed" THEN shown ELSE [shown EXCEPT ![m] = @ + 1]
      /\ status' = IF r = "ok" THEN status \cup {m} ELSE status
      /\ hurt' = IF r = "lost" THEN hurt \cup {m} ELSE hurt
      /\ call' = None
      /\ UNCHANGED <<gateway, turns, outbound, typing, done, keys, texts, silent>>

\* delete_message of the status; whatever comes of it, the message is sent.
StatusDeleted(r) ==
  LET m == About(call.out)
  IN  /\ Awaits("deleting") /\ Came(r)
      /\ shown' = IF r = "failed" THEN shown ELSE [shown EXCEPT ![m] = @ - 1]
      /\ hurt' = IF r = "failed" THEN hurt \cup {m} ELSE hurt
      /\ Post(call.out)
      /\ UNCHANGED <<gateway, turns, outbound, typing, done, status, boards, visible, tap, taps, told, slipped, texts, silent>>

\* The keyboard is in the chat: it can be tapped from now on.
BoardShown ==
  /\ Awaits("asking")
  /\ visible' = visible \cup {call.out.of}
  /\ call' = [call EXCEPT !.doing = "shown"]
  /\ UNCHANGED <<gateway, turns, outbound, typing, marks, short, boards, tap, taps, told, slipped, texts, past>>

\* Mutant: the keyboard is on record whatever came of the send.
BoardSentAnyway(r) ==
  /\ Awaits(IF r = "failed" THEN "asking" ELSE "shown")
  /\ Came(r)
  /\ boards' = boards \cup {call.out.of}
  /\ call' = None
  /\ UNCHANGED <<gateway, turns, outbound, typing, marks, short, visible, tap, taps, told, slipped, texts, hurt, silent>>

\* Its send_message returns, or raises: the id of the message is not known then.
BoardSent(r) ==
  /\ Awaits(IF r = "failed" THEN "asking" ELSE "shown")
  /\ Came(r)
  /\ boards' = IF r = "ok" THEN boards \cup {call.out.of} ELSE boards
  /\ call' = None
  /\ UNCHANGED <<gateway, turns, outbound, typing, marks, short, visible, tap, taps, told, slipped, texts, hurt, silent>>

\* The chunk is done with: the next one, if there is one.
NextChunk ==
  LET m == call.out.of
  IN  IF call.out.type = "text" /\ call.chunk < Chunks[m]
      THEN call' = [call EXCEPT !.doing = "rich", !.chunk = @ + 1] /\ UNCHANGED answered
      ELSE call' = None /\ answered' = answered \cup {m}

Appears == posted' = [posted EXCEPT ![call.out.of] = Append(@, call.chunk)]
IsHurt == hurt' = hurt \cup {call.out.of}

RichSent ==
  /\ Awaits("rich")
  /\ Appears /\ NextChunk
  /\ UNCHANGED <<gateway, turns, outbound, typing, marks, keys, past>>

\* Mutant: a chunk that falls back to plain text is the last one.
RichRefusedLast ==
  /\ Awaits("rich")
  /\ call' = [call EXCEPT !.doing = "plain", !.chunk = Chunks[call.out.of]]
  /\ UNCHANGED <<gateway, turns, outbound, typing, marks, keys, texts, past>>

\* send_message as MarkdownV2 raises, BadRequest or not: it falls back to plain text.
RichRefused ==
  /\ Awaits("rich")
  /\ call' = [call EXCEPT !.doing = "plain"]
  /\ UNCHANGED <<gateway, turns, outbound, typing, marks, keys, texts, past>>

\* It raises although the chunk is in the chat.
RichLost ==
  /\ Awaits("rich") /\ Fault
  /\ Appears /\ IsHurt
  /\ call' = [call EXCEPT !.doing = "plain"]
  /\ UNCHANGED <<gateway, turns, outbound, typing, marks, keys, answered, silent>>

\* send_message as plain text: an exception is logged, and the next chunk sent.
PlainSent(r) ==
  /\ Awaits("plain") /\ Came(r)
  /\ IF r = "failed" THEN IsHurt /\ UNCHANGED posted ELSE Appears /\ UNCHANGED hurt
  /\ NextChunk
  /\ UNCHANGED <<gateway, turns, outbound, typing, marks, keys, silent>>

-----------------------------------------------------------------------------
(* Shutdown: ChannelManager.stop *)

\* The dispatcher is cancelled, whatever it awaits, and nobody reads bus.outbound
\* any more; all typing stops; the library's stop() is awaited.
Stop ==
  /\ gateway = "up"
  /\ gateway' = "stopping"
  /\ call' = None
  /\ typing' = {} /\ outbound' = <<>>
  /\ UNCHANGED <<turns, marks, keys, texts, past>>

\* The library has let the callback it ran finish: _app = None.
AppGone ==
  /\ gateway = "stopping" /\ HandlerIdle
  /\ gateway' = "down"
  /\ UNCHANGED <<turns, outbound, call, typing, marks, keys, texts, past>>

\* A typing loop that began while the channel stopped sees no application.
TypingLoopEnds(m) ==
  /\ gateway = "down" /\ m \in typing
  /\ typing' = typing \ {m}
  /\ UNCHANGED <<gateway, turns, outbound, call, marks, keys, texts, past>>

-----------------------------------------------------------------------------
Init ==
  /\ gateway = "up"
  /\ stage = [m \in Messages |-> "unsent"]
  /\ progress = [m \in Messages |-> 0]
  /\ asked = {}
  /\ outbound = <<>> /\ call = None
  /\ typing = {} /\ done = {} /\ status = {}
  /\ shown = [m \in Messages |-> 0]
  /\ short = {} /\ boards = {} /\ visible = {}
  /\ tap = None /\ taps = 0 /\ slipped = {}
  /\ told = [q \in Questions |-> 0]
  /\ posted = [m \in Messages |-> <<>>]
  /\ answered = {} /\ hurt = {} /\ silent = {}
  /\ faults = 0

Handler ==
  \/ \E m \in Messages : Downloaded(m)
  \/ \E r \in Results : TapAnswered(r) \/ TapDeleted(r)

Turn(m) == Progress(m) \/ Finish(m) \/ Raise(m)

\* The dispatcher's awaits come back.
Returns ==
  \/ Edited \/ BoardShown
  \/ RichSent \/ RichRefused \/ RichLost
  \/ \E r \in Results :
       \/ StatusShown(r) \/ StatusDeleted(r) \/ BoardSent(r)
       \/ PlainSent(r)

Users ==
  \/ \E m \in Messages : Arrive(m)
  \/ \E q \in Questions : Tap(q)

Next ==
  \/ Users \/ Handler \/ Dispatch \/ Returns
  \/ \E m \in Messages : Turn(m) \/ TypingLoopEnds(m)
  \/ \E q \in Questions : Ask(q)
  \/ Stop \/ AppGone

Spec == Init /\ [][Next]_vars

\* Calls of the API return or time out, the two loops go on, every turn ends,
\* and a channel that is being stopped stops.  Users, scripts and faults owe
\* nothing.
FairSpec ==
  /\ Spec
  /\ WF_vars(Handler) /\ WF_vars(Dispatch) /\ WF_vars(Returns) /\ WF_vars(AppGone)
  /\ \A m \in Messages :
       /\ WF_vars(Turn(m)) /\ WF_vars(TypingLoopEnds(m))

-----------------------------------------------------------------------------
TypeOK ==
  /\ gateway \in {"up", "stopping", "down"}
  /\ stage \in [Messages -> {"unsent", "arriving", "running", "over"}]
  /\ progress \in [Messages -> Nat]
  /\ asked \subseteq Questions
  /\ outbound \in Seq(Outbound)
  /\ call = None \/ call \in CallRecord
  /\ typing \subseteq Messages /\ done \subseteq Messages /\ status \subseteq Messages
  /\ shown \in [Messages -> Nat]
  /\ short \subseteq asked /\ boards \subseteq visible /\ visible \subseteq asked
  /\ tap = None \/ tap \in [of : Questions, doing : {"answering", "deleting"}]
  /\ taps \in 0 .. MaxTaps
  /\ told \in [Questions -> Nat]
  /\ slipped \subseteq Questions
  /\ posted \in [Messages -> Seq(Nat)]
  /\ answered \subseteq Messages /\ hurt \subseteq Messages /\ silent \subseteq Messages
  /\ faults \in 0 .. MaxFaults

Pending(m) ==
  \/ stage[m] \in {"arriving", "running"}
  \/ call # None /\ About(call.out) = m
  \/ \E i \in DOMAIN outbound : About(outbound[i]) = m

\* docs/telegram-ux.md:140: status messages never stack, and when everything a
\* turn emitted was sent neither "..." nor typing is left of it.  Progress between
\* keyboards and answer, and an emptied _status_done, do not leave one
\* (telegram.py:428, 461).  A lost answer does, and so does a failed deletion;
\* a denied source and a command that raises keep their typing.
RestIsClean ==
  gateway = "up" =>
    \A m \in Messages :
      /\ m \in hurt \/ shown[m] <= 1
      /\ Pending(m) \/ m \in hurt \/ shown[m] = 0
      /\ Pending(m) \/ m \in Denied \cup silent \/ m \notin typing

\* telegram.py:239-288: the chunks of an answer are in the chat once, in their
\* order, unless the answer to a call was lost or a plain chunk failed.  (The
\* request for a secret is one message.)
AnswerWhole ==
  \A m \in answered \ hurt :
    posted[m] = [i \in 1 .. (IF m \in Misses THEN 1 ELSE Chunks[m]) |-> i]

\* telegram.py:663: however often and wherever the buttons of a question are
\* tapped, one answer reaches the gate, and its keyboard is gone by then unless
\* the tap overtook the answer to the send, or the deletion failed.
AnsweredOnce ==
  \A q \in Questions :
    /\ told[q] <= 1
    /\ told[q] = 1 /\ q \notin slipped => q \notin visible

\* No typing loop runs for ever, except, until the channel stops, those of a
\* denied source and of a command that raised.  A loop that begins while stop()
\* is under way ends as well (telegram.py:193, 503, 543; base.py:93).
TypingEnds ==
  /\ \A m \in Messages : m \in typing \ Denied ~> (m \notin typing \/ m \in silent)
  /\ gateway # "up" ~> typing = {}
=============================================================================
