------------------------------ MODULE Gateway ------------------------------
(***************************************************************************)
(* The gateway orchestrator (gateway/orchestrator.py): what happens to the *)
(* messages of bus.inbound, to the prompts that cron and the heartbeat     *)
(* inject beside it, and to the requests that wait for a secret.           *)
(*                                                                         *)
(* Every message is handled by a task of its own; /approve, /secret and    *)
(* the routing of a plain message await nothing, so each is one step.  An  *)
(* agent turn awaits all the time.  Of a turn the module keeps what the    *)
(* orchestrator sees of the clams it executes, as many as the steps of its *)
(* plan and their retries ask for: the question to the user about a tool,  *)
(* the secrets found missing, and the turn's end.  A report of missing     *)
(* secrets ends a step, not the turn.  A clam calls one tool, before it    *)
(* reads its secrets; what a thread does that outlives its execution is    *)
(* the matter of ClamRuntime.                                              *)
(***************************************************************************)
EXTENDS Naturals, Sequences, FiniteSets

CONSTANTS
  Requests,  \* plain messages: of chats, and prompts of cron and heartbeat
  Scheduled, \* those of cron and heartbeat: process_inbound_async
  Names,     \* names of secrets
  Tools,
  Clams,     \* request -> the clams a turn of it may execute first, second, ...
  Within,    \* name -> the names it is a part of, itself included
  MaxCommands, \* bound: /secret commands typed
  None

\* The tool a clam calls, if any, and the secrets it reads, in order.
Clam == [tool : Tools \cup {None}, needs : Seq(Names)]

ASSUME GatewayAssumption ==
  /\ Scheduled \subseteq Requests
  /\ None \notin Tools
  /\ Clams \in [Requests -> Seq(SUBSET Clam)]
  /\ Within \in [Names -> SUBSET Names]
  /\ \A n \in Names : n \in Within[n]
  /\ MaxCommands \in Nat

\* InboundMessage.  A re-queued one differs in its correlation id and its metadata
\* only; `no' is (history) the report it answers, 0 when its sender sent it.
Plain(p, n) == [kind |-> "plain", of |-> p, no |-> n]
\* An approval_id: the turn that asks, and which of its questions it is.
Question == [turn : Nat, ask : Nat]
Message ==
  [kind : {"plain"}, of : Requests, no : Nat] \cup [kind : {"secret"}, name : Names]
    \cup [kind : {"approve"}, question : Question, allow : BOOLEAN]

VARIABLES
  unsent,   \* the requests that nobody has sent yet
  inbox,    \* bus.inbound
  pending,  \* the "secret:..." entries of _pending_approvals, oldest first
  turns,    \* the agent turns, in the order of their beginning
  reports,  \* (history) how often the turns of a request missed secrets
  open,     \* the questions pending at the approval gate
  replied,  \* the questions the user has answered
  turnGrants, \* the tools the gate's turn grants cover
  wild,     \* the tools with a "*" always grant
  stored,   \* the names in the secret store
  commands  \* /secret commands typed so far

gate == <<open, turnGrants, wild>>
vars == <<unsent, inbox, pending, turns, reports, gate, replied, stored, commands>>

\* A turn: the message it runs, the await it is at, how many clams it has executed, of
\* the current one the secrets it needs and those found missing, the tools it asked
\* about (approved_tool_calls), and (history) how many of these a report has seen.
NewTurn(p, n) ==
  [of |-> p, no |-> n, at |-> "starting", ran |-> 0, needs |-> <<>>, missing |-> <<>>,
   asked |-> <<>>, carried |-> 0]

Goes(k, to) == turns' = [turns EXCEPT ![k].at = to]
Covered(t) == t \in wild \cup turnGrants \cup {None}
\* The turn waits for the answer to this question.
Asking(q) ==
  q.turn \in DOMAIN turns /\ turns[q.turn].at = "asking" /\ q.ask = Len(turns[q.turn].asked)

-----------------------------------------------------------------------------
(* Routing: _process_inbound.  `rest' is bus.inbound without the message. *)

\* resolve and _pending_approvals.pop: the turn goes on if it still waits.
RouteApprove(m, rest) ==
  /\ m.kind = "approve"
  /\ inbox' = rest
  /\ LET q == m.question IN
     IF q \in open
     THEN /\ open' = open \ {q}
          /\ turnGrants' = IF m.allow THEN turnGrants \cup {turns[q.turn].asked[q.ask]} ELSE turnGrants
          /\ IF Asking(q) THEN Goes(q.turn, "script") ELSE UNCHANGED turns
     ELSE UNCHANGED <<open, turnGrants, turns>>
  /\ UNCHANGED <<unsent, pending, reports, replied, wild, stored, commands>>

\* The waiting requests whose key contains the name n.
Hits(n) == {i \in DOMAIN pending : \E j \in DOMAIN pending[i].key : pending[i].key[j] \in Within[n]}
Without(s, i) == SubSeq(s, 1, i - 1) \o SubSeq(s, i + 1, Len(s))

\* Mutant: the request that is re-queued keeps waiting.
StoreSecretKeeps(n, rest) ==
  /\ stored' = stored \cup {n}
  /\ IF Hits(n) = {} THEN inbox' = rest /\ UNCHANGED pending
     ELSE \E i \in Hits(n) :
            /\ \A k \in Hits(n) : i <= k
            /\ inbox' = Append(rest, Plain(pending[i].of, pending[i].no))
            /\ UNCHANGED pending
  /\ UNCHANGED <<unsent, turns, reports, gate, replied, commands>>

\* _handle_secret_command: save, and re-queue the first request that may have
\* waited for it.
StoreSecret(n, rest) ==
  /\ stored' = stored \cup {n}
  /\ IF Hits(n) = {} THEN inbox' = rest /\ UNCHANGED pending
     ELSE \E i \in Hits(n) :
            /\ \A k \in Hits(n) : i <= k
            /\ inbox' = Append(rest, Plain(pending[i].of, pending[i].no))
            /\ pending' = Without(pending, i)
  /\ UNCHANGED <<unsent, turns, reports, gate, replied, commands>>

RouteSecret(m, rest) == m.kind = "secret" /\ StoreSecret(m.name, rest)

\* While anything waits for a secret, any plain message is taken for the value
\* of the first name of the oldest key.
RouteValue(m, rest) ==
  /\ m.kind = "plain" /\ pending # <<>>
  /\ StoreSecret(pending[1].key[1], rest)

RouteTurn(m, rest) ==
  /\ m.kind = "plain" /\ pending = <<>>
  /\ inbox' = rest
  /\ turns' = Append(turns, NewTurn(m.of, m.no))
  /\ UNCHANGED <<unsent, pending, reports, gate, replied, stored, commands>>

Route(m, rest) ==
  RouteApprove(m, rest) \/ RouteSecret(m, rest) \/ RouteValue(m, rest) \/ RouteTurn(m, rest)

\* Mutant: the main loop awaits the processing of each message.
DispatchSerial ==
  /\ inbox # <<>> /\ \A k \in DOMAIN turns : turns[k].at = "done"
  /\ Route(Head(inbox), Tail(inbox))

\* _run: the next message, and the task it is given.
Dispatch == inbox # <<>> /\ Route(Head(inbox), Tail(inbox))

-----------------------------------------------------------------------------
(* An agent turn *)

\* process_turn begins, after history and compaction: begin_turn.
Begin(k) ==
  /\ turns[k].at = "starting"
  /\ turnGrants' = {}
  /\ Goes(k, "between")
  /\ UNCHANGED <<unsent, inbox, pending, reports, open, replied, wild, stored, commands>>

\* The clams to which selector, planner, generator and analyzer may lead it next.
May(t) ==
  IF t.at = "between" /\ t.ran < Len(Clams[t.of]) THEN Clams[t.of][t.ran + 1] ELSE {}

\* It calls a tool that the gate does not cover: on_event(approval_pending).
AskTool(k, c) ==
  /\ c \in May(turns[k]) /\ ~Covered(c.tool)
  /\ turns' = [turns EXCEPT ![k].at = "asking", ![k].ran = @ + 1, ![k].needs = c.needs,
                            ![k].asked = Append(@, c.tool)]
  /\ open' = open \cup {[turn |-> k, ask |-> Len(turns[k].asked) + 1]}
  /\ UNCHANGED <<unsent, inbox, pending, reports, replied, turnGrants, wild, stored, commands>>

\* It calls its tool, if any, without a question.
CallTool(k, c) ==
  /\ c \in May(turns[k]) /\ Covered(c.tool)
  /\ turns' = [turns EXCEPT ![k].at = "script", ![k].ran = @ + 1, ![k].needs = c.needs]
  /\ UNCHANGED <<unsent, inbox, pending, reports, gate, replied, stored, commands>>

\* Nobody answers in time; the question stays open.
AskTimesOut(k) ==
  /\ turns[k].at = "asking"
  /\ Goes(k, "script")
  /\ UNCHANGED <<unsent, inbox, pending, reports, gate, replied, stored, commands>>

\* The members of a set of positions, in order.
Ordered(S) == {o \in [1 .. Cardinality(S) -> S] : \A j, k \in DOMAIN o : j < k => o[j] < o[k]}

\* The script reads its secrets, and some are not there.
Misses(k) ==
  LET needs == turns[k].needs
      absent == {i \in DOMAIN needs : needs[i] \notin stored}
  IN  /\ turns[k].at = "script"
      /\ absent # {}
      /\ \E o \in Ordered(absent) :
           turns' = [turns EXCEPT ![k].at = "missing", ![k].missing = [j \in DOMAIN o |-> needs[o[j]]]]
      /\ UNCHANGED <<unsent, inbox, pending, reports, gate, replied, stored, commands>>

\* The execution misses no secret: it is analyzed, tried again, or the next step follows.
Return(k) ==
  /\ turns[k].at = "script"
  /\ turns' = [turns EXCEPT ![k].at = "between", ![k].needs = <<>>]
  /\ UNCHANGED <<unsent, inbox, pending, reports, gate, replied, stored, commands>>

\* Mutant: an entry of its own for every request.
PutAnew(k, p, n) == Append(pending, [key |-> k, of |-> p, no |-> n])

\* _pending_approvals["secret:..."] = inbound: a dict keeps the place of a key.
Put(k, p, n) ==
  LET e == [key |-> k, of |-> p, no |-> n] IN
  IF \E i \in DOMAIN pending : pending[i].key = k
  THEN [i \in DOMAIN pending |-> IF pending[i].key = k THEN e ELSE pending[i]]
  ELSE Append(pending, e)

AskedBy(t) == {t.asked[i] : i \in DOMAIN t.asked}

Reported(k) ==
  [turns EXCEPT ![k].at = "between", ![k].needs = <<>>, ![k].missing = <<>>,
                ![k].carried = Len(turns[k].asked)]

\* Mutant: what was asked in this turn is not granted to the next.
ReportNoGrants(k) ==
  LET p == turns[k].of IN
  /\ turns[k].at = "missing"
  /\ reports' = [reports EXCEPT ![p] = @ + 1]
  /\ pending' = Put(turns[k].missing, p, reports'[p])
  /\ turns' = Reported(k)
  /\ UNCHANGED <<unsent, inbox, open, replied, turnGrants, wild, stored, commands>>

\* The execution has ended and its result is looked at: on_event(secret_pending).  The
\* step is over; the turn executes the next one of its plan, or ends.
Report(k) ==
  LET p == turns[k].of IN
  /\ turns[k].at = "missing"
  /\ reports' = [reports EXCEPT ![p] = @ + 1]
  /\ pending' = Put(turns[k].missing, p, reports'[p])
  /\ wild' = wild \cup AskedBy(turns[k])
  /\ turns' = Reported(k)
  /\ UNCHANGED <<unsent, inbox, open, replied, turnGrants, stored, commands>>

\* The turn is over: it succeeded, failed, only chatted, or misses secrets.
End(k) ==
  /\ turns[k].at = "between"
  /\ Goes(k, "done")
  /\ UNCHANGED <<unsent, inbox, pending, reports, gate, replied, stored, commands>>

-----------------------------------------------------------------------------
(* Channels, users, cron and heartbeat *)

Send(p) ==
  /\ p \in unsent \ Scheduled
  /\ unsent' = unsent \ {p}
  /\ inbox' = Append(inbox, Plain(p, 0))
  /\ UNCHANGED <<pending, turns, reports, gate, replied, stored, commands>>

\* process_inbound_async: routed at once, beside the queue.
Inject(p) ==
  /\ p \in unsent \cap Scheduled
  /\ unsent' = unsent \ {p}
  /\ IF pending = <<>>
     THEN /\ turns' = Append(turns, NewTurn(p, 0))
          /\ UNCHANGED <<inbox, pending, stored>>
     ELSE /\ stored' = stored \cup {pending[1].key[1]}
          /\ inbox' = Append(inbox, Plain(pending[1].of, pending[1].no))
          /\ pending' = Without(pending, 1)
          /\ UNCHANGED turns
  /\ UNCHANGED <<reports, gate, replied, commands>>

\* A button of the question is tapped.
Answer(q, allow) ==
  /\ q \in open \ replied
  /\ inbox' = Append(inbox, [kind |-> "approve", question |-> q, allow |-> allow])
  /\ replied' = replied \cup {q}
  /\ UNCHANGED <<unsent, pending, turns, reports, gate, stored, commands>>

\* /secret <name> <value>
TypeSecret(n) ==
  /\ commands < MaxCommands
  /\ commands' = commands + 1
  /\ inbox' = Append(inbox, [kind |-> "secret", name |-> n])
  /\ UNCHANGED <<unsent, pending, turns, reports, gate, replied, stored>>

-----------------------------------------------------------------------------
Init ==
  /\ unsent = Requests
  /\ inbox = <<>> /\ pending = <<>> /\ turns = <<>>
  /\ reports = [p \in Requests |-> 0]
  /\ open = {} /\ replied = {}
  /\ turnGrants = {} /\ wild = {}
  /\ stored = {}
  /\ commands = 0

Turn(k) ==
  \/ Begin(k) \/ AskTimesOut(k) \/ Misses(k) \/ Return(k) \/ Report(k) \/ End(k)
  \/ \E c \in May(turns[k]) : AskTool(k, c) \/ CallTool(k, c)

World ==
  \/ \E p \in Requests : Send(p) \/ Inject(p)
  \/ \E q \in open, allow \in BOOLEAN : Answer(q, allow)
  \/ \E n \in Names : TypeSecret(n)

Next == Dispatch \/ (\E k \in DOMAIN turns : Turn(k)) \/ World

Spec == Init /\ [][Next]_vars

\* The event loop runs the orchestrator's main loop whenever a message is there;
\* turns, timeouts and users may take for ever.
FairSpec == Spec /\ WF_vars(Dispatch)

-----------------------------------------------------------------------------
Keys == Seq(Names) \ {<<>>}

TurnOK(t) ==
  /\ t.of \in Requests /\ t.no \in Nat
  /\ t.at \in {"starting", "between", "asking", "script", "missing", "done"}
  /\ t.ran \in 0 .. Len(Clams[t.of])
  /\ t.needs \in Seq(Names) /\ t.missing \in Seq(Names)
  /\ t.missing # <<>> <=> t.at = "missing"
  /\ t.asked \in Seq(Tools) /\ t.carried \in 0 .. Len(t.asked)

TypeOK ==
  /\ unsent \subseteq Requests
  /\ inbox \in Seq(Message)
  /\ \A i \in DOMAIN pending :
       pending[i].key \in Keys /\ pending[i].of \in Requests /\ pending[i].no \in Nat
  /\ \A i, j \in DOMAIN pending : pending[i].key = pending[j].key => i = j
  /\ \A k \in DOMAIN turns : TurnOK(turns[k])
  /\ reports \in [Requests -> Nat]
  /\ \A q \in open \cup replied : q.turn \in DOMAIN turns /\ q.ask \in DOMAIN turns[q.turn].asked
  /\ turnGrants \subseteq Tools /\ wild \subseteq Tools
  /\ stored \subseteq Names
  /\ commands \in 0 .. MaxCommands

Queued(p, n) == {i \in DOMAIN inbox : inbox[i] = Plain(p, n)}
Waiting(p, n) == {i \in DOMAIN pending : pending[i].of = p /\ pending[i].no = n}
Run(p, n) == {k \in DOMAIN turns : turns[k].of = p /\ turns[k].no = n}

\* What a sender sent and what a report left waiting is on its way, waiting, run by one
\* turn, or gone: however many secrets, keys and plain messages taken for values there
\* are, no report re-queues its request twice, and a request begins at most one turn
\* more than it missed secrets (orchestrator.py:226-250).
ResumedOnce ==
  \A p \in Requests : \A n \in 0 .. reports[p] :
    Cardinality(Queued(p, n)) + Cardinality(Waiting(p, n)) + Cardinality(Run(p, n)) <= 1

\* The tools a turn asked about before it last reported missing secrets.
Carried(t) == {t.asked[i] : i \in 1 .. t.carried}

\* "Persist tool approvals from this turn so re-queued runs don't need the user to
\* approve again" (orchestrator.py:378): nobody is asked again about a tool that a turn
\* asked about before it reported missing secrets.
NotAskedAgain ==
  [][\A k \in DOMAIN turns : \A c \in May(turns[k]) :
       AskTool(k, c) => \A j \in DOMAIN turns : c.tool \notin Carried(turns[j])]_vars

\* orchestrator.py:93: an answer is never blocked behind the turn that waits for
\* it, nor behind any other.
AnswerGetsThrough ==
  \A k \in 1 .. Cardinality(Requests) + MaxCommands : \A a \in UNION {DOMAIN Clams[p] : p \in Requests} :
    LET q == [turn |-> k, ask |-> a] IN
    Asking(q) /\ (\E i \in DOMAIN inbox : inbox[i].kind = "approve" /\ inbox[i].question = q)
      ~> ~Asking(q)

\* Re-queued requests that are taken for secrets re-queue others, but not for
\* ever: once the world is silent, the inbound queue is empty and stays so.
Settles == <>[](inbox = <<>>)

Waits(p) == \E i \in DOMAIN pending : pending[i].of = p
InQueue(p) == \E i \in DOMAIN inbox : inbox[i].kind = "plain" /\ inbox[i].of = p

\* docs/features.md:482: the secret is stored and the request that waited for it
\* is re-queued; it does not just stop waiting.
WaitingIsResumed == [][\A p \in Requests : Waits(p) /\ ~Waits(p)' => InQueue(p)']_vars
=============================================================================
