----------------------------- MODULE ClamRuntime -----------------------------
(***************************************************************************)
(* The execution of clams: ClamRuntime (agent/runtime.py), the sandbox     *)
(* thread it starts, and the ApprovalGate (agent/approval_gate.py) that    *)
(* every turn of the process shares.                                       *)
(*                                                                         *)
(* Per execution there are two actors: the coroutine `execute' on the      *)
(* event loop, which waits for the thread with a timeout, and the daemon   *)
(* thread, which runs the script, evaluates its tool calls at the gate and *)
(* blocks while a human is asked.  Turns run concurrently, and a turn may  *)
(* execute several clams one after the other (self-fix retries).           *)
(***************************************************************************)
EXTENDS FiniteSets

CONSTANTS
  Turns,     \* calls of process_turn, or of execute_clam_direct
  Runs,      \* calls of execute, each with its thread
  Requests,  \* a tool call up to its fingerprint: tool and arguments
  Scripted,  \* run -> the tool calls its clam's script may make
  Approvals, \* ApprovalRecords (uuid4)
  Inferred,  \* request -> what the scope inferred from its arguments covers
  Offered,   \* request -> what the scope of its "allow always" button covers
  Always,    \* what the configured always_grants cover
  AllowAlways, \* config: approvals.allow_always
  None

Record == [run : Runs, req : Requests, decision : {"AWAITING", "ALLOW", "DENY"}]
Call   == [req : Requests, ask : Approvals \cup {None}]

ASSUME RuntimeAssumption ==
  /\ Scripted \in [Runs -> SUBSET Requests]
  /\ Inferred \in [Requests -> SUBSET Requests]
  /\ Offered \in [Requests -> SUBSET Requests]
  /\ \A q \in Requests : q \in Inferred[q] /\ q \in Offered[q]
  /\ Always \subseteq Requests
  /\ AllowAlways \in BOOLEAN
  /\ None \notin Approvals \cup Turns \cup Requests \cup Record \cup Call

VARIABLES
  turn,     \* each turn: begun or not
  main,     \* where `execute' is, per run
  owner,    \* the turn a run belongs to
  thread,   \* where the sandbox thread is, per run
  call,     \* the tool call the thread is at: the request and the approval it asked for
            \* (if any)
  flag,     \* the runs whose approval_pending_flag is set
  record,   \* the ApprovalRecords created so far
  pending,  \* the keys of gate._pending
  shown,    \* approvals whose approval_pending event reached the user
  answered, \* approvals whose asyncio.Event is set
  turnGrants, \* gate._turn_grants: the requests each covers
  always,   \* what the store's always_grants cover
  allowed,  \* history: everything configuration or a user ever allowed
  executed  \* history: the requests dispatched to a tool

gate == <<record, pending, answered, turnGrants, always, allowed>>
vars == <<turn, main, owner, thread, call, flag, record, pending,
          shown, answered, turnGrants, always, allowed, executed>>

\* A fresh name; which one does not matter.
Fresh(x, S) == S # {} /\ x = CHOOSE y \in S : TRUE
Idle   == {t \in Turns : turn[t] = "idle"}
Unrun  == {r \in Runs : main[r] = "none"}
Unused == {a \in Approvals : record[a] = None}
Awaiting(r) == main[r] \in {"wait", "extended"}
Move(r, to) == thread' = [thread EXCEPT ![r] = to]
\* The thread is back in the script.
Resume(r) == Move(r, "ready") /\ call' = [call EXCEPT ![r] = None]
\* The thread is at the tool call q.
At(r, q, a) == call' = [call EXCEPT ![r] = [req |-> q, ask |-> a]]

-----------------------------------------------------------------------------
(* Turns *)

\* process_turn starts: begin_turn clears the one list every turn shares.
BeginTurn(t) ==
  /\ Fresh(t, Idle)
  /\ turn' = [turn EXCEPT ![t] = "begun"]
  /\ turnGrants' = {}
  /\ UNCHANGED <<main, owner, thread, call, flag, record, pending, shown,
                 answered, always, allowed, executed>>

\* execute_clam_direct (cron) does not call begin_turn.
BeginDirect(t) ==
  /\ Fresh(t, Idle)
  /\ turn' = [turn EXCEPT ![t] = "begun"]
  /\ UNCHANGED <<main, owner, thread, call, flag, gate, shown, executed>>

\* The turn goes on to execute a clam, as often as it retries; it awaits one
\* execution at a time.  A turn that executes nothing more is over.
Execute(t, r) ==
  /\ turn[t] = "begun" /\ Fresh(r, Unrun)
  /\ \A k \in Runs : owner[k] = t => ~Awaiting(k)
  /\ main' = [main EXCEPT ![r] = "wait"]
  /\ owner' = [owner EXCEPT ![r] = t]
  /\ Move(r, "ready")
  /\ UNCHANGED <<turn, call, flag, gate, shown, executed>>

-----------------------------------------------------------------------------
(* The coroutine `execute' *)

\* Mutant: the timeout is not extended for a human.
PolicyTimeoutAborts(r) ==
  /\ main[r] = "wait" /\ thread[r] # "ended"
  /\ main' = [main EXCEPT ![r] = "timedout"]
  /\ UNCHANGED <<turn, owner, thread, call, flag, gate, shown, executed>>

\* policy.timeout_seconds are over.  backend.abort() does nothing, and the
\* result is "timed out" whatever happens in the grace period.
PolicyTimeout(r) ==
  /\ main[r] = "wait" /\ thread[r] # "ended"
  /\ main' = [main EXCEPT ![r] = IF r \in flag THEN "extended" ELSE "timedout"]
  /\ UNCHANGED <<turn, owner, thread, call, flag, gate, shown, executed>>

\* Mutant: the wait for a human has no timeout of its own.
HumanTimeoutNever(r) ==
  /\ main[r] = "extended" /\ thread[r] = "ended"
  /\ main' = [main EXCEPT ![r] = "done"]
  /\ UNCHANGED <<turn, owner, thread, call, flag, gate, shown, executed>>

\* The extension of 300 s is over.
HumanTimeout(r) ==
  /\ main[r] = "extended" /\ thread[r] # "ended"
  /\ main' = [main EXCEPT ![r] = "timedout"]
  /\ UNCHANGED <<turn, owner, thread, call, flag, gate, shown, executed>>

\* done_event was set in time.
Return(r) ==
  /\ Awaiting(r) /\ thread[r] = "ended"
  /\ main' = [main EXCEPT ![r] = "done"]
  /\ UNCHANGED <<turn, owner, thread, call, flag, gate, shown, executed>>

-----------------------------------------------------------------------------
(* The sandbox thread; it goes on whether or not `execute' still waits *)

\* check_always_grant finds an always grant, or _check_turn_grant one of this or
\* another turn.  How wildcards, fingerprints, files, directories and URLs match
\* is what a scope, a set of requests, stands for.
Covered(q) == q \in always \/ \E g \in turnGrants : q \in g

\* evaluate_request: ALLOW.
CallCovered(r, q) ==
  /\ thread[r] = "ready"
  /\ Covered(q)
  /\ Move(r, "dispatch")
  /\ At(r, q, None)
  /\ UNCHANGED <<turn, main, owner, flag, gate, shown, executed>>

\* evaluate_request: AWAITING, a new record is pending.
CallAsks(r, q, a) ==
  /\ thread[r] = "ready" /\ Fresh(a, Unused)
  /\ ~Covered(q)
  /\ record' = [record EXCEPT ![a] = [run |-> r, req |-> q, decision |-> "AWAITING"]]
  /\ pending' = pending \cup {a}
  /\ Move(r, "asking")
  /\ At(r, q, a)
  /\ UNCHANGED <<turn, main, owner, flag, shown, answered, turnGrants, always, allowed, executed>>

\* approval_pending is emitted and shown to the user.
Emit(r) ==
  /\ thread[r] = "asking"
  /\ shown' = shown \cup {call[r].ask}
  /\ Move(r, "emitted")
  /\ UNCHANGED <<turn, main, owner, call, flag, gate, executed>>

\* The flag is set, wait_for_resolution is handed to the loop, and the thread
\* blocks on its future.
Block(r) ==
  /\ thread[r] = "emitted"
  /\ flag' = flag \cup {r}
  /\ Move(r, "blocked")
  /\ UNCHANGED <<turn, main, owner, call, gate, shown, executed>>

\* The loop starts wait_for_resolution and finds the record pending.
WaitStarts(r) ==
  /\ thread[r] = "blocked" /\ call[r].ask \in pending
  /\ Move(r, "waiting")
  /\ UNCHANGED <<turn, main, owner, call, flag, gate, shown, executed>>

\* It finds no record (already resolved): None, which the thread takes for a denial.
WaitMisses(r) ==
  /\ thread[r] = "blocked" /\ call[r].ask \notin pending
  /\ flag' = flag \ {r}
  /\ Resume(r)
  /\ UNCHANGED <<turn, main, owner, gate, shown, executed>>

\* Mutant: any answer is taken for an approval.
WaitEndsAnyhow(r) ==
  /\ thread[r] = "waiting" /\ call[r].ask \in answered
  /\ flag' = flag \ {r}
  /\ Move(r, "dispatch")
  /\ UNCHANGED <<turn, main, owner, call, gate, shown, executed>>

\* The answer is in.
WaitEnds(r) ==
  /\ thread[r] = "waiting" /\ call[r].ask \in answered
  /\ flag' = flag \ {r}
  /\ IF record[call[r].ask].decision = "ALLOW"
     THEN Move(r, "dispatch") /\ UNCHANGED call
     ELSE Resume(r)
  /\ UNCHANGED <<turn, main, owner, gate, shown, executed>>

\* Mutant: a human who never answers blocks the thread for ever.
AskTimesOutNever(r) ==
  /\ thread[r] = "waiting" /\ call[r].ask \in answered
  /\ flag' = flag \ {r}
  /\ Resume(r)
  /\ UNCHANGED <<turn, main, owner, gate, shown, executed>>

\* future.result(timeout=300): an error to the script.  The record stays pending.
AskTimesOut(r) ==
  /\ thread[r] \in {"blocked", "waiting"}
  /\ flag' = flag \ {r}
  /\ Resume(r)
  /\ UNCHANGED <<turn, main, owner, gate, shown, executed>>

\* registry.dispatch.
Dispatch(r) ==
  /\ thread[r] = "dispatch"
  /\ executed' = executed \cup {call[r].req}
  /\ Resume(r)
  /\ UNCHANGED <<turn, main, owner, flag, gate, shown>>

\* The script ends, with a result or an error, and done_event is set.
Finish(r) ==
  /\ thread[r] = "ready"
  /\ Move(r, "ended")
  /\ UNCHANGED <<turn, main, owner, call, flag, gate, shown, executed>>

-----------------------------------------------------------------------------
(* The user's answer, on the event loop *)

\* What an ALLOW adds: the scope of the button, or the one inferred from the call.
Scope(q, forever) == IF forever THEN Offered[q] ELSE Inferred[q]

\* Mutant: resolve leaves the record pending, so a second tap decides again.
AllowLeavesPending(a, forever, saved) ==
  /\ a \in shown \cap pending
  /\ record' = [record EXCEPT ![a].decision = "ALLOW"]
  /\ LET S == Scope(record[a].req, forever)
     IN  /\ turnGrants' = turnGrants \cup {S}
         /\ always' = IF forever /\ AllowAlways THEN always \cup S ELSE always
         /\ allowed' = allowed \cup S
  /\ answered' = IF saved THEN answered \cup {a} ELSE answered
  /\ UNCHANGED <<turn, main, owner, thread, call, flag, pending, shown, executed>>

\* Mutant: an ALLOW grants every request.
AllowEverything(a, forever, saved) ==
  /\ a \in shown \cap pending
  /\ pending' = pending \ {a}
  /\ record' = [record EXCEPT ![a].decision = "ALLOW"]
  /\ LET S == Scope(record[a].req, forever)
     IN  /\ turnGrants' = turnGrants \cup {Requests}
         /\ always' = IF forever /\ AllowAlways THEN always \cup S ELSE always
         /\ allowed' = allowed \cup S
  /\ answered' = IF saved THEN answered \cup {a} ELSE answered
  /\ UNCHANGED <<turn, main, owner, thread, call, flag, shown, executed>>

\* resolve(a, "ALLOW"): at any time, from a button that was shown.  When the
\* configuration file cannot be written the event is never set (saved = FALSE).
Allow(a, forever, saved) ==
  /\ a \in shown \cap pending
  /\ ~saved => forever /\ AllowAlways
  /\ pending' = pending \ {a}
  /\ record' = [record EXCEPT ![a].decision = "ALLOW"]
  /\ LET S == Scope(record[a].req, forever)
     IN  /\ turnGrants' = turnGrants \cup {S}
         /\ always' = IF forever /\ AllowAlways THEN always \cup S ELSE always
         /\ allowed' = allowed \cup S
  /\ answered' = IF saved THEN answered \cup {a} ELSE answered
  /\ UNCHANGED <<turn, main, owner, thread, call, flag, shown, executed>>

\* resolve(a, "DENY").
Deny(a) ==
  /\ a \in shown \cap pending
  /\ pending' = pending \ {a}
  /\ record' = [record EXCEPT ![a].decision = "DENY"]
  /\ answered' = answered \cup {a}
  /\ UNCHANGED <<turn, main, owner, thread, call, flag, shown, turnGrants,
                 always, allowed, executed>>

-----------------------------------------------------------------------------
Init ==
  /\ turn = [t \in Turns |-> "idle"]
  /\ main = [r \in Runs |-> "none"]
  /\ owner = [r \in Runs |-> None]
  /\ thread = [r \in Runs |-> "none"]
  /\ call = [r \in Runs |-> None]
  /\ flag = {}
  /\ record = [a \in Approvals |-> None]
  /\ pending = {} /\ shown = {} /\ answered = {}
  /\ turnGrants = {}
  /\ always = Always /\ allowed = Always
  /\ executed = {}

Turn(t) ==
  \/ BeginTurn(t) \/ BeginDirect(t)
  \/ \E r \in Runs : Execute(t, r)

Main(r) == PolicyTimeout(r) \/ HumanTimeout(r) \/ Return(r)

Ask(r) == Emit(r) \/ Block(r) \/ WaitStarts(r) \/ WaitMisses(r) \/ WaitEnds(r) \/ AskTimesOut(r)

Script(r) ==
  \/ \E q \in Scripted[r] : CallCovered(r, q) \/ \E a \in Approvals : CallAsks(r, q, a)
  \/ Dispatch(r)
  \/ Finish(r)

User(a) == (\E forever, saved \in BOOLEAN : Allow(a, forever, saved)) \/ Deny(a)

Next ==
  \/ \E t \in Turns : Turn(t)
  \/ \E r \in Runs : Main(r) \/ Ask(r) \/ Script(r)
  \/ \E a \in Approvals : User(a)

Spec == Init /\ [][Next]_vars

\* Timers fire and the loop and an asking thread make progress; the script, the
\* tools it calls and the user need not.
FairSpec == Spec /\ \A r \in Runs : WF_vars(Main(r)) /\ WF_vars(Ask(r))

-----------------------------------------------------------------------------
TypeOK ==
  /\ turn \in [Turns -> {"idle", "begun"}]
  /\ main \in [Runs -> {"none", "wait", "extended", "timedout", "done"}]
  /\ owner \in [Runs -> Turns \cup {None}]
  /\ \A r \in Runs : (owner[r] = None) <=> (main[r] = "none")
  /\ \A r \in Runs : (thread[r] = "none") <=> (main[r] = "none")
  /\ thread \in [Runs -> {"none", "ready", "asking", "emitted", "blocked", "waiting",
                          "dispatch", "ended"}]
  /\ call \in [Runs -> Call \cup {None}]
  /\ \A r \in Runs : (call[r] = None) <=> (thread[r] \in {"none", "ready", "ended"})
  /\ flag \subseteq Runs
  /\ record \in [Approvals -> Record \cup {None}]
  /\ \A a \in Approvals : record[a] # None => owner[record[a].run] # None
  /\ pending \subseteq Approvals /\ shown \subseteq Approvals /\ answered \subseteq Approvals
  /\ \A a \in pending : record[a] # None /\ record[a].decision = "AWAITING"
  /\ \A a \in shown : record[a] # None
  /\ \A r \in Runs : call[r] # None /\ call[r].ask # None =>
       record[call[r].ask] # None /\ record[call[r].ask].run = r /\ record[call[r].ask].req = call[r].req
  /\ \A r \in Runs : thread[r] \in {"asking", "emitted", "blocked", "waiting"} => call[r].ask # None
  /\ turnGrants \subseteq SUBSET Requests
  /\ always \subseteq Requests /\ allowed \subseteq Requests
  /\ executed \subseteq Requests

\* No tool call is dispatched that neither the configuration nor a user allowed:
\* the gate, its threads and its timeouts implement the policy (runtime.py:309-374).
Policy == INSTANCE ApprovalPolicy
KeepsPolicy == Policy!Spec

\* A call whose own approval was denied, or never answered, is not dispatched,
\* whatever else is allowed meanwhile.
UnansweredNeverRuns ==
  \A r \in Runs :
    thread[r] = "dispatch" /\ call[r].ask # None => record[call[r].ask].decision = "ALLOW"

\* A decision is final: a second tap on the same buttons, or a tap after the
\* timeout, changes no record that was decided (approval_gate.py:146-149).
DecisionFinal ==
  [][\A a \in Approvals :
       record[a] # None /\ record[a].decision # "AWAITING" => record'[a] = record[a]]_vars

\* The flag that buys an execution the human's five minutes is set exactly while
\* its thread waits for the human: no script extends its own timeout and no
\* waiting thread is given up early (runtime.py:200, 348, 364).
FlagWhileAsking == flag = {r \in Runs : thread[r] \in {"blocked", "waiting"}}

\* A turn is not given up while its thread waits for a human, the first time the
\* clock runs out.
HumanGetsTime ==
  [][\A r \in Runs :
       main[r] = "wait" /\ thread[r] \in {"blocked", "waiting"} => main'[r] # "timedout"]_vars

\* docs/architecture.md:419: an execution never hangs the loop that awaits it.
ExecuteReturns == \A r \in Runs : Awaiting(r) ~> ~Awaiting(r)

\* A thread that asked a human goes on even when nobody ever answers.
AskReturns == \A r \in Runs : thread[r] \in {"blocked", "waiting"} ~> thread[r] \notin {"blocked", "waiting"}
=============================================================================
