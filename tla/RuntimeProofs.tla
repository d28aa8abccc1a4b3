---------------------------- MODULE RuntimeProofs ----------------------------
(***************************************************************************)
(* Theorems about ClamRuntime, for any number of turns, executions, tool   *)
(* calls and approvals.                                                    *)
(***************************************************************************)
EXTENDS ClamRuntime, TLAPS

\* Everything a grant, an approved record or an accepted call stands for was
\* allowed: what makes the dispatch of a call a step of the policy.
AllowedInv ==
  /\ always \subseteq allowed
  /\ \A g \in turnGrants : g \subseteq allowed
  /\ \A a \in Approvals :
       record[a] # None /\ record[a].decision = "ALLOW" => record[a].req \in allowed
  /\ \A r \in Runs : thread[r] = "dispatch" => call[r].req \in allowed

IInv == TypeOK /\ AllowedInv /\ UnansweredNeverRuns /\ FlagWhileAsking

-----------------------------------------------------------------------------

LEMMA RuntimeInitInv == Init => IInv
<1> SUFFICES ASSUME Init PROVE IInv
  OBVIOUS
<1>1. TypeOK
  BY RuntimeAssumption DEF Init, TypeOK, RuntimeAssumption
<1>2. AllowedInv /\ UnansweredNeverRuns /\ FlagWhileAsking
  BY DEF Init, AllowedInv, UnansweredNeverRuns, FlagWhileAsking
<1> QED BY <1>1, <1>2 DEF IInv

\* A chosen fresh name is a member.
LEMMA FreshIsMember ==
  ASSUME NEW S, NEW x, Fresh(x, S)
  PROVE  x \in S
BY DEF Fresh

LEMMA TurnStepInv ==
  ASSUME IInv, NEW t \in Turns, Turn(t)
  PROVE  IInv'
<1> USE DEF IInv, gate
<1>1. CASE BeginTurn(t) \/ BeginDirect(t)
  BY <1>1 DEF BeginTurn, BeginDirect, TypeOK, AllowedInv, UnansweredNeverRuns, FlagWhileAsking
<1>2. ASSUME NEW r \in Runs, Execute(t, r)
      PROVE  IInv'
  <2>1. main[r] = "none"
    BY <1>2, FreshIsMember DEF Execute, Unrun
  <2>2. TypeOK'
    BY <1>2, <2>1, RuntimeAssumption DEF Execute, Move, TypeOK, RuntimeAssumption
  <2>3. AllowedInv' /\ UnansweredNeverRuns' /\ FlagWhileAsking'
    BY <1>2, <2>1 DEF Execute, Move, TypeOK, AllowedInv, UnansweredNeverRuns, FlagWhileAsking
  <2> QED BY <2>2, <2>3
<1> QED BY <1>1, <1>2 DEF Turn

LEMMA MainStepInv ==
  ASSUME IInv, NEW r \in Runs, Main(r)
  PROVE  IInv'
<1> USE DEF IInv, gate
<1>1. CASE PolicyTimeout(r)
  BY <1>1 DEF PolicyTimeout, TypeOK, AllowedInv, UnansweredNeverRuns, FlagWhileAsking
<1>2. CASE HumanTimeout(r)
  BY <1>2 DEF HumanTimeout, TypeOK, AllowedInv, UnansweredNeverRuns, FlagWhileAsking
<1>3. CASE Return(r)
  BY <1>3 DEF Return, Awaiting, TypeOK, AllowedInv, UnansweredNeverRuns, FlagWhileAsking
<1> QED BY <1>1, <1>2, <1>3 DEF Main

LEMMA AskStepInv ==
  ASSUME IInv, NEW r \in Runs, Ask(r)
  PROVE  IInv'
<1> USE DEF IInv, gate, Move, Resume
<1>1. CASE Emit(r)
  BY <1>1, RuntimeAssumption DEF Emit, TypeOK, AllowedInv, UnansweredNeverRuns, FlagWhileAsking, Call, RuntimeAssumption
<1>2. CASE Block(r)
  BY <1>2 DEF Block, TypeOK, AllowedInv, UnansweredNeverRuns, FlagWhileAsking
<1>3. CASE WaitStarts(r)
  BY <1>3 DEF WaitStarts, TypeOK, AllowedInv, UnansweredNeverRuns, FlagWhileAsking
<1>4. CASE WaitMisses(r)
  BY <1>4 DEF WaitMisses, TypeOK, AllowedInv, UnansweredNeverRuns, FlagWhileAsking
<1>5. CASE WaitEnds(r)
  <2>1. CASE record[call[r].ask].decision = "ALLOW"
    BY <1>5, <2>1 DEF WaitEnds, TypeOK, AllowedInv, UnansweredNeverRuns, FlagWhileAsking
  <2>2. CASE record[call[r].ask].decision # "ALLOW"
    BY <1>5, <2>2 DEF WaitEnds, TypeOK, AllowedInv, UnansweredNeverRuns, FlagWhileAsking
  <2> QED BY <2>1, <2>2
<1>6. CASE AskTimesOut(r)
  BY <1>6 DEF AskTimesOut, TypeOK, AllowedInv, UnansweredNeverRuns, FlagWhileAsking
<1> QED BY <1>1, <1>2, <1>3, <1>4, <1>5, <1>6 DEF Ask

LEMMA ScriptStepInv ==
  ASSUME IInv, NEW r \in Runs, Script(r)
  PROVE  IInv'
<1> USE DEF IInv, gate, Move, Resume, At
<1>1. ASSUME NEW q \in Requests, CallCovered(r, q)
      PROVE  IInv'
  <2> DEFINE c == [req |-> q, ask |-> None]
  <2>1. q \in allowed
    BY <1>1 DEF CallCovered, Covered, AllowedInv
  <2>2. c \in Call /\ c.req = q /\ c.ask = None
    BY DEF Call
  <2>3. call' = [call EXCEPT ![r] = c] /\ thread' = [thread EXCEPT ![r] = "dispatch"]
    BY <1>1 DEF CallCovered
  <2>4. /\ thread[r] = "ready"
        /\ UNCHANGED <<turn, main, owner, flag, record, pending, answered, turnGrants, always,
                       allowed, shown, executed>>
    BY <1>1 DEF CallCovered
  <2> HIDE DEF c
  <2>5. TypeOK'
    BY <2>2, <2>3, <2>4, RuntimeAssumption DEF TypeOK, RuntimeAssumption
  <2>6. AllowedInv' /\ UnansweredNeverRuns' /\ FlagWhileAsking'
    BY <2>1, <2>2, <2>3, <2>4 DEF TypeOK, AllowedInv, UnansweredNeverRuns, FlagWhileAsking
  <2> QED BY <2>5, <2>6
<1>2. ASSUME NEW q \in Requests, NEW a \in Approvals, CallAsks(r, q, a)
      PROVE  IInv'
  <2> DEFINE c == [req |-> q, ask |-> a]
             rec == [run |-> r, req |-> q, decision |-> "AWAITING"]
  <2>1. c \in Call /\ c.req = q /\ c.ask = a /\ c # None /\ a # None
    BY RuntimeAssumption DEF Call, RuntimeAssumption
  <2>2. /\ rec \in Record /\ rec.decision = "AWAITING" /\ rec # None
        /\ rec.run = r /\ rec.req = q
    BY RuntimeAssumption DEF Record, RuntimeAssumption
  <2>3. record[a] = None /\ thread[r] = "ready"
    BY <1>2, FreshIsMember DEF CallAsks, Unused
  <2>4. /\ call' = [call EXCEPT ![r] = c] /\ thread' = [thread EXCEPT ![r] = "asking"]
        /\ record' = [record EXCEPT ![a] = rec] /\ pending' = pending \cup {a}
        /\ UNCHANGED <<turn, main, owner, flag, answered, turnGrants, always, allowed, shown, executed>>
    BY <1>2 DEF CallAsks
  <2> HIDE DEF c, rec
  <2>5. TypeOK'
    BY <2>1, <2>2, <2>3, <2>4 DEF TypeOK
  <2>6. AllowedInv' /\ UnansweredNeverRuns' /\ FlagWhileAsking'
    BY <2>1, <2>2, <2>3, <2>4 DEF TypeOK, AllowedInv, UnansweredNeverRuns, FlagWhileAsking
  <2> QED BY <2>5, <2>6
<1>3. CASE Dispatch(r)
  <2>1. call[r] \in Call
    BY <1>3 DEF Dispatch, TypeOK
  <2>2. TypeOK'
    BY <1>3, <2>1 DEF Dispatch, TypeOK, Call
  <2>3. AllowedInv' /\ UnansweredNeverRuns' /\ FlagWhileAsking'
    BY <1>3 DEF Dispatch, TypeOK, AllowedInv, UnansweredNeverRuns, FlagWhileAsking
  <2> QED BY <2>2, <2>3
<1>4. CASE Finish(r)
  BY <1>4 DEF Finish, TypeOK, AllowedInv, UnansweredNeverRuns, FlagWhileAsking
<1>5. \A q \in Scripted[r] : q \in Requests
  BY RuntimeAssumption DEF RuntimeAssumption
<1> QED BY <1>1, <1>2, <1>3, <1>4, <1>5 DEF Script

\* The scope of an answer is a set of requests that holds the one asked for.
LEMMA ScopeType ==
  ASSUME NEW q \in Requests, NEW forever \in BOOLEAN
  PROVE  Scope(q, forever) \subseteq Requests /\ q \in Scope(q, forever)
BY RuntimeAssumption DEF Scope, RuntimeAssumption

LEMMA UserStepInv ==
  ASSUME IInv, NEW a \in Approvals, User(a)
  PROVE  IInv'
<1> USE DEF IInv
<1>1. ASSUME NEW forever \in BOOLEAN, NEW saved \in BOOLEAN, Allow(a, forever, saved)
      PROVE  IInv'
  <2> DEFINE S == Scope(record[a].req, forever)
             rec == [record[a] EXCEPT !.decision = "ALLOW"]
  <2>1. record[a] \in Record /\ a \in pending
    BY <1>1 DEF Allow, TypeOK
  <2>2. S \subseteq Requests /\ record[a].req \in S
    BY <2>1, ScopeType DEF Record
  <2>3. rec \in Record /\ rec.req = record[a].req /\ rec.run = record[a].run /\ rec.decision = "ALLOW" /\ rec # None
    BY <2>1, RuntimeAssumption DEF Record, RuntimeAssumption
  <2>4. /\ record' = [record EXCEPT ![a] = rec] /\ pending' = pending \ {a}
        /\ turnGrants' = turnGrants \cup {S}
        /\ always' \in {always, always \cup S} /\ allowed' = allowed \cup S
        /\ answered' \in {answered, answered \cup {a}}
        /\ UNCHANGED <<turn, main, owner, thread, call, flag, shown, executed>>
    BY <1>1 DEF Allow
  <2> HIDE DEF S, rec
  <2>5. TypeOK'
    <3>1. /\ always' \subseteq Requests /\ allowed' \subseteq Requests
          /\ turnGrants' \subseteq SUBSET Requests /\ answered' \subseteq Approvals
          /\ pending' \subseteq Approvals /\ record' \in [Approvals -> Record \cup {None}]
      BY <2>2, <2>3, <2>4 DEF TypeOK
    <3>2. \A b \in pending' : record'[b] # None /\ record'[b].decision = "AWAITING"
      BY <2>4 DEF TypeOK
    <3>3. \A b \in Approvals : /\ record'[b] = None <=> record[b] = None
                              /\ record'[b].run = record[b].run
                              /\ record'[b].req = record[b].req
      BY <2>1, <2>3, <2>4, RuntimeAssumption DEF TypeOK, RuntimeAssumption
    <3> QED BY <2>4, <3>1, <3>2, <3>3 DEF TypeOK
  <2>6. AllowedInv' /\ UnansweredNeverRuns' /\ FlagWhileAsking'
    BY <2>1, <2>2, <2>3, <2>4 DEF TypeOK, AllowedInv, UnansweredNeverRuns, FlagWhileAsking
  <2> QED BY <2>5, <2>6
<1>2. ASSUME Deny(a)
      PROVE  IInv'
  <2> DEFINE rec == [record[a] EXCEPT !.decision = "DENY"]
  <2>1. record[a] \in Record /\ a \in pending /\ record[a].decision = "AWAITING"
    BY <1>2 DEF Deny, TypeOK
  <2>2. rec \in Record /\ rec.req = record[a].req /\ rec.run = record[a].run /\ rec.decision = "DENY" /\ rec # None
    BY <2>1, RuntimeAssumption DEF Record, RuntimeAssumption
  <2>3. /\ record' = [record EXCEPT ![a] = rec] /\ pending' = pending \ {a}
        /\ answered' = answered \cup {a}
        /\ UNCHANGED <<turn, main, owner, thread, call, flag, shown, turnGrants, always, allowed, executed>>
    BY <1>2 DEF Deny
  <2> HIDE DEF rec
  <2>4. TypeOK'
    BY <2>1, <2>2, <2>3 DEF TypeOK
  <2>5. AllowedInv' /\ UnansweredNeverRuns' /\ FlagWhileAsking'
    BY <2>1, <2>2, <2>3 DEF TypeOK, AllowedInv, UnansweredNeverRuns, FlagWhileAsking
  <2> QED BY <2>4, <2>5
<1> QED BY <1>1, <1>2 DEF User

\* The invariant is inductive.
LEMMA RuntimeNextInv ==
  ASSUME IInv, [Next]_vars
  PROVE  IInv'
<1>1. CASE UNCHANGED vars
  BY <1>1 DEF vars, IInv, TypeOK, AllowedInv, UnansweredNeverRuns, FlagWhileAsking
<1>2. CASE Next
  BY <1>2, TurnStepInv, MainStepInv, AskStepInv, ScriptStepInv, UserStepInv DEF Next
<1> QED BY <1>1, <1>2

THEOREM RuntimeInvariance == Spec => []IInv
<1> QED BY RuntimeInitInv, RuntimeNextInv, PTL DEF Spec

\* Every variable keeps its type: pending records are undecided, every asking
\* thread has a record of its own.
THEOREM RuntimeTypeCorrect == Spec => []TypeOK
<1>1. IInv => TypeOK
  BY DEF IInv
<1> QED BY <1>1, RuntimeInvariance, PTL

\* A call whose own approval was denied, or is undecided, is never dispatched.
THEOREM AnswersDecide == Spec => []UnansweredNeverRuns
<1>1. IInv => UnansweredNeverRuns
  BY DEF IInv
<1> QED BY <1>1, RuntimeInvariance, PTL

\* The timeout can be extended exactly while the thread waits for a human.
THEOREM FlagIsHonest == Spec => []FlagWhileAsking
<1>1. IInv => FlagWhileAsking
  BY DEF IInv
<1> QED BY <1>1, RuntimeInvariance, PTL

-----------------------------------------------------------------------------
(* Action properties *)

\* A decided record never changes again, whatever is tapped or times out.
THEOREM DecisionsFinal == Spec => DecisionFinal
<1>1. ASSUME IInv, [Next]_vars, NEW a \in Approvals,
             record[a] # None, record[a].decision # "AWAITING"
      PROVE  record'[a] = record[a]
  <2>1. CASE \E b \in Approvals : User(b)
    <3>1. PICK b \in Approvals : User(b)
      BY <2>1
    <3>2. b # a
      BY <3>1, <1>1 DEF User, Allow, Deny, IInv, TypeOK
    <3>3. \/ record' = [record EXCEPT ![b].decision = "ALLOW"]
          \/ record' = [record EXCEPT ![b].decision = "DENY"]
      BY <3>1 DEF User, Allow, Deny
    <3>4. record \in [Approvals -> Record \cup {None}]
      BY <1>1 DEF IInv, TypeOK
    <3> QED BY <3>2, <3>3, <3>4
  <2>2. CASE \E r \in Runs : Script(r)
    <3>1. PICK r \in Runs : Script(r)
      BY <2>2
    <3>2. CASE \E q \in Scripted[r] : \E b \in Approvals : CallAsks(r, q, b)
      <4>1. PICK q \in Scripted[r], b \in Approvals : CallAsks(r, q, b)
        BY <3>2
      <4>2. b # a
        BY <4>1, <1>1, FreshIsMember DEF CallAsks, Unused
      <4> QED BY <4>1, <4>2 DEF CallAsks, IInv, TypeOK
    <3>3. CASE UNCHANGED record
      BY <3>3
    <3> QED BY <3>1, <3>2, <3>3 DEF Script, CallCovered, Dispatch, Finish, gate
  <2>3. CASE \E t \in Turns : Turn(t)
    BY <2>3 DEF Turn, BeginTurn, BeginDirect, Execute, gate
  <2>4. CASE \E r \in Runs : Main(r) \/ Ask(r)
    BY <2>4 DEF Main, PolicyTimeout, HumanTimeout, Return, Ask, Emit, Block, WaitStarts,
                WaitMisses, WaitEnds, AskTimesOut, gate
  <2>5. CASE UNCHANGED vars
    BY <2>5 DEF vars
  <2> QED BY <1>1, <2>1, <2>2, <2>3, <2>4, <2>5 DEF Next
<1>2. IInv /\ [Next]_vars =>
        [\A a \in Approvals :
           record[a] # None /\ record[a].decision # "AWAITING" => record'[a] = record[a]]_vars
  BY <1>1
<1> QED BY <1>2, RuntimeInvariance, PTL DEF Spec, DecisionFinal

\* The policy timeout does not end an execution whose thread waits for a human.
THEOREM HumanAlwaysGetsTime == Spec => HumanGetsTime
<1>1. ASSUME IInv, [Next]_vars, NEW r \in Runs,
             main[r] = "wait", thread[r] \in {"blocked", "waiting"}
      PROVE  main'[r] # "timedout"
  <2>1. r \in flag /\ main \in [Runs -> {"none", "wait", "extended", "timedout", "done"}]
    BY <1>1 DEF IInv, FlagWhileAsking, TypeOK
  <2>2. CASE \E k \in Runs : Main(k)
    BY <1>1, <2>1, <2>2 DEF Main, PolicyTimeout, HumanTimeout, Return
  <2>3. CASE \E t \in Turns : Turn(t)
    BY <1>1, <2>1, <2>3 DEF Turn, BeginTurn, BeginDirect, Execute
  <2>4. CASE UNCHANGED main
    BY <1>1, <2>4
  <2>5. ASSUME NEW k \in Runs, Ask(k) \/ Script(k)
        PROVE  UNCHANGED main
    BY <2>5 DEF Ask, Emit, Block, WaitStarts, WaitMisses, WaitEnds, AskTimesOut,
                Script, CallCovered, CallAsks, Dispatch, Finish
  <2>6. ASSUME NEW a \in Approvals, User(a)
        PROVE  UNCHANGED main
    BY <2>6 DEF User, Allow, Deny
  <2> QED BY <1>1, <2>2, <2>3, <2>4, <2>5, <2>6 DEF Next, vars
<1>2. IInv /\ [Next]_vars =>
        [\A r \in Runs : main[r] = "wait" /\ thread[r] \in {"blocked", "waiting"}
                          => main'[r] # "timedout"]_vars
  BY <1>1
<1> QED BY <1>2, RuntimeInvariance, PTL DEF Spec, HumanGetsTime

-----------------------------------------------------------------------------
(* The refinement *)

\* A dispatched call is an Execute of the policy, an answer an Allow.
LEMMA RuntimeRefines ==
  ASSUME IInv, [Next]_vars
  PROVE  [Policy!Next]_<<allowed, executed>>
<1>1. ASSUME NEW r \in Runs, Dispatch(r)
      PROVE  Policy!Next
  <2>1. call[r].req \in Requests /\ call[r].req \in allowed
    BY <1>1 DEF Dispatch, IInv, TypeOK, AllowedInv, Call
  <2>2. Policy!Execute(call[r].req)
    BY <1>1, <2>1 DEF Dispatch, Policy!Execute, gate
  <2> QED BY <2>1, <2>2 DEF Policy!Next
<1>2. ASSUME NEW a \in Approvals, NEW forever \in BOOLEAN, NEW saved \in BOOLEAN,
             Allow(a, forever, saved)
      PROVE  Policy!Next
  <2> DEFINE S == Scope(record[a].req, forever)
  <2>1. record[a] \in Record
    BY <1>2 DEF Allow, IInv, TypeOK
  <2>2. S \subseteq Requests
    BY <2>1, ScopeType DEF Record
  <2>3. Policy!Allow(S)
    BY <1>2 DEF Allow, Policy!Allow
  <2> QED BY <2>2, <2>3 DEF Policy!Next
<1>3. CASE UNCHANGED <<allowed, executed>>
  BY <1>3
<1>4. ASSUME NEW r \in Runs, Main(r) \/ Ask(r)
      PROVE  UNCHANGED <<allowed, executed>>
  BY <1>4 DEF Main, PolicyTimeout, HumanTimeout, Return, Ask, Emit, Block, WaitStarts,
              WaitMisses, WaitEnds, AskTimesOut, gate
<1>5. ASSUME NEW t \in Turns, Turn(t)
      PROVE  UNCHANGED <<allowed, executed>>
  BY <1>5 DEF Turn, BeginTurn, BeginDirect, Execute, gate
<1>6. ASSUME NEW r \in Runs, Script(r), ~Dispatch(r)
      PROVE  UNCHANGED <<allowed, executed>>
  BY <1>6 DEF Script, CallCovered, CallAsks, Finish, gate
<1>7. ASSUME NEW a \in Approvals, Deny(a)
      PROVE  UNCHANGED <<allowed, executed>>
  BY <1>7 DEF Deny
<1> QED BY <1>1, <1>2, <1>3, <1>4, <1>5, <1>6, <1>7 DEF Next, User, vars

\* No tool call is dispatched that neither the configuration nor a user allowed,
\* whatever the interleaving of turns, threads, answers and timeouts.
THEOREM RuntimeKeepsPolicy == Spec => KeepsPolicy
<1>1. Init => Policy!Init
  BY DEF Init, Policy!Init
<1>2. IInv /\ [Next]_vars => [Policy!Next]_<<allowed, executed>>
  BY RuntimeRefines
<1> QED BY <1>1, <1>2, RuntimeInvariance, PTL DEF Spec, KeepsPolicy, Policy!Spec
=============================================================================
