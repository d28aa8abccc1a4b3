---------------------------- MODULE AgentProofs ----------------------------
(***************************************************************************)
(* Proofs about AgentLoop: its types, the bound on retries, and, when      *)
(* every generated name has a letter or a digit, that clams in use stay.   *)
(***************************************************************************)
EXTENDS AgentLoop, TLAPS

\* The invariant, by the variables it is about.  An attempt is counted before it is
\* generated, and a task starts with none.
TurnOK ==
  /\ phase \in [Turns -> {"new", "select", "plan", "generate", "execute", "analyze", "full",
                          "transform", "done"}]
  /\ left \in [Turns -> Nat \cup {None}]
  /\ attempt \in [Turns -> 0..MaxFix]
  /\ tries \in [Turns -> Nat]
  /\ clam \in [Turns -> Clams \cup {None}]
  /\ prev \in [Turns -> Names \cup {None}]
  /\ jobs \subseteq Names
  /\ \A t \in Turns :
       /\ tries[t] <= attempt[t] + 1
       /\ phase[t] \in {"new", "select", "plan"} => tries[t] = 0
       /\ phase[t] = "generate" => tries[t] > 0
       /\ phase[t] \in {"execute", "analyze", "full"} => clam[t] \in Clams
StoreOK ==
  /\ DOMAIN build \subseteq Names /\ \A n \in DOMAIN build : build[n] \in Builds
  /\ hasBuild \in BOOLEAN
  /\ DOMAIN clams \subseteq Names /\ \A n \in DOMAIN clams : clams[n] \in Scripts
StatsOK ==
  /\ usage \in [Names -> Times] \cup {None}
  /\ usageFile \in [Names -> Times] /\ used \in [Names -> Times]
  /\ forgot \subseteq Names
  /\ faults \in 0..MaxFaults
RestOK ==
  /\ direct \in [Directs -> Names \cup {None}]
  /\ accepted \subseteq Scripts
IInv == TurnOK /\ StoreOK /\ StatsOK /\ RestOK

LEMMA IInvTypes == IInv => TypeOK
BY DEF IInv, TurnOK, StoreOK, StatsOK, RestOK, TypeOK

LEMMA IInvBound == IInv => RetriesBounded
<1> SUFFICES ASSUME IInv, NEW t \in Turns PROVE tries[t] <= MaxFix + 1
  BY DEF RetriesBounded
<1>1. attempt[t] \in 0..MaxFix /\ tries[t] \in Nat /\ tries[t] <= attempt[t] + 1
  BY DEF IInv, TurnOK
<1> QED BY <1>1, AgentAssumption

-----------------------------------------------------------------------------
(* What a turn does. *)

\* Whatever a plan has left, the next step of a turn starts afresh.
LEMMA RunStepsKeeps ==
  ASSUME TurnOK, NEW t \in Turns, NEW n \in Nat, NEW name \in Names \cup {None},
         RunSteps(t, n, name)
  PROVE TurnOK'
<1> DEFINE known == IF name \in {None, NoSlug} THEN prev[t] ELSE name
<1>1. known \in Names \cup {None} BY DEF TurnOK
<1>2. PICK now \in 0..n :
      \E ids \in {{}, IF now = 0 THEN {} ELSE Named(known)} :
        \/ /\ now < n
           /\ \E kind \in {"select", "transform"} : BeginStep(t, kind, n - now - 1, known)
           /\ jobs' = jobs \cup ids
        \/ /\ now = n
           /\ EndTurn(t)
           /\ jobs' = jobs \cup ids \cup (IF now = 0 THEN Cached(t, name) ELSE {})
  BY DEF RunSteps
<1>3. Named(known) \subseteq Names /\ Cached(t, name) \subseteq Names BY <1>1 DEF Named, Cached
<1>4. jobs' \subseteq Names BY <1>2, <1>3 DEF TurnOK
<1>5. 0 \in 0..MaxFix BY AgentAssumption
<1> HIDE DEF known
<1>6. CASE \E kind \in {"select", "transform"} : BeginStep(t, kind, n - now - 1, known) /\ now < n
  <2>1. n - now - 1 \in Nat BY <1>6
  <2> QED BY <1>6, <2>1, <1>1, <1>4, <1>5 DEF BeginStep, TurnOK
<1>7. CASE EndTurn(t)
  BY <1>7, <1>4, <1>5 DEF EndTurn, TurnOK
<1> QED BY <1>2, <1>6, <1>7

LEMMA FinishKeeps ==
  ASSUME TurnOK, NEW t \in Turns, NEW name \in Names \cup {None}, Finish(t, name)
  PROVE TurnOK'
<1>1. (IF left[t] = None THEN 0 ELSE left[t]) \in Nat BY DEF TurnOK
<1> QED BY <1>1, RunStepsKeeps DEF Finish

LEMMA GenerateKeeps ==
  ASSUME TurnOK, NEW t \in Turns, NEW n \in 0..MaxFix, tries[t] <= n, Generate(t, n)
  PROVE TurnOK'
BY DEF Generate, TurnOK

LEMMA RetryKeeps ==
  ASSUME TurnOK, NEW t \in Turns, NEW name \in Names \cup {None}, Retry(t, name)
  PROVE TurnOK'
<1>1. CASE attempt[t] < MaxFix
  <2>1. attempt[t] \in 0..MaxFix /\ tries[t] \in Nat /\ tries[t] <= attempt[t] + 1 BY DEF TurnOK
  <2>2. attempt[t] + 1 \in 0..MaxFix BY <1>1, <2>1, AgentAssumption
  <2>3. Generate(t, attempt[t] + 1) BY <1>1 DEF Retry
  <2> QED BY <2>1, <2>2, <2>3, GenerateKeeps
<1>2. CASE ~(attempt[t] < MaxFix)
  BY <1>2, FinishKeeps DEF Retry
<1> QED BY <1>1, <1>2

LEMMA GoesKeeps ==
  ASSUME TurnOK, NEW t \in Turns, NEW to \in {"plan", "analyze", "full"}, Goes(t, to),
         to = "plan" => tries[t] = 0, to # "plan" => clam[t] \in Clams
  PROVE TurnOK'
BY DEF Goes, turn, TurnOK

-----------------------------------------------------------------------------
(* What is kept. *)

LEMMA PromoteKeeps ==
  ASSUME StoreOK, NEW n \in Names, Promote(n)
  PROVE StoreOK'
<1>1. \A m \in DOMAIN build : build[m].script \in Scripts BY DEF StoreOK, Builds
<1>2. CASE n = NoSlug
  <2>1. CASE hasBuild
    BY <1>1, <1>2, <2>1 DEF Promote, StoreOK, Scripted, NoFiles
  <2>2. CASE ~hasBuild
    BY <1>2, <2>2 DEF Promote, StoreOK, store
  <2> QED BY <2>1, <2>2
<1>3. CASE n # NoSlug
  <2>1. DOMAIN Drop(build, {n}) \subseteq Names
        /\ \A m \in DOMAIN Drop(build, {n}) : Drop(build, {n})[m] \in Builds
    BY DEF Drop, StoreOK
  <2>2. CASE n \in DOMAIN build
    <3>1. DOMAIN clams' \subseteq Names /\ \A m \in DOMAIN clams' : clams'[m] \in Scripts
      BY <1>1, <1>3, <2>2 DEF Promote, Put, StoreOK
    <3> QED BY <1>3, <2>1, <3>1 DEF Promote, StoreOK
  <2>3. CASE n \notin DOMAIN build
    BY <1>3, <2>1, <2>3 DEF Promote, StoreOK
  <2> QED BY <2>2, <2>3
<1> QED BY <1>2, <1>3

LEMMA FileTypes ==
  ASSUME StatsOK, NEW n
  PROVE FileAfterPromote(n) \in [Names -> Times]
BY DEF FileAfterPromote, StatsOK, NoUse, Times

LEMMA RecordKeeps ==
  ASSUME StatsOK, NEW n \in Names, NEW file \in [Names -> Times], RecordUsage(n, file)
  PROVE StatsOK'
<1>1. Loaded(file) \in [Names -> Times] BY DEF Loaded, StatsOK
<1>2. usage' \in [Names -> Times] /\ used' \in [Names -> Times]
  BY <1>1 DEF RecordUsage, StatsOK, Times
<1>3. forgot' \subseteq Names BY DEF RecordUsage, StillForgot, StatsOK
<1>4. faults' \in 0..MaxFaults BY AgentAssumption DEF RecordUsage, StatsOK
<1>5. usageFile' \in [Names -> Times] BY <1>2 DEF RecordUsage
<1> QED BY <1>2, <1>3, <1>4, <1>5 DEF StatsOK

\* The steps that end with an accepted clam.
LEMMA AcceptKeeps ==
  ASSUME IInv, NEW t \in Turns, clam[t] \in Clams, Accept(t), UNCHANGED direct
  PROVE IInv'
<1> DEFINE n == clam[t].name
<1>1. n \in Names /\ clam[t].script \in Scripts BY DEF Clams
<1>2. TurnOK' BY <1>1, FinishKeeps DEF Accept, IInv
<1>3. StoreOK' BY <1>1, PromoteKeeps DEF Accept, IInv
<1>4. StatsOK' BY <1>1, FileTypes, RecordKeeps DEF Accept, IInv
<1>5. RestOK' BY <1>1 DEF Accept, IInv, RestOK
<1> QED BY <1>2, <1>3, <1>4, <1>5 DEF IInv

LEMMA StoreStutters == ASSUME StoreOK, UNCHANGED store PROVE StoreOK'
BY DEF StoreOK, store

LEMMA StatsStutter == ASSUME StatsOK, UNCHANGED <<stats, faults>> PROVE StatsOK'
BY DEF StatsOK, stats
-----------------------------------------------------------------------------
(* Every action keeps the invariant. *)

LEMMA InitOK == Init => IInv
<1> SUFFICES ASSUME Init PROVE IInv OBVIOUS
<1>1. TurnOK BY AgentAssumption DEF Init, TurnOK
<1>2. PICK S \in SUBSET (Names \ {NoSlug}) :
      /\ clams = [n \in S |-> Given]
      /\ usageFile = [n \in Names |-> IF n \in S THEN "fresh" ELSE "never"]
  BY DEF Init
<1>3. StoreOK BY <1>2 DEF Init, StoreOK, NoFiles, Scripts
<1>4. StatsOK BY <1>2, AgentAssumption DEF Init, StatsOK, Times
<1>5. RestOK BY DEF Init, RestOK, Scripts
<1> QED BY <1>1, <1>3, <1>4, <1>5 DEF IInv

LEMMA BeginKeeps == ASSUME IInv, NEW t \in Turns, Begin(t) PROVE IInv'
<1>1. TurnOK' BY DEF Begin, IInv, TurnOK, turn
<1>2. StoreOK' BY StoreStutters DEF Begin, IInv
<1>3. StatsOK' BY DEF Begin, IInv, StatsOK, Loaded
<1>4. RestOK' BY DEF Begin, IInv, RestOK
<1> QED BY <1>1, <1>2, <1>3, <1>4 DEF IInv

\* Steps that change nothing but the turn.
LEMMA OnlyTurn ==
  ASSUME IInv, TurnOK', UNCHANGED <<store, stats, direct, accepted, faults>>
  PROVE IInv'
<1>1. StoreOK' /\ StatsOK' BY StoreStutters, StatsStutter DEF IInv
<1>2. RestOK' BY DEF IInv, RestOK
<1> QED BY <1>1, <1>2 DEF IInv

LEMMA SelectKeeps == ASSUME IInv, NEW t \in Turns, Select(t) PROVE IInv'
<1>0. TurnOK /\ phase[t] = "select" /\ tries[t] = 0 BY DEF Select, IInv, TurnOK
<1>1. ASSUME Finish(t, None) PROVE TurnOK' BY <1>0, <1>1, FinishKeeps
<1>2. ASSUME \E n \in DOMAIN clams \ {NoSlug} :
               clam' = [clam EXCEPT ![t] = [name |-> n, script |-> clams[n]]],
             phase' = [phase EXCEPT ![t] = "execute"],
             UNCHANGED <<left, attempt, tries, prev, jobs>>
      PROVE TurnOK'
  <2>1. PICK n \in DOMAIN clams : clam' = [clam EXCEPT ![t] = [name |-> n, script |-> clams[n]]]
    BY <1>2
  <2>2. [name |-> n, script |-> clams[n]] \in Clams BY DEF IInv, StoreOK, Clams
  <2> HIDE DEF Clams
  <2> QED BY <1>0, <1>2, <2>1, <2>2 DEF TurnOK
<1>3. ASSUME phase' = [phase EXCEPT ![t] = "plan"], UNCHANGED <<turn, jobs>> PROVE TurnOK'
  BY <1>0, <1>3, GoesKeeps DEF Goes
<1>4. ASSUME Generate(t, 0) PROVE TurnOK'
  BY <1>0, <1>4, GenerateKeeps, AgentAssumption
<1>5. TurnOK' BY <1>1, <1>2, <1>3, <1>4 DEF Select
<1> QED BY <1>5, OnlyTurn DEF Select

LEMMA PlanKeeps == ASSUME IInv, NEW t \in Turns, Plan(t) PROVE IInv'
<1>0. TurnOK /\ phase[t] = "plan" /\ tries[t] = 0 BY DEF Plan, IInv, TurnOK
<1>1. ASSUME Generate(t, 0) PROVE TurnOK' BY <1>0, <1>1, GenerateKeeps, AgentAssumption
<1>2. ASSUME NEW n \in 1..Steps[t], RunSteps(t, n, None) PROVE TurnOK'
  <2>1. n \in Nat BY AgentAssumption
  <2> QED BY <1>0, <1>2, <2>1, RunStepsKeeps
<1>3. TurnOK' BY <1>1, <1>2 DEF Plan
<1> QED BY <1>3, OnlyTurn DEF Plan

LEMMA TransformKeeps == ASSUME IInv, NEW t \in Turns, Transform(t) PROVE IInv'
<1>1. TurnOK' BY FinishKeeps DEF Transform, IInv
<1> QED BY <1>1, OnlyTurn DEF Transform

LEMMA GeneratedKeeps == ASSUME IInv, NEW t \in Turns, Generated(t) PROVE IInv'
<1>0. TurnOK /\ StoreOK /\ phase[t] = "generate" BY DEF Generated, IInv
<1>1. ASSUME Finish(t, None) \/ Retry(t, None), UNCHANGED store PROVE TurnOK' /\ StoreOK'
  BY <1>0, <1>1, FinishKeeps, RetryKeeps, StoreStutters
<1>2. ASSUME NEW n \in Names, WriteToBuild(t, n), phase' = [phase EXCEPT ![t] = "execute"],
             UNCHANGED <<clams, left, attempt, tries, prev, jobs>>
      PROVE TurnOK' /\ StoreOK'
  <2> DEFINE script == [by |-> t, step |-> IF left[t] = None THEN 0 ELSE left[t], no |-> tries[t]]
             dir == IF n \in DOMAIN build THEN [build[n] EXCEPT !.script = script]
                    ELSE [script |-> script, by |-> t, aged |-> FALSE]
             made == [name |-> n, script |-> script]
  <2>1. script \in Scripts
    <3>1. tries[t] \in Nat /\ tries[t] > 0 /\ attempt[t] \in 0..MaxFix /\ tries[t] <= attempt[t] + 1
      BY <1>0 DEF TurnOK
    <3>2. tries[t] \in 1..(MaxFix + 1) BY <3>1, AgentAssumption
    <3>3. (IF left[t] = None THEN 0 ELSE left[t]) \in Nat BY <1>0 DEF TurnOK
    <3> QED BY <3>2, <3>3 DEF Scripts
  <2>2. /\ build' = Put(build, n, dir) /\ hasBuild' = TRUE /\ clam' = [clam EXCEPT ![t] = made]
    BY <1>2 DEF WriteToBuild
  <2> HIDE DEF script
  <2>3. dir \in Builds BY <1>0, <2>1 DEF StoreOK, Builds
  <2>4. made \in Clams BY <2>1 DEF Clams
  <2> HIDE DEF dir, made
  <2>5. TurnOK' BY <1>0, <1>2, <2>2, <2>4 DEF TurnOK
  <2>6. StoreOK' BY <1>0, <1>2, <2>2, <2>3 DEF StoreOK, Put
  <2> QED BY <2>5, <2>6
<1>3. TurnOK' /\ StoreOK' BY <1>1, <1>2 DEF Generated
<1>4. StatsOK' BY StatsStutter DEF Generated, IInv
<1>5. RestOK' BY DEF Generated, IInv, RestOK
<1> QED BY <1>3, <1>4, <1>5 DEF IInv

\* The three steps in which a clam has been executed.
LEMMA JudgedKeeps ==
  ASSUME IInv, NEW t \in Turns, phase[t] \in {"execute", "analyze", "full"},
         Executed(t) \/ Analyzed(t) \/ AnalyzedFull(t)
  PROVE IInv'
<1>0. TurnOK /\ clam[t] \in Clams /\ clam[t].name \in Names BY DEF IInv, TurnOK, Clams
<1>1. ASSUME \/ Finish(t, clam[t].name) \/ Retry(t, clam[t].name)
             \/ Goes(t, "analyze") \/ Goes(t, "full"),
             Unkept, UNCHANGED direct
      PROVE IInv'
  <2>1. TurnOK' BY <1>0, <1>1, FinishKeeps, RetryKeeps, GoesKeeps
  <2> QED BY <1>1, <2>1, OnlyTurn DEF Unkept
<1>2. ASSUME Accept(t), UNCHANGED direct PROVE IInv'
  BY <1>0, <1>2, AcceptKeeps
<1> QED BY <1>1, <1>2 DEF Executed, Analyzed, AnalyzedFull

LEMMA DirectKeeps ==
  ASSUME IInv, NEW d \in Directs, EndDirect(d) \/ \E n \in Names : StartDirect(d, n)
  PROVE IInv'
<1>1. ASSUME NEW n \in Names, StartDirect(d, n) PROVE IInv'
  <2>1. TurnOK' BY <1>1 DEF StartDirect, IInv, TurnOK, turn
  <2>2. StoreOK' BY <1>1, StoreStutters DEF StartDirect, IInv
  <2>3. StatsOK' BY <1>1 DEF StartDirect, IInv, StatsOK, Loaded
  <2>4. RestOK' BY <1>1 DEF StartDirect, IInv, RestOK
  <2> QED BY <2>1, <2>2, <2>3, <2>4 DEF IInv
<1>2. ASSUME EndDirect(d) PROVE IInv'
  <2>1. TurnOK' BY <1>2 DEF EndDirect, IInv, TurnOK, turn
  <2>2. StoreOK' BY <1>2, StoreStutters DEF EndDirect, IInv
  <2>3. StatsOK'
    <3>1. direct[d] \in Names BY <1>2 DEF EndDirect, IInv, RestOK
    <3>2. usageFile \in [Names -> Times] BY DEF IInv, StatsOK
    <3> QED BY <1>2, <3>1, <3>2, StatsStutter, RecordKeeps DEF EndDirect, IInv
  <2>4. RestOK' BY <1>2 DEF EndDirect, IInv, RestOK
  <2> QED BY <2>1, <2>2, <2>3, <2>4 DEF IInv
<1> QED BY <1>1, <1>2
LEMMA HeartbeatKeeps ==
  ASSUME IInv, Cleanup \/ AgeUsage \/ \E n \in Names : AgeBuild(n)
  PROVE IInv'
<1>1. TurnOK' BY DEF Cleanup, AgeUsage, AgeBuild, IInv, TurnOK, turn
<1>2. StoreOK'
  <2>1. CASE Cleanup BY <2>1 DEF Cleanup, IInv, StoreOK, Drop
  <2>2. CASE AgeUsage BY <2>2, StoreStutters DEF AgeUsage, IInv
  <2>3. ASSUME NEW n \in Names, AgeBuild(n) PROVE StoreOK'
    BY <2>3 DEF AgeBuild, IInv, StoreOK, Builds
  <2> QED BY <2>1, <2>2, <2>3
<1>3. StatsOK'
  <2>1. CASE Cleanup BY <2>1 DEF Cleanup, IInv, StatsOK, Times
  <2>2. CASE AgeUsage BY <2>2 DEF AgeUsage, Older, IInv, StatsOK, Times
  <2>3. ASSUME NEW n \in Names, AgeBuild(n) PROVE StatsOK'
    BY <2>3, StatsStutter DEF AgeBuild, IInv
  <2> QED BY <2>1, <2>2, <2>3
<1>4. RestOK' BY DEF Cleanup, AgeUsage, AgeBuild, IInv, RestOK
<1> QED BY <1>1, <1>2, <1>3, <1>4 DEF IInv

\* After a crash every turn is over or not begun.
LEMMA RestartKeeps == ASSUME IInv, Restart PROVE TurnOK' /\ faults' \in 0..MaxFaults
<1>1. 0 \in 0..MaxFix BY AgentAssumption
<1>2. \A t \in Turns : phase'[t] \in {"new", "done"} BY DEF Restart, Running
<1>3. phase' \in [Turns -> {"new", "select", "plan", "generate", "execute", "analyze", "full",
                            "transform", "done"}]
  BY DEF Restart, Running, IInv, TurnOK
<1>4. jobs' \subseteq Names BY DEF Restart, IInv, TurnOK
<1>5. TurnOK' BY <1>1, <1>2, <1>3, <1>4 DEF Restart, TurnOK
<1>6. faults' \in 0..MaxFaults BY AgentAssumption DEF Restart, IInv, StatsOK
<1> QED BY <1>5, <1>6

LEMMA CrashKeeps ==
  ASSUME IInv, Crash \/ \E t \in Turns : CrashInAccept(t)
  PROVE IInv'
<1>1. Restart BY DEF Crash, CrashInAccept
<1>2. TurnOK' /\ faults' \in 0..MaxFaults BY <1>1, RestartKeeps
<1>3. direct' \in [Directs -> Names \cup {None}] /\ usage' = None BY <1>1 DEF Restart
<1>4. CASE Crash
  <2>1. StoreOK' BY <1>4, StoreStutters DEF Crash, IInv
  <2>2. StatsOK' BY <1>2, <1>3, <1>4 DEF Crash, IInv, StatsOK, NoUse, Times, StillForgot
  <2>3. RestOK' BY <1>3, <1>4 DEF Crash, IInv, RestOK
  <2> QED BY <1>2, <2>1, <2>2, <2>3 DEF IInv
<1>5. ASSUME NEW t \in Turns, CrashInAccept(t) PROVE IInv'
  <2>1. clam[t].name \in Names /\ clam[t].script \in Scripts
    BY <1>5 DEF CrashInAccept, HasRun, IInv, TurnOK, Clams
  <2>2. StoreOK'
    <3>1. CASE Promote(clam[t].name) BY <2>1, <3>1, PromoteKeeps DEF IInv
    <3>2. CASE clams' \in {NoFiles, Drop(clams, {clam[t].name})} /\ UNCHANGED <<build, hasBuild>>
      BY <3>2 DEF IInv, StoreOK, NoFiles, Drop
    <3> QED BY <1>5, <3>1, <3>2 DEF CrashInAccept
  <2>3. StatsOK'
    <3>1. usageFile' \in [Names -> Times] BY <1>5, FileTypes DEF CrashInAccept, IInv
    <3>2. used' \in [Names -> Times] BY <1>5 DEF CrashInAccept, IInv, StatsOK, Times
    <3>3. forgot' \subseteq Names BY <1>5 DEF CrashInAccept, StillForgot
    <3> QED BY <1>2, <1>3, <3>1, <3>2, <3>3 DEF StatsOK
  <2>4. RestOK' BY <1>3, <1>5, <2>1 DEF CrashInAccept, IInv, RestOK
  <2> QED BY <1>2, <2>2, <2>3, <2>4 DEF IInv
<1> QED BY <1>4, <1>5

LEMMA StutterKeeps == ASSUME IInv, UNCHANGED vars PROVE IInv'
<1>1. TurnOK' BY DEF vars, turn, IInv, TurnOK
<1>2. StoreOK' /\ StatsOK' BY StoreStutters, StatsStutter DEF vars, store, stats, IInv
<1>3. RestOK' BY DEF vars, IInv, RestOK
<1> QED BY <1>1, <1>2, <1>3 DEF IInv

LEMMA NextKeeps == IInv /\ [Next]_vars => IInv'
<1> SUFFICES ASSUME IInv, [Next]_vars PROVE IInv' OBVIOUS
<1>1. ASSUME NEW t \in Turns, Begin(t) PROVE IInv' BY <1>1, BeginKeeps
<1>2. ASSUME NEW t \in Turns, Step(t) PROVE IInv'
  <2>1. CASE Executed(t) \/ Analyzed(t) \/ AnalyzedFull(t)
    BY <2>1, JudgedKeeps DEF Executed, Analyzed, AnalyzedFull
  <2> QED BY <1>2, <2>1, SelectKeeps, PlanKeeps, GeneratedKeeps, TransformKeeps DEF Step
<1>3. ASSUME NEW d \in Directs, EndDirect(d) \/ \E n \in Names : StartDirect(d, n) PROVE IInv'
  BY <1>3, DirectKeeps
<1>4. CASE Cleanup \/ AgeUsage \/ \E n \in Names : AgeBuild(n) BY <1>4, HeartbeatKeeps
<1>5. CASE Crash \/ \E t \in Turns : CrashInAccept(t) BY <1>5, CrashKeeps
<1>6. CASE UNCHANGED vars BY <1>6, StutterKeeps
<1> QED BY <1>1, <1>2, <1>3, <1>4, <1>5, <1>6 DEF Next

\* Whatever the LLMs answer, however turns, direct runs, pruning and crashes interleave.
THEOREM AgentInvariance == Spec => []IInv
BY InitOK, NextKeeps, PTL DEF Spec

\* The variables of AgentLoop keep their types; an attempt never passes max_self_fix.
THEOREM AgentTypeCorrect == Spec => []TypeOK
BY AgentInvariance, IInvTypes, PTL

\* A task of _execute_single_task generates at most max_self_fix times again.
THEOREM RetriesAreBounded == Spec => []RetriesBounded
BY AgentInvariance, IInvBound, PTL
-----------------------------------------------------------------------------
(* Clams in use stay.  The heartbeat reads the file, the registry writes its *)
(* cache over it: the file knows every last use that was not lost, and the   *)
(* cache knows what the file knows.                                          *)

FileKnows == \A n \in Names : used[n] = "fresh" => n \in forgot \/ usageFile[n] = "fresh"
CacheKnows == usage # None => \A n \in Names : usageFile[n] = "fresh" => usage[n] = "fresh"
Known == FileKnows /\ CacheKnows

\* At the start the file knows every use.
LEMMA InitKnows == Init => Known
BY DEF Init, Known, FileKnows, CacheKnows

LEMMA RecordKnows ==
  ASSUME StatsOK, Known, NEW n \in Names, RecordUsage(n, usageFile)
  PROVE Known'
<1>1. Loaded(usageFile) \in [Names -> Times] BY DEF Loaded, StatsOK
<1>2. \A m \in Names : usageFile[m] = "fresh" => Loaded(usageFile)[m] = "fresh"
  BY DEF Loaded, Known, CacheKnows
<1>3. usage' = [Loaded(usageFile) EXCEPT ![n] = "fresh"] /\ used' = [used EXCEPT ![n] = "fresh"]
  BY DEF RecordUsage
<1>4. \A m \in Names : usageFile[m] = "fresh" => usage'[m] = "fresh" BY <1>1, <1>2, <1>3
<1>5. CASE usageFile' = usage' /\ forgot' = StillForgot(forgot)
  <2>1. CacheKnows' BY <1>5 DEF CacheKnows
  <2>2. ASSUME NEW m \in Names, used'[m] = "fresh", usageFile'[m] # "fresh" PROVE m \in forgot'
    <3>1. m # n BY <1>1, <1>3, <1>5, <2>2
    <3>2. used[m] = "fresh" /\ usageFile[m] # "fresh"
      BY <1>3, <1>4, <1>5, <2>2, <3>1 DEF StatsOK
    <3> QED BY <1>5, <2>2, <3>2 DEF Known, FileKnows, StillForgot
  <2> QED BY <2>1, <2>2 DEF Known, FileKnows
<1>6. CASE usageFile' = usageFile /\ forgot' = StillForgot(forgot \cup {n})
  <2>1. CacheKnows' BY <1>4, <1>6 DEF CacheKnows
  <2>2. ASSUME NEW m \in Names, used'[m] = "fresh", usageFile'[m] # "fresh" PROVE m \in forgot'
    BY <1>3, <1>6, <2>2 DEF Known, FileKnows, StillForgot, StatsOK
  <2> QED BY <2>1, <2>2 DEF Known, FileKnows
<1> QED BY <1>5, <1>6 DEF RecordUsage

LEMMA AcceptKnows ==
  ASSUME IInv, Known, NoSlug \notin Names, NEW t \in Turns, clam[t] \in Clams, Accept(t)
  PROVE Known' /\ DOMAIN clams \subseteq DOMAIN clams'
<1>1. clam[t].name \in Names /\ clam[t].name # NoSlug BY DEF Clams
<1>2. RecordUsage(clam[t].name, usageFile) BY <1>1 DEF Accept, FileAfterPromote
<1>3. Known' BY <1>1, <1>2, RecordKnows DEF IInv
<1>4. DOMAIN clams \subseteq DOMAIN clams' BY <1>1 DEF Accept, Promote, Put
<1> QED BY <1>3, <1>4

\* One step, of any action.
LEMMA NextKnows ==
  ASSUME IInv, Known, NoSlug \notin Names, [Next]_vars
  PROVE /\ Known'
        /\ \A n \in DOMAIN clams \ DOMAIN clams' :
             \/ used[n] # "fresh" \/ n \in forgot
             \/ faults' # faults /\ \E t \in Turns : HasRun(t) /\ clam[t].name = n
<1> DEFINE Stays == \A n \in DOMAIN clams \ DOMAIN clams' :
             \/ used[n] # "fresh" \/ n \in forgot
             \/ faults' # faults /\ \E t \in Turns : HasRun(t) /\ clam[t].name = n
<1>1. ASSUME UNCHANGED <<clams, stats>> PROVE Known' /\ Stays
  BY <1>1 DEF stats, Known, FileKnows, CacheKnows
<1>2. ASSUME UNCHANGED <<clams, usageFile, used, forgot>>, usage' \in {usage, Loaded(usageFile)}
      PROVE Known' /\ Stays
  BY <1>2 DEF Loaded, Known, FileKnows, CacheKnows
<1>3. ASSUME NEW t \in Turns, Begin(t) PROVE Known' /\ Stays
  BY <1>2, <1>3 DEF Begin, store
<1>4. ASSUME NEW t \in Turns, Step(t) PROVE Known' /\ Stays
  <2>1. CASE Select(t) \/ Plan(t) \/ Transform(t) \/ Generated(t)
    BY <1>1, <2>1 DEF Select, Plan, Transform, Generated, store
  <2>2. ASSUME HasRun(t), Accept(t) PROVE Known' /\ Stays
    <3>1. clam[t] \in Clams BY <2>2 DEF HasRun, IInv, TurnOK
    <3> QED BY <2>2, <3>1, AcceptKnows
  <2>3. CASE Executed(t) \/ Analyzed(t) \/ AnalyzedFull(t)
    BY <1>1, <2>2, <2>3 DEF Executed, Analyzed, AnalyzedFull, HasRun, Unkept, store
  <2> QED BY <1>4, <2>1, <2>3 DEF Step
<1>5. ASSUME NEW d \in Directs, NEW n \in Names, StartDirect(d, n) PROVE Known' /\ Stays
  BY <1>2, <1>5 DEF StartDirect, store
<1>6. ASSUME NEW d \in Directs, EndDirect(d) PROVE Known' /\ Stays
  <2>1. direct[d] \in Names BY <1>6 DEF EndDirect, IInv, RestOK
  <2>2. CASE RecordUsage(direct[d], usageFile)
    BY <1>6, <2>1, <2>2, RecordKnows DEF EndDirect, store, IInv
  <2> QED BY <1>1, <1>6, <2>2 DEF EndDirect, store
<1>7. CASE Cleanup
  <2>1. Known' BY <1>7 DEF Cleanup, Stale, Known, FileKnows, CacheKnows
  <2>2. ASSUME NEW n \in DOMAIN clams \ DOMAIN clams' PROVE used[n] # "fresh" \/ n \in forgot
    <3>1. n \in Names /\ usageFile[n] = "old" BY <1>7 DEF Cleanup, Stale, Drop, IInv, StoreOK
    <3> QED BY <3>1 DEF Known, FileKnows
  <2> QED BY <2>1, <2>2
<1>8. CASE AgeUsage
  <2>1. Known' BY <1>8 DEF AgeUsage, Older, IInv, StatsOK, Known, FileKnows, CacheKnows
  <2> QED BY <1>8, <2>1 DEF AgeUsage, store
<1>9. ASSUME NEW n \in Names, AgeBuild(n) PROVE Known' /\ Stays
  BY <1>1, <1>9 DEF AgeBuild
<1>10. ASSUME Restart, forgot' = StillForgot({n \in Names : used'[n] = "fresh"}) PROVE Known'
  BY <1>10 DEF Restart, Known, FileKnows, CacheKnows, StillForgot
<1>11. CASE Crash
  BY <1>10, <1>11 DEF Crash, store
<1>12. ASSUME NEW t \in Turns, CrashInAccept(t) PROVE Known' /\ Stays
  <2>1. faults' # faults BY <1>12 DEF CrashInAccept, Restart, IInv, StatsOK
  <2>2. clam[t].name # NoSlug BY <1>12 DEF CrashInAccept, HasRun, IInv, TurnOK, Clams
  <2>3. DOMAIN clams \ {clam[t].name} \subseteq DOMAIN clams'
    BY <1>12, <2>2 DEF CrashInAccept, Drop, Promote, Put
  <2>4. HasRun(t) BY <1>12 DEF CrashInAccept
  <2>5. Known' BY <1>10, <1>12 DEF CrashInAccept
  <2> QED BY <2>1, <2>3, <2>4, <2>5
<1>13. CASE UNCHANGED vars
  BY <1>1, <1>13 DEF vars, store
<1> QED BY <1>3, <1>4, <1>5, <1>6, <1>7, <1>8, <1>9, <1>11, <1>12, <1>13 DEF Next

\* If every generated name has a letter or a digit, no promotion, pruning or record of
\* another clam takes away a clam in use: for any number of turns, direct runs and names.
THEOREM UsedClamsAreKept ==
  ASSUME NoSlug \notin Names
  PROVE  Spec => UsedClamsStay
<1>1. IInv /\ Known /\ [Next]_vars =>
        [\A n \in DOMAIN clams \ DOMAIN clams' :
          \/ used[n] # "fresh" \/ n \in forgot
          \/ faults' # faults /\ \E t \in Turns : HasRun(t) /\ clam[t].name = n]_vars
  BY NextKnows
<1>2. IInv /\ Known /\ [Next]_vars => Known' BY NextKnows
<1> QED BY <1>1, <1>2, InitKnows, AgentInvariance, PTL DEF Spec, UsedClamsStay
=============================================================================
